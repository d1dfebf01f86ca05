-------------------------- MODULE MCWorkloadStatus --------------------------
(***************************************************************************)
(* Small instances of WorkloadStatus for TLC: an object of any kind, or of *)
(* one; at most two wanted pods and room for one more.                     *)
(***************************************************************************)
EXTENDS WorkloadStatus

OnlyRollout    == {"Rollout"}
OnlyDeployment == {"Deployment"}

=============================================================================
