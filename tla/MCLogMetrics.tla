---------------------------- MODULE MCLogMetrics ----------------------------
(***************************************************************************)
(* Small instances of LogMetrics for TLC: one or two exporter pods that    *)
(* count errors and warnings of a service and of unlabelled pods.          *)
(***************************************************************************)
EXTENDS LogMetrics, TLC

CONSTANTS p1, p2, web, db

\* Exporter pods are interchangeable in a safety run.
PodSymmetry == Permutations(Addrs)
=============================================================================
