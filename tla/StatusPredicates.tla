-------------------------- MODULE StatusPredicates --------------------------
(***************************************************************************)
(* What the controller makes of one component object (controllers/         *)
(* status.go): a verdict, from the fields of spec and status that status() *)
(* reads.                                                                  *)
(*                                                                         *)
(* Abstractions: an object is a record with one field for each thing a     *)
(* predicate looks at, whatever its kind.  Conditions are a function of    *)
(* their type (a controller keeps one entry per type; the code takes the   *)
(* first), "absent" if there is no entry.  `malformed` names the fields    *)
(* that do not have the type the code asks for: only objects whose CRD     *)
(* does not prevent it have any.                                           *)
(***************************************************************************)
EXTENDS Integers, Sequences

\* spec.replicas is not set
Unset == -1

ConditionStatus == {"True", "False", "Unknown", "absent"}
ReplicaKinds == {"Deployment", "StatefulSet", "ReplicaSet", "DaemonSet",
                 "ReplicationController", "Rollout"}

ReadyIf(b) == IF b THEN "Ready" ELSE "InProgress"

Desired(o) == IF o.specReplicas = Unset THEN 1 ELSE o.specReplicas

ScaledToZero(o) == Desired(o) = 0 /\ o.replicas = 0

-----------------------------------------------------------------------------
(* Kinds that count replicas *)

StsStatus(o) ==
  ReadyIf(\/ ScaledToZero(o)
          \/ o.currentReplicas > 0 /\ o.readyReplicas = o.currentReplicas)

DeploymentStatus(o) ==
  ReadyIf(/\ o.conds["ReplicaFailure"] # "True"
          /\ ScaledToZero(o) \/ o.conds["Available"] = "True")

\* Seeded fault: all desired replicas have to be available.
ReplicasetStatusFull(o) ==
  ReadyIf(/\ o.conds["ReplicaFailure"] # "True"
          /\ o.availableReplicas = Desired(o))

ReplicasetStatus(o) ==
  ReadyIf(/\ o.conds["ReplicaFailure"] # "True"
          /\ ScaledToZero(o) \/ o.availableReplicas > 0)

ReplicationControllerStatus(o) ==
  ReadyIf(ScaledToZero(o) \/ o.availableReplicas > 0)

DaemonsetStatus(o) == ReadyIf(o.numberUnavailable = 0)

PdbStatus(o) ==
  ReadyIf(/\ o.observedGeneration = o.generation
          /\ o.currentHealthy >= o.desiredHealthy)

HasAvailableConditionFalse(o) ==
  "conditions" \notin o.malformed /\ o.conds["Available"] = "False"

\* Seeded fault: a phase in which Argo is working counts as serving.
RolloutStatusByPhase(o) ==
  ReadyIf(\/ Desired(o) = 0
          \/ o.phase \in {"Healthy", "Inactive", "Progressing", "Paused"})

\* A parked Rollout is Ready whatever its phase; a failed phase and an
\* explicit Available=False decide next; the count decides the rest, and a
\* phase nobody knows shows when the count does not suffice.
RolloutStatus(o) ==
  IF "replicas" \in o.malformed THEN "Unknown"
  ELSE IF Desired(o) = 0 THEN "Ready"
  ELSE IF "phase" \in o.malformed THEN "Unknown"
  ELSE IF o.phase \in {"Degraded", "Error"} \/ HasAvailableConditionFalse(o)
    THEN "InProgress"
  ELSE IF "availableReplicas" \in o.malformed THEN "Unknown"
  ELSE IF o.availableReplicas >= Desired(o) THEN "Ready"
  ELSE IF o.phase \in {"", "Healthy", "Inactive", "Progressing", "Paused"}
    THEN "InProgress"
  ELSE "Unknown"

-----------------------------------------------------------------------------
(* Kinds that report a phase or conditions *)

\* Seeded fault: the phase is passed on as it is.
PvcStatusPhase(o) == o.phase

PvcStatus(o) == ReadyIf(o.phase = "Bound")

\* Ready, or Ready=False with the reason PodCompleted
PodStatus(o) == ReadyIf(o.conds["Ready"] = "True" \/ o.phase = "Completed")

\* Seeded fault: only an IP shows that an entry is provisioned.
AllIngressWithIP(ingress) == \A i \in DOMAIN ingress : ingress[i] = "ip"

\* An entry of the load balancer is provisioned with an IP or a host name.
AllIngressProvisioned(ingress) ==
  \A i \in DOMAIN ingress : ingress[i] \in {"ip", "hostname"}

ServiceStatus(o) ==
  ReadyIf(\/ o.type \in {"ClusterIP", "NodePort", "ExternalName"}
          \/ /\ o.type = "LoadBalancer" /\ o.clusterIP
             /\ o.ingress # <<>> /\ AllIngressProvisioned(o.ingress))

\* Only a condition that is True decides, and Complete and Failed exclude one
\* another.
JobStatus(o) == ReadyIf(o.conds["Complete"] = "True")

CronJobStatus(o) == ReadyIf(~o.suspend)

ReadyFromPositiveConditions(o, required) ==
  IF "conditions" \in o.malformed
    THEN "Unknown" ELSE ReadyIf(\A t \in required : o.conds[t] = "True")

GatewayStatus(o) == ReadyFromPositiveConditions(o, {"Accepted", "Programmed"})
KagentStatus(o)  == ReadyFromPositiveConditions(o, {"Accepted"})

\* A parent of a route: its conditions, or that they cannot be read.
Unreadable(p) == p.malformed
Rejects(p)    == p.Accepted = "False" \/ p.ResolvedRefs = "False"
Serves(p)     == p.Accepted = "True" /\ p.ResolvedRefs = "True"

\* The first parent that cannot be read or rejects the route decides.
RouteStatus(o) ==
  LET final == {i \in DOMAIN o.parents :
                  Unreadable(o.parents[i]) \/ Rejects(o.parents[i])}
  IN  IF "parents" \in o.malformed THEN "Unknown"
      ELSE IF final = {} THEN ReadyIf(\E i \in DOMAIN o.parents :
                                        Serves(o.parents[i]))
      ELSE IF \E i \in final : Unreadable(o.parents[i])
                                 /\ \A j \in final : i <= j THEN "Unknown"
      ELSE "InProgress"

\* Any other kind: Ready unless its conditions say otherwise.
StatusFromStandardConditions(o) ==
  IF "conditions" \in o.malformed THEN "Unknown"
  ELSE ReadyIf(o.conds["Ready"] # "False" /\ o.conds["InProgress"] # "True")

-----------------------------------------------------------------------------
\* status(): the predicate of the kind.
StatusOfObject(kind, o) ==
  CASE kind = "StatefulSet"           -> StsStatus(o)
    [] kind = "Deployment"            -> DeploymentStatus(o)
    [] kind = "ReplicaSet"            -> ReplicasetStatus(o)
    [] kind = "DaemonSet"             -> DaemonsetStatus(o)
    [] kind = "PersistentVolumeClaim" -> PvcStatus(o)
    [] kind = "Service"               -> ServiceStatus(o)
    [] kind = "Pod"                   -> PodStatus(o)
    [] kind = "PodDisruptionBudget"   -> PdbStatus(o)
    [] kind = "ReplicationController" -> ReplicationControllerStatus(o)
    [] kind = "Job"                   -> JobStatus(o)
    [] kind = "CronJob"               -> CronJobStatus(o)
    [] kind = "Rollout"               -> RolloutStatus(o)
    [] kind = "Gateway"               -> GatewayStatus(o)
    [] kind = "HTTPRoute"             -> RouteStatus(o)
    [] kind \in {"Agent", "ModelConfig"} -> KagentStatus(o)
    [] OTHER                          -> StatusFromStandardConditions(o)
=============================================================================
