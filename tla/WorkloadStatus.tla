--------------------------- MODULE WorkloadStatus ---------------------------
(***************************************************************************)
(* One component object over time: its parts come up and fail, it is       *)
(* scaled and updated, its own controller publishes its status with a lag, *)
(* and the verdict of StatusPredicates follows what is published.          *)
(*                                                                         *)
(* The parts are the pods of a workload, the conditions of a Gateway or    *)
(* Agent, the parents of an HTTPRoute, the entries of a load balancer: a   *)
(* part that is "starting" is there and reported as not well.  All of this *)
(* is Kubernetes, modelled from the fields that status.go reads and what   *)
(* its comments say they mean; a Deployment is Available while at most     *)
(* MaxUnavailable of the desired pods do not serve (status.go:146-147).    *)
(***************************************************************************)
EXTENDS StatusPredicates, FiniteSets

CONSTANTS
  Checked,         \* the kinds of this instance
  MaxParts,        \* bound on the parts of the object
  MaxUnavailable,  \* pods that may be missing before Available is False
  MaxChanges,      \* bound on scaling and updates
  MaxFailures      \* bound on failures

\* "Other" stands for every kind that status.go does not name.
Kinds == ReplicaKinds \cup
  {"PodDisruptionBudget", "PersistentVolumeClaim", "Service", "Pod", "Job",
   "CronJob", "Gateway", "HTTPRoute", "Agent", "ModelConfig", "Other"}

ASSUME WorkloadAssumption ==
  /\ Checked \subseteq Kinds
  /\ MaxParts \in Nat \ {0} /\ MaxUnavailable \in Nat
  /\ MaxChanges \in Nat /\ MaxFailures \in Nat

VARIABLES
  kind,       \* of the object
  malformed,  \* a status field of a CRD that has not the expected type
  replicas,   \* spec.replicas, or how many parts the object has
  generation,
  parts,      \* what there is of each part
  fresh,      \* pods of the new revision, while an update is in progress
  updating,
  failing,    \* pods cannot be created
  status,     \* what the object's controller has published
  disturbed,  \* history: more has happened than a scale-up of a sound object
  changes, failures

spec  == <<kind, malformed>>
world == <<parts, fresh, updating, failing>>
vars  == <<kind, malformed, replicas, generation, parts, fresh, updating,
           failing, status, disturbed, changes, failures>>

Slots == 1..MaxParts

Updatable == {"Deployment", "StatefulSet", "DaemonSet", "Rollout"}
Scalable  == ReplicaKinds \cup {"PodDisruptionBudget", "CronJob", "Service"}
Stoppable == {"Deployment", "ReplicaSet", "Rollout", "Job"}
Lenient   == {"Gateway", "HTTPRoute", "Agent", "ModelConfig", "Rollout", "Other"}

Wanted   == IF replicas = Unset THEN 1 ELSE replicas
Existing == {p \in Slots : parts[p] # "none"}
Up       == {p \in Slots : parts[p] = "up"}
AllUp    == Existing = Up /\ Cardinality(Up) = Wanted /\ ~updating

Count(n) == IF n > 0 THEN n ELSE 0

-----------------------------------------------------------------------------
(* What the object's controller publishes *)

\* Its view of the parts, from which counters or conditions are computed.
Seen == [generation |-> generation, wanted |-> Wanted,
         there |-> Cardinality(Existing), old |-> Cardinality(Existing \ fresh),
         up |-> Cardinality(Up), failing |-> failing]

Nothing == [generation |-> 0, wanted |-> 0, there |-> 0, old |-> 0, up |-> 0,
            failing |-> FALSE]

\* Several phases stand for work in progress, also one that is not known.
Phases ==
  CASE kind = "Rollout" /\ failing -> {"Degraded"}
    [] kind = "Rollout" /\ ~failing /\ AllUp -> {"Healthy"}
    [] kind = "Rollout" /\ ~failing /\ ~AllUp ->
         {"Progressing", "Paused", "New"}
    [] kind = "PersistentVolumeClaim" -> {IF Up = {} THEN "Pending" ELSE "Bound"}
    [] OTHER -> {""}

Unpublished == [counters |-> Nothing, detail |-> Nothing, phase |-> ""]

InSync == status.counters = Seen /\ status.detail = Seen /\ status.phase \in Phases

Truth(b) == IF b THEN "True" ELSE "False"

\* The conditions: the parts come up in order, and a part that is there is
\* reported as True or False.
Condition(type, seen) ==
  LET part(i) == IF i > seen.there THEN "absent" ELSE Truth(i <= seen.up)
  IN  IF seen = Nothing THEN "absent" ELSE
      CASE type = "Available"       -> Truth(seen.up >= seen.wanted - MaxUnavailable)
        [] type \in {"ReplicaFailure", "Failed"} -> Truth(seen.failing)
        [] type \in {"Ready", "Accepted", "Complete"} -> part(1)
        [] type = "Programmed"      -> part(2)
        [] type = "InProgress"      -> Truth(seen.up = 0)

ConditionTypes == {"Available", "ReplicaFailure", "Ready", "InProgress",
                   "Accepted", "Programmed", "Complete", "Failed"}

\* The object as the controller reads it.
Object ==
  LET c == status.counters
      d == status.detail
  IN  [specReplicas |-> replicas, generation |-> generation,
       suspend |-> replicas = 0, clusterIP |-> TRUE, malformed |-> malformed,
       type |-> IF replicas = 0 THEN "ClusterIP" ELSE "LoadBalancer",
       observedGeneration |-> c.generation, replicas |-> c.there,
       currentReplicas |-> c.old, readyReplicas |-> c.up,
       availableReplicas |-> c.up, currentHealthy |-> c.up,
       numberUnavailable |-> Count(c.wanted - c.up),
       desiredHealthy |-> Count(c.wanted - MaxUnavailable),
       phase |-> status.phase,
       conds |-> [t \in ConditionTypes |-> Condition(t, d)],
       ingress |-> [i \in 1..d.there |->
                      IF i > d.up THEN "" ELSE IF i = 1 THEN "ip" ELSE "hostname"],
       parents |-> [i \in 1..d.there |->
                      [malformed |-> FALSE, Accepted |-> "True",
                       ResolvedRefs |-> Truth(i <= d.up)]]]

Verdict == StatusOfObject(kind, Object)

-----------------------------------------------------------------------------
(* The cluster *)

Change == changes < MaxChanges /\ changes' = changes + 1
Fail   == failures < MaxFailures /\ failures' = failures + 1

\* A scale-up leaves a workload alone that serves, as long as no more pods
\* are missing than may be; any other change disturbs it.
Harmless(n) ==
  n > Wanted /\ Up # {} /\ (kind = "Deployment" => Cardinality(Up) >= n - MaxUnavailable)

\* spec.replicas changes (or whether a CronJob is suspended, a Service
\* external); the generation moves at once.
Scale(n) ==
  /\ kind \in Scalable /\ Change /\ n # replicas
  /\ replicas' = n /\ generation' = generation + 1
  /\ disturbed' = (disturbed \/ ~Harmless(n))
  /\ UNCHANGED <<spec, world, status, failures>>

StartUpdate ==
  /\ kind \in Updatable /\ ~updating /\ Change
  /\ updating' = TRUE /\ fresh' = {} /\ generation' = generation + 1
  /\ disturbed' = TRUE
  /\ UNCHANGED <<spec, replicas, parts, failing, status, failures>>

Surge == IF updating /\ kind \in {"Deployment", "Rollout"} THEN 1 ELSE 0

Create(p) ==
  /\ p \notin Existing /\ \A q \in 1..(p - 1) : q \in Existing
  /\ Cardinality(Existing) < Wanted + Surge /\ ~failing
  /\ parts' = [parts EXCEPT ![p] = "starting"]
  /\ fresh' = IF updating THEN fresh \cup {p} ELSE fresh
  /\ UNCHANGED <<spec, replicas, generation, updating, failing, status,
                 disturbed, changes, failures>>

ComesUp(p) ==
  /\ parts[p] = "starting" /\ (kind = "Job" => ~failing)
  /\ parts' = [parts EXCEPT ![p] = "up"]
  /\ UNCHANGED <<spec, replicas, generation, fresh, updating, failing, status,
                 disturbed, changes, failures>>

Drop(p) ==
  /\ parts' = [parts EXCEPT ![p] = "none"]
  /\ fresh' = fresh \ {p}
  /\ UNCHANGED <<spec, replicas, generation, updating, failing, status,
                 disturbed, changes, failures>>

\* Scaled down: what does not serve goes first.
Remove(p) ==
  /\ p \in Existing /\ Cardinality(Existing) > Wanted + Surge
  /\ p \in Up => Existing = Up
  /\ Drop(p)

\* The update takes a pod of the old revision away.
Replace(p) ==
  /\ updating /\ p \in Existing \ fresh
  /\ p \in Up => Cardinality(Up) > Wanted - MaxUnavailable
  /\ Drop(p)

FinishUpdate ==
  /\ updating /\ Existing \subseteq fresh /\ Cardinality(Existing) >= Wanted
  /\ updating' = FALSE /\ fresh' = {}
  /\ UNCHANGED <<spec, replicas, generation, parts, failing, status,
                 disturbed, changes, failures>>

Breaks(p) ==
  /\ parts[p] = "up" /\ kind # "Job" /\ Fail
  /\ parts' = [parts EXCEPT ![p] = "starting"]
  /\ disturbed' = TRUE
  /\ UNCHANGED <<spec, replicas, generation, fresh, updating, failing, status,
                 changes>>

\* Pods cannot be created (quota), or the Job has failed.
Stops ==
  /\ kind \in Stoppable /\ ~failing /\ ~AllUp /\ Fail
  /\ failing' = TRUE /\ disturbed' = TRUE
  /\ UNCHANGED <<spec, replicas, generation, parts, fresh, updating, status,
                 changes>>

Resumes ==
  /\ failing /\ kind # "Job"
  /\ failing' = FALSE
  /\ UNCHANGED <<spec, replicas, generation, parts, fresh, updating, status,
                 disturbed, changes, failures>>

\* The object's controller publishes: a Deployment's counters first and its
\* conditions a beat later, anything else at once.  Until then the conditions are
\* those published before, or, once the generation has moved, there are none
\* (ADR-0003, amendment of v1.2.1: "conditions[Available] = <absent>").  With a settled status published, an object is undisturbed.
Publish(c, d, phase) ==
  /\ status' = [counters |-> c, detail |-> d, phase |-> phase]
  /\ disturbed' = (disturbed /\ ~(c = Seen /\ d = Seen /\ AllUp /\ ~failing))
  /\ UNCHANGED <<spec, replicas, generation, world, changes, failures>>

PublishCounters ==
  /\ kind = "Deployment" /\ status.counters # Seen
  /\ \E detail \in {status.detail} \cup
                   (IF status.counters.generation # generation THEN {Nothing} ELSE {}) :
       Publish(Seen, detail, "")

PublishConditions ==
  /\ kind = "Deployment" /\ status.counters = Seen /\ status.detail # Seen
  /\ Publish(Seen, Seen, "")

PublishStatus ==
  /\ kind # "Deployment" /\ ~InSync
  /\ \E phase \in Phases : Publish(Seen, Seen, phase)

-----------------------------------------------------------------------------
InitialReplicas ==
  CASE kind = "Rollout"                -> {Unset, 0, 2}
    [] kind \in Scalable \ {"Rollout"} -> 0..(MaxParts - 1)
    [] kind \in {"Gateway", "HTTPRoute"} -> {2}
    [] OTHER                           -> {1}

Init ==
  /\ kind \in Checked
  /\ malformed \in {{}} \cup (IF kind \in Lenient
                                THEN {{"conditions"}, {"parents"}, {"phase"}} ELSE {})
  /\ replicas \in InitialReplicas
  /\ generation = 1
  /\ parts = [p \in Slots |-> "none"]
  /\ fresh = {} /\ updating = FALSE /\ failing = FALSE
  /\ status = Unpublished /\ disturbed = TRUE
  /\ changes = 0 /\ failures = 0

Next ==
  \/ (\E n \in 0..(MaxParts - 1) : Scale(n)) \/ StartUpdate
  \/ \E p \in Slots : Create(p) \/ ComesUp(p) \/ Remove(p) \/ Replace(p) \/ Breaks(p)
  \/ FinishUpdate \/ Stops \/ Resumes \/ PublishCounters \/ PublishConditions
  \/ PublishStatus

\* The object's controller works on, and what has failed comes back.  Nobody
\* owes a change or a failure.
Fairness ==
  /\ WF_vars(\E p \in Slots : Create(p)) /\ WF_vars(\E p \in Slots : ComesUp(p))
  /\ WF_vars(\E p \in Slots : Remove(p)) /\ WF_vars(\E p \in Slots : Replace(p))
  /\ WF_vars(FinishUpdate) /\ WF_vars(Resumes)
  /\ WF_vars(PublishCounters)
  /\ WF_vars(PublishConditions) /\ WF_vars(PublishStatus)

Spec     == Init /\ [][Next]_vars
FairSpec == Spec /\ Fairness

-----------------------------------------------------------------------------
(* Properties *)

TypeOK ==
  /\ kind \in Checked /\ replicas \in Nat \cup {Unset} /\ generation \in Nat
  /\ parts \in [Slots -> {"none", "starting", "up"}]
  /\ fresh \subseteq Existing /\ updating \in BOOLEAN /\ failing \in BOOLEAN
  /\ LET o == Object
     IN  /\ o.numberUnavailable \in Nat /\ o.desiredHealthy \in Nat
         /\ o.conds \in [ConditionTypes -> ConditionStatus]
         /\ StatusOfObject(kind, o) \in {"Ready", "InProgress", "Unknown"}
  /\ disturbed \in BOOLEAN /\ changes \in Nat /\ failures \in Nat

\* Nothing of the object serves: no pod of a workload, or a part that is
\* reported as not well.  A Deployment all of whose pods may be unavailable
\* is never down.
Down ==
  /\ Wanted > IF kind = "Deployment" THEN MaxUnavailable ELSE 0
  /\ kind \notin {"CronJob", "PodDisruptionBudget"}
  /\ Up = {} \/ (kind \notin ReplicaKinds /\ Existing # Up)

\* An outage shows as soon as the object's controller has published it, in
\* every phase of a rollout; and an object about which nothing is published
\* yet is not Ready (the CurrentReplicas > 0 of stsStatus; rolloutStatus's
\* comment at status.go:389-395).  A DaemonSet or an object of an unknown
\* kind counts as Ready until its status says otherwise.
OutageReported ==
  /\ InSync /\ Down => Verdict # "Ready"
  /\ status = Unpublished /\ Wanted > 0 /\ kind \notin {"CronJob", "DaemonSet", "Other"}
       => Verdict # "Ready"

Flaps == Verdict = "Ready" /\ Verdict' # "Ready" /\ ~disturbed'

\* A sound workload that is scaled up stays Ready while its new pods start,
\* however generation and counters run ahead of the conditions: a ReplicaSet or
\* ReplicationController always; a Deployment as long as it has a condition, for
\* deploymentStatus asks for Available = True (status.go:161).  ADR-0003:132-133
\* says that the counters would do while there is none.  A StatefulSet counts the
\* new pod as current, a DaemonSet as unavailable, a Rollout needs all its pods.
ScaleUpKeepsReady ==
  [][Flaps => \/ kind \notin {"Deployment", "ReplicaSet", "ReplicationController"}
              \/ kind = "Deployment" /\ status'.detail = Nothing]_vars

\* README.md:43-45: an HPA scale-up does not flap any scalable workload.
NoScaleUpFlaps == [][Flaps => kind \notin ReplicaKinds]_vars

\* Once scaling, updates and failures are over, every object ends up Ready,
\* and stays so: unless it is suspended, cannot be read, or is a failed Job.
EventuallyReady ==
  \/ <>[](Verdict = "Ready") \/ malformed # {}
  \/ <>[](kind = "CronJob" /\ replicas = 0) \/ <>[](kind = "Job" /\ failing)
=============================================================================
