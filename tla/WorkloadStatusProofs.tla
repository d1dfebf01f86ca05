------------------------ MODULE WorkloadStatusProofs ------------------------
(***************************************************************************)
(* Theorems about WorkloadStatus, for any number of parts, any tolerance   *)
(* of a Deployment, and any number of changes and failures: the predicates *)
(* of StatusPredicates show an outage that is published, and keep a sound  *)
(* workload Ready while it is scaled up.                                   *)
(***************************************************************************)
EXTENDS WorkloadStatus, FiniteSetTheorems, TLAPS

-----------------------------------------------------------------------------
(* Parts and their numbers *)

\* The constants have their types, and Slots is finite.
LEMMA Constants ==
  /\ MaxParts \in Nat /\ MaxUnavailable \in Nat /\ Checked \subseteq Kinds
  /\ IsFiniteSet(Slots)
  BY WorkloadAssumption, FS_Interval DEF WorkloadAssumption, Slots

\* How many parts there are, and how many serve.
LEMMA Counts ==
  /\ IsFiniteSet(Existing) /\ IsFiniteSet(Up) /\ IsFiniteSet(Existing \ fresh)
  /\ Cardinality(Existing) \in Nat /\ Cardinality(Up) \in Nat
  /\ Cardinality(Existing \ fresh) \in Nat
  /\ Cardinality(Up) = 0 <=> Up = {}
  /\ Cardinality(Existing) = 0 <=> Existing = {}
  /\ Cardinality(Up) <= Cardinality(Existing)
  /\ Existing # Up => Cardinality(Up) < Cardinality(Existing)
<1>1. Up \subseteq Existing /\ Existing \subseteq Slots
  BY DEF Up, Existing
<1>2. IsFiniteSet(Existing)
  BY <1>1, Constants, FS_Subset
<1>3. IsFiniteSet(Up) /\ IsFiniteSet(Existing \ fresh)
  <2>1. Existing \ fresh \subseteq Existing
    OBVIOUS
  <2> QED BY <1>1, <1>2, <2>1, FS_Subset
<1>4. /\ Cardinality(Existing) \in Nat /\ Cardinality(Up) \in Nat
      /\ Cardinality(Existing \ fresh) \in Nat
  BY <1>2, <1>3, FS_CardinalityType
<1>5. (Cardinality(Up) = 0 <=> Up = {}) /\ (Cardinality(Existing) = 0 <=> Existing = {})
  BY <1>2, <1>3, FS_EmptySet
<1>6. /\ Cardinality(Up) <= Cardinality(Existing)
      /\ Cardinality(Up) = Cardinality(Existing) => Up = Existing
  BY <1>1, <1>2, FS_Subset
<1>7. Existing # Up => Cardinality(Up) < Cardinality(Existing)
  BY <1>4, <1>6
<1> QED
  BY <1>2, <1>3, <1>4, <1>5, <1>6, <1>7

\* A part that is added or taken away changes a number of parts by one.
LEMMA OnePart ==
  ASSUME NEW S, IsFiniteSet(S), NEW p
  PROVE  /\ p \notin S => Cardinality(S \cup {p}) = Cardinality(S) + 1
         /\ Cardinality(S \ {p}) <= Cardinality(S)
         /\ Cardinality(S) \in Nat
<1>1. Cardinality(S) \in Nat
  BY FS_CardinalityType
<1>2. p \notin S => Cardinality(S \cup {p}) = Cardinality(S) + 1
  BY FS_AddElement
<1>3. Cardinality(S \ {p}) <= Cardinality(S)
  BY <1>1, FS_RemoveElement
<1> QED BY <1>1, <1>2, <1>3

\* What the steps of the cluster do to the parts.
LEMMA PartsChange ==
  ASSUME parts \in [Slots -> {"none", "starting", "up"}], NEW p \in Slots
  PROVE  /\ p \notin Existing /\ parts' = [parts EXCEPT ![p] = "starting"] =>
              Existing' = Existing \cup {p} /\ Up' = Up
         /\ parts[p] = "starting" /\ parts' = [parts EXCEPT ![p] = "up"] =>
              Existing' = Existing /\ Up' = Up \cup {p}
         /\ parts' = [parts EXCEPT ![p] = "none"] =>
              Existing' = Existing \ {p} /\ Up' = Up \ {p}
         /\ parts[p] = "up" /\ parts' = [parts EXCEPT ![p] = "starting"] =>
              Existing' = Existing /\ Up' = Up \ {p}
<1>1. ASSUME p \notin Existing, parts' = [parts EXCEPT ![p] = "starting"]
      PROVE  Existing' = Existing \cup {p} /\ Up' = Up
  BY <1>1 DEF Existing, Up
<1>2. ASSUME parts[p] = "starting", parts' = [parts EXCEPT ![p] = "up"]
      PROVE  Existing' = Existing /\ Up' = Up \cup {p}
  BY <1>2 DEF Existing, Up
<1>3. ASSUME parts' = [parts EXCEPT ![p] = "none"]
      PROVE  Existing' = Existing \ {p} /\ Up' = Up \ {p}
  BY <1>3 DEF Existing, Up
<1>4. ASSUME parts[p] = "up", parts' = [parts EXCEPT ![p] = "starting"]
      PROVE  Existing' = Existing /\ Up' = Up \ {p}
  BY <1>4 DEF Existing, Up
<1> QED BY <1>1, <1>2, <1>3, <1>4

-----------------------------------------------------------------------------
(* Objects and verdicts *)

\* A view of the parts that an object's controller may publish.
View == [generation : Nat, wanted : Nat, there : Nat, old : Nat, up : Nat,
         failing : BOOLEAN]

StatusType == status.counters \in View /\ status.detail \in View

\* The basic part of the type invariant, which the object's fields follow from.
BasicTypes ==
  /\ kind \in Checked /\ replicas \in Nat \cup {Unset} /\ generation \in Nat
  /\ parts \in [Slots -> {"none", "starting", "up"}]
  /\ fresh \subseteq Existing /\ updating \in BOOLEAN /\ failing \in BOOLEAN
  /\ disturbed \in BOOLEAN /\ changes \in Nat /\ failures \in Nat

\* What is published is a view of the parts.
LEMMA SeenType ==
  ASSUME BasicTypes
  PROVE  /\ Wanted \in Nat /\ Seen \in View /\ Nothing \in View
         /\ generation >= 1 => Seen # Nothing
<1>1. Wanted \in Nat
  BY DEF Wanted, BasicTypes, Unset
<1>2. Seen \in View
  BY <1>1, Counts DEF Seen, View, BasicTypes
<1>3. Nothing \in View
  BY DEF Nothing, View
<1>4. generation >= 1 => Seen # Nothing
  <2>1. Seen.generation = generation /\ Nothing.generation = 0
    BY DEF Seen, Nothing
  <2> QED BY <2>1 DEF BasicTypes
<1> QED BY <1>1, <1>2, <1>3, <1>4

\* A condition is True, False or absent.
LEMMA ConditionType ==
  ASSUME NEW t \in ConditionTypes, NEW seen
  PROVE  Condition(t, seen) \in ConditionStatus
<1>1. \A b : Truth(b) \in {"True", "False"}
  BY DEF Truth
<1> QED BY <1>1 DEF Condition, ConditionTypes, ConditionStatus

\* Every predicate returns a verdict (status()).
LEMMA VerdictType ==
  ASSUME NEW k, NEW o
  PROVE  StatusOfObject(k, o) \in {"Ready", "InProgress", "Unknown"}
<1> DEFINE V == {"Ready", "InProgress", "Unknown"}
<1>1. \A b : ReadyIf(b) \in V
  BY DEF ReadyIf
<1>2. /\ StsStatus(o) \in V /\ DeploymentStatus(o) \in V
      /\ ReplicasetStatus(o) \in V /\ ReplicationControllerStatus(o) \in V
      /\ DaemonsetStatus(o) \in V /\ PdbStatus(o) \in V /\ PvcStatus(o) \in V
      /\ PodStatus(o) \in V /\ ServiceStatus(o) \in V /\ JobStatus(o) \in V
      /\ CronJobStatus(o) \in V
  BY <1>1 DEF StsStatus, DeploymentStatus, ReplicasetStatus,
     ReplicationControllerStatus, DaemonsetStatus, PdbStatus, PvcStatus,
     PodStatus, ServiceStatus, JobStatus, CronJobStatus
<1>3. RolloutStatus(o) \in V
  BY DEF RolloutStatus
<1>4. \A required : ReadyFromPositiveConditions(o, required) \in V
  BY <1>1 DEF ReadyFromPositiveConditions
<1>5. GatewayStatus(o) \in V /\ KagentStatus(o) \in V
  BY <1>4 DEF GatewayStatus, KagentStatus
<1>6. RouteStatus(o) \in V
  BY <1>1 DEF RouteStatus
<1>7. StatusFromStandardConditions(o) \in V
  BY <1>1 DEF StatusFromStandardConditions
<1> HIDE DEF V
<1>8. StatusOfObject(k, o) \in V
  BY <1>2, <1>3, <1>5, <1>6, <1>7 DEF StatusOfObject
<1> QED BY <1>8 DEF V

\* The fields of the object as the predicates read them.
LEMMA ObjectFields ==
  /\ Object.specReplicas = replicas /\ Object.generation = generation
  /\ Object.suspend = (replicas = 0) /\ Object.malformed = malformed
  /\ Object.type = IF replicas = 0 THEN "ClusterIP" ELSE "LoadBalancer"
  /\ Object.observedGeneration = status.counters.generation
  /\ Object.replicas = status.counters.there
  /\ Object.currentReplicas = status.counters.old
  /\ Object.readyReplicas = status.counters.up
  /\ Object.availableReplicas = status.counters.up
  /\ Object.numberUnavailable = Count(status.counters.wanted - status.counters.up)
  /\ Object.desiredHealthy = Count(status.counters.wanted - MaxUnavailable)
  /\ Object.phase = status.phase
  /\ Object.conds = [t \in ConditionTypes |-> Condition(t, status.detail)]
  /\ Object.ingress =
       [i \in 1..status.detail.there |->
          IF i > status.detail.up THEN "" ELSE IF i = 1 THEN "ip" ELSE "hostname"]
  /\ Object.parents =
       [i \in 1..status.detail.there |->
          [malformed |-> FALSE, Accepted |-> "True",
           ResolvedRefs |-> Truth(i <= status.detail.up)]]
  BY DEF Object

\* TypeOK is its basic part and the types of what is published.
LEMMA TypesFollow == BasicTypes /\ StatusType => TypeOK
<1> SUFFICES ASSUME BasicTypes, StatusType PROVE TypeOK
  OBVIOUS
<1>1. \A n \in Int : Count(n) \in Nat
  BY DEF Count
<1>2. Object.numberUnavailable \in Nat /\ Object.desiredHealthy \in Nat
  <2>1. /\ status.counters.wanted - status.counters.up \in Int
        /\ status.counters.wanted - MaxUnavailable \in Int
    BY Constants DEF StatusType, View
  <2> QED BY <1>1, <2>1, ObjectFields
<1>3. Object.conds \in [ConditionTypes -> ConditionStatus]
  <2>1. \A t \in ConditionTypes : Condition(t, status.detail) \in ConditionStatus
    BY ConditionType
  <2> QED BY <2>1, ObjectFields
<1>4. StatusOfObject(kind, Object) \in {"Ready", "InProgress", "Unknown"}
  BY VerdictType
<1> QED
  BY <1>2, <1>3, <1>4 DEF BasicTypes, TypeOK

\* The predicate of the object's kind decides.
LEMMA Dispatch ==
  ASSUME kind \in Kinds
  PROVE  /\ kind = "StatefulSet" => Verdict = StsStatus(Object)
         /\ kind = "Deployment" => Verdict = DeploymentStatus(Object)
         /\ kind = "ReplicaSet" => Verdict = ReplicasetStatus(Object)
         /\ kind = "DaemonSet" => Verdict = DaemonsetStatus(Object)
         /\ kind = "PersistentVolumeClaim" => Verdict = PvcStatus(Object)
         /\ kind = "Service" => Verdict = ServiceStatus(Object)
         /\ kind = "Pod" => Verdict = PodStatus(Object)
         /\ kind = "PodDisruptionBudget" => Verdict = PdbStatus(Object)
         /\ kind = "ReplicationController" =>
              Verdict = ReplicationControllerStatus(Object)
         /\ kind = "Job" => Verdict = JobStatus(Object)
         /\ kind = "Rollout" => Verdict = RolloutStatus(Object)
         /\ kind = "Gateway" => Verdict = GatewayStatus(Object)
         /\ kind = "HTTPRoute" => Verdict = RouteStatus(Object)
         /\ kind \in {"Agent", "ModelConfig"} => Verdict = KagentStatus(Object)
         /\ kind = "Other" => Verdict = StatusFromStandardConditions(Object)
  BY DEF Verdict, StatusOfObject, Kinds, ReplicaKinds

-----------------------------------------------------------------------------
(* The inductive invariants *)

\* The generation counts from 1, and an object that is not scaled keeps the
\* number of parts it was created with.
PartsInv ==
  /\ generation >= 1
  /\ updating => kind \in Updatable
  /\ kind \notin Scalable =>
       /\ replicas = IF kind \in {"Gateway", "HTTPRoute"} THEN 2 ELSE 1
       /\ Cardinality(Existing) <= replicas

\* An object that nothing has disturbed since it was settled and published has
\* no part too many and one that serves, and its status says so, whichever of
\* its counters and conditions are published yet; a Deployment may have no
\* conditions for a while.
SoundInv ==
  ~disturbed =>
    /\ ~updating /\ ~failing /\ Cardinality(Existing) <= Wanted
    /\ Wanted > 0 => Up # {} /\ status.counters.up > 0
    /\ Wanted = 0 => status.counters.there = 0
    /\ status.detail # Nothing \/ kind = "Deployment"
    /\ ~status.detail.failing
    /\ kind = "Deployment" =>
         /\ Cardinality(Up) >= Wanted - MaxUnavailable
         /\ status.detail # Nothing =>
              status.detail.up >= status.detail.wanted - MaxUnavailable

IInv == BasicTypes /\ StatusType /\ PartsInv /\ SoundInv

\* An object is created without parts and without a status.
LEMMA InitIInv == Init => IInv
<1> SUFFICES ASSUME Init PROVE IInv
  OBVIOUS
<1>1. /\ kind \in Checked /\ generation = 1 /\ updating = FALSE /\ failing = FALSE
      /\ disturbed = TRUE /\ changes = 0 /\ failures = 0 /\ fresh = {}
      /\ parts = [p \in Slots |-> "none"] /\ replicas \in InitialReplicas
      /\ status = Unpublished
  BY DEF Init
<1>2. replicas \in Nat \cup {Unset}
  BY <1>1, Constants DEF InitialReplicas
<1>3. Existing = {}
  BY <1>1 DEF Existing
<1>4. BasicTypes
  BY <1>1, <1>2, <1>3 DEF BasicTypes
<1>5. StatusType
  BY <1>1 DEF StatusType, Unpublished, Nothing, View
<1>6. kind \notin Scalable =>
        replicas = IF kind \in {"Gateway", "HTTPRoute"} THEN 2 ELSE 1
  BY <1>1 DEF InitialReplicas, Scalable, ReplicaKinds
<1>7. Cardinality(Existing) = 0
  BY <1>3, Counts
<1>8. PartsInv
  BY <1>1, <1>6, <1>7 DEF PartsInv
<1> QED BY <1>1, <1>4, <1>5, <1>8 DEF IInv, SoundInv

\* The parts that one step of the cluster adds, starts, stops or removes leave
\* the invariant alone if no part of a sound object goes away.
LEMMA PartsStep ==
  ASSUME IInv, BasicTypes',
         UNCHANGED <<kind, replicas, generation, status>>,
         updating' => updating, failing' => failing,
         Cardinality(Existing)' <= Cardinality(Existing)
           \/ Cardinality(Existing)' <= Wanted,
         kind \notin Scalable => Cardinality(Existing)' <= replicas,
         ~disturbed' => ~disturbed /\ Up \subseteq Up'
  PROVE  IInv'
<1>1. StatusType' /\ Wanted' = Wanted /\ Wanted \in Nat
  BY SeenType DEF IInv, StatusType, Wanted
<1>2. PartsInv'
  BY DEF IInv, PartsInv, Updatable
<1>3. SoundInv'
  <2> SUFFICES ASSUME ~disturbed' PROVE SoundInv'
    BY DEF SoundInv
  <2>1. ~disturbed /\ SoundInv /\ Up \subseteq Up'
    BY DEF IInv
  <2>2. /\ IsFiniteSet(Up') /\ Cardinality(Up') \in Nat
        /\ Cardinality(Existing') \in Nat
    BY Constants, Counts, FS_Subset, FS_CardinalityType DEF Up, Existing
  <2>3. Cardinality(Up) <= Cardinality(Up') /\ Cardinality(Up) \in Nat
    BY <2>1, <2>2, FS_Subset, Counts
  <2>4. Cardinality(Existing') <= Wanted
    BY <1>1, <2>1, <2>2, Counts DEF SoundInv
  <2> QED
    BY <1>1, <2>1, <2>2, <2>3, <2>4, Constants DEF SoundInv
<1> QED BY <1>1, <1>2, <1>3 DEF IInv

\* Publishing shows the parts as they are, and maybe no conditions.
LEMMA PublishStep ==
  ASSUME IInv, NEW d, NEW phase, Publish(Seen, d, phase),
         d = Seen \/ d = status.detail \/ (kind = "Deployment" /\ d = Nothing)
  PROVE  IInv'
<1>1. /\ UNCHANGED <<kind, malformed, replicas, generation, parts, fresh, updating,
                     failing, changes, failures>>
      /\ status'.counters = Seen /\ status'.detail = d
      /\ disturbed' = (disturbed /\ ~(d = Seen /\ AllUp /\ ~failing))
  BY DEF Publish, spec, world
<1>2. UNCHANGED <<Existing, Up, Wanted>> /\ Wanted \in Nat /\ Seen \in View
      /\ Seen # Nothing /\ generation >= 1 /\ Nothing \in View
  BY <1>1, SeenType DEF Existing, Up, Wanted, IInv, PartsInv
<1>3. BasicTypes'
  BY <1>1, <1>2 DEF BasicTypes, IInv
<1>4. StatusType'
  BY <1>1, <1>2 DEF StatusType, IInv
<1>5. PartsInv'
  BY <1>1, <1>2 DEF PartsInv, IInv
<1>6. SoundInv'
  <2> SUFFICES ASSUME ~disturbed' PROVE SoundInv'
    BY DEF SoundInv
  <2>1. /\ Seen.up = Cardinality(Up) /\ Seen.there = Cardinality(Existing)
        /\ Seen.wanted = Wanted /\ Seen.failing = failing
    BY DEF Seen
  <2>2. /\ ~updating /\ ~failing /\ Cardinality(Existing) <= Wanted
        /\ Wanted > 0 => Up # {}
        /\ kind = "Deployment" => Cardinality(Up) >= Wanted - MaxUnavailable
    <3>1. CASE disturbed
      <4>1. Existing = Up /\ Cardinality(Up) = Wanted /\ ~updating /\ ~failing
        BY <1>1, <3>1 DEF AllUp
      <4> QED BY <1>2, <4>1, Counts, Constants
    <3>2. CASE ~disturbed
      BY <3>2 DEF IInv, SoundInv
    <3> QED BY <3>1, <3>2
  <2>3. /\ Cardinality(Up) \in Nat /\ Cardinality(Existing) \in Nat
        /\ Wanted > 0 => Cardinality(Up) > 0
        /\ Wanted = 0 => Cardinality(Existing) = 0
    BY <1>2, <2>2, Counts
  <2>4. /\ d # Nothing \/ kind = "Deployment"
        /\ ~d.failing
        /\ kind = "Deployment" /\ d # Nothing => d.up >= d.wanted - MaxUnavailable
    <3>1. CASE d = Seen
      BY <1>2, <2>1, <2>2, <3>1
    <3>2. CASE d # Seen /\ d = status.detail
      <4>1. ~disturbed
        BY <1>1, <3>2
      <4> QED BY <3>2, <4>1 DEF IInv, SoundInv
    <3>3. CASE kind = "Deployment" /\ d = Nothing
      BY <3>3 DEF Nothing
    <3> QED BY <3>1, <3>2, <3>3
  <2> QED
    BY <1>1, <1>2, <2>1, <2>2, <2>3, <2>4 DEF SoundInv
<1> QED BY <1>3, <1>4, <1>5, <1>6 DEF IInv

\* Every step of the cluster and of the object's controller keeps IInv.
LEMMA NextIInv == IInv /\ [Next]_vars => IInv'
<1> SUFFICES ASSUME IInv, [Next]_vars PROVE IInv'
  OBVIOUS
<1>b. BasicTypes /\ StatusType /\ PartsInv /\ SoundInv
  BY DEF IInv
<1>w. Wanted \in Nat
  BY <1>b, SeenType
<1>c. Cardinality(Existing) \in Nat /\ Cardinality(Up) \in Nat
  BY Counts
<1>1. ASSUME NEW n \in 0..(MaxParts - 1), Scale(n) PROVE IInv'
  <2>1. /\ UNCHANGED <<kind, malformed, parts, fresh, updating, failing, status,
                       failures>>
        /\ replicas' = n /\ generation' = generation + 1 /\ changes' = changes + 1
        /\ disturbed' = (disturbed \/ ~Harmless(n)) /\ kind \in Scalable
    BY <1>1 DEF Scale, Change, spec, world
  <2>2. n \in Nat /\ Wanted' = n /\ UNCHANGED <<Existing, Up>>
    BY <2>1, Constants DEF Wanted, Unset, Existing, Up
  <2>3. BasicTypes' /\ PartsInv'
    BY <1>b, <2>1, <2>2 DEF BasicTypes, PartsInv
  <2>4. SoundInv'
    <3> SUFFICES ASSUME ~disturbed' PROVE SoundInv'
      BY DEF SoundInv
    <3>1. /\ ~disturbed /\ n > Wanted /\ Up # {}
          /\ kind = "Deployment" => Cardinality(Up) >= n - MaxUnavailable
      BY <2>1 DEF Harmless
    <3>2. Wanted > 0
      <4>1. Cardinality(Up) # 0 /\ Cardinality(Up) <= Cardinality(Existing)
            /\ Cardinality(Existing) <= Wanted
        BY <1>b, <3>1, Counts DEF SoundInv
      <4> QED BY <4>1, <1>w, <1>c
    <3> QED
      BY <1>b, <1>w, <1>c, <2>1, <2>2, <3>1, <3>2 DEF SoundInv
  <2> QED BY <1>b, <2>1, <2>3, <2>4 DEF IInv, StatusType
<1>2. ASSUME StartUpdate PROVE IInv'
  <2>1. /\ UNCHANGED <<kind, malformed, replicas, parts, failing, status, failures>>
        /\ updating' = TRUE /\ fresh' = {} /\ generation' = generation + 1
        /\ disturbed' = TRUE /\ kind \in Updatable /\ changes' = changes + 1
    BY <1>2 DEF StartUpdate, Change, spec
  <2>2. UNCHANGED <<Existing, Up>>
    BY <2>1 DEF Existing, Up
  <2> QED
    BY <1>b, <2>1, <2>2 DEF IInv, BasicTypes, StatusType, PartsInv, SoundInv
<1>3. ASSUME NEW p \in Slots, Create(p) PROVE IInv'
  <2>1. /\ UNCHANGED <<kind, malformed, replicas, generation, updating, failing,
                       status, disturbed, changes, failures>>
        /\ parts' = [parts EXCEPT ![p] = "starting"] /\ p \notin Existing
        /\ fresh' = IF updating THEN fresh \cup {p} ELSE fresh
        /\ Cardinality(Existing) < Wanted + Surge
    BY <1>3 DEF Create, spec
  <2>2. Existing' = Existing \cup {p} /\ Up' = Up
    BY <1>b, <2>1, PartsChange DEF BasicTypes
  <2>3. BasicTypes'
    BY <1>b, <2>1, <2>2 DEF BasicTypes
  <2>4. Cardinality(Existing)' = Cardinality(Existing) + 1
    BY <2>1, <2>2, Counts, OnePart
  <2>5. ~updating => Cardinality(Existing)' <= Wanted
    BY <2>1, <2>4, <1>w, <1>c DEF Surge
  <2>6. kind \notin Scalable => Cardinality(Existing)' <= replicas
    <3> SUFFICES ASSUME kind \notin Scalable PROVE Cardinality(Existing)' <= replicas
      OBVIOUS
    <3>1. ~updating /\ Wanted = replicas
      BY <1>b DEF PartsInv, Updatable, Scalable, ReplicaKinds, Wanted, Unset
    <3> QED BY <2>5, <3>1
  <2>7. PartsInv' /\ StatusType'
    BY <1>b, <2>1, <2>6 DEF PartsInv, StatusType
  <2>8. SoundInv'
    BY <1>b, <2>1, <2>2, <2>5 DEF SoundInv, Wanted
  <2> QED BY <2>3, <2>7, <2>8 DEF IInv
<1>4. ASSUME NEW p \in Slots, ComesUp(p) PROVE IInv'
  <2>1. /\ UNCHANGED <<kind, malformed, replicas, generation, fresh, updating,
                       failing, status, disturbed, changes, failures>>
        /\ parts' = [parts EXCEPT ![p] = "up"] /\ parts[p] = "starting"
    BY <1>4 DEF ComesUp, spec
  <2>2. Existing' = Existing /\ Up' = Up \cup {p}
    BY <1>b, <2>1, PartsChange DEF BasicTypes
  <2>3. BasicTypes'
    BY <1>b, <2>1, <2>2 DEF BasicTypes
  <2>4. kind \notin Scalable => Cardinality(Existing)' <= replicas
    BY <1>b, <2>2 DEF PartsInv
  <2> QED BY <2>1, <2>2, <2>3, <2>4, <1>c, PartsStep
<1>5. ASSUME NEW p \in Slots, Drop(p), p \in Existing,
             ~disturbed => ~(Cardinality(Existing) <= Wanted) \/ updating
      PROVE IInv'
  <2>1. /\ UNCHANGED <<kind, malformed, replicas, generation, updating,
                       failing, status, disturbed, changes, failures>>
        /\ parts' = [parts EXCEPT ![p] = "none"] /\ fresh' = fresh \ {p}
    BY <1>5 DEF Drop, spec
  <2>2. Existing' = Existing \ {p} /\ Up' = Up \ {p}
    BY <1>b, <2>1, PartsChange DEF BasicTypes
  <2>3. BasicTypes'
    BY <1>b, <2>1, <2>2 DEF BasicTypes
  <2>4. disturbed'
    BY <1>5, <1>b, <2>1 DEF SoundInv, BasicTypes
  <2>5. Cardinality(Existing)' <= Cardinality(Existing)
    BY <2>2, Counts, OnePart
  <2>6. kind \notin Scalable => Cardinality(Existing)' <= replicas
    <3>1. Cardinality(Existing') \in Nat
      BY <2>2, Counts, FS_RemoveElement, FS_Subset, FS_CardinalityType
    <3> QED BY <1>b, <1>c, <2>5, <3>1 DEF PartsInv
  <2> QED BY <2>1, <2>3, <2>4, <2>5, <2>6, PartsStep
<1>6. ASSUME NEW p \in Slots, Remove(p) \/ Replace(p) PROVE IInv'
  <2>1. CASE Remove(p)
    <3>1. Drop(p) /\ p \in Existing /\ Cardinality(Existing) > Wanted + Surge
      BY <2>1 DEF Remove
    <3>2. ~(Cardinality(Existing) <= Wanted)
      BY <3>1, <1>w, <1>c DEF Surge
    <3> QED BY <3>1, <3>2, <1>5
  <2>2. CASE Replace(p)
    <3>1. Drop(p) /\ p \in Existing /\ updating
      BY <2>2 DEF Replace
    <3> QED BY <3>1, <1>5
  <2> QED BY <1>6, <2>1, <2>2
<1>7. ASSUME NEW p \in Slots, Breaks(p) PROVE IInv'
  <2>1. /\ UNCHANGED <<kind, malformed, replicas, generation, fresh, updating,
                       failing, status, changes>>
        /\ parts' = [parts EXCEPT ![p] = "starting"] /\ parts[p] = "up"
        /\ disturbed' = TRUE /\ failures' = failures + 1
    BY <1>7 DEF Breaks, Fail, spec
  <2>2. Existing' = Existing
    BY <1>b, <2>1, PartsChange DEF BasicTypes
  <2>3. BasicTypes'
    BY <1>b, <2>1, <2>2 DEF BasicTypes
  <2> QED
    BY <1>b, <2>1, <2>2, <2>3 DEF IInv, PartsInv, SoundInv, StatusType
<1>8. ASSUME FinishUpdate \/ Stops \/ Resumes PROVE IInv'
  <2>1. /\ UNCHANGED <<kind, malformed, replicas, generation, parts, status, changes>>
        /\ fresh' = fresh \/ fresh' = {}
    BY <1>8 DEF FinishUpdate, Stops, Resumes, spec
  <2>2. updating' \in BOOLEAN /\ failing' \in BOOLEAN /\ (updating' => updating)
    <3>1. CASE FinishUpdate
      <4>1. updating' = FALSE /\ failing' = failing
        BY <3>1 DEF FinishUpdate
      <4> QED BY <1>b, <4>1 DEF BasicTypes
    <3>2. CASE Stops
      <4>1. updating' = updating /\ failing' = TRUE
        BY <3>2 DEF Stops
      <4> QED BY <1>b, <4>1 DEF BasicTypes
    <3>3. CASE Resumes
      <4>1. updating' = updating /\ failing' = FALSE
        BY <3>3 DEF Resumes
      <4> QED BY <1>b, <4>1 DEF BasicTypes
    <3> QED BY <1>8, <3>1, <3>2, <3>3
  <2>3. failures' \in Nat
    BY <1>8, <1>b DEF FinishUpdate, Stops, Resumes, Fail, BasicTypes
  <2>4. disturbed' /\ disturbed' \in BOOLEAN
    <3>1. CASE FinishUpdate
      BY <1>b, <3>1 DEF FinishUpdate, SoundInv, BasicTypes
    <3>2. CASE Stops
      BY <3>2 DEF Stops
    <3>3. CASE Resumes
      BY <1>b, <3>3 DEF Resumes, SoundInv, BasicTypes
    <3> QED BY <1>8, <3>1, <3>2, <3>3
  <2>5. Existing' = Existing
    BY <2>1 DEF Existing
  <2>6. BasicTypes'
    BY <1>b, <2>1, <2>2, <2>3, <2>4, <2>5 DEF BasicTypes
  <2>7. PartsInv' /\ StatusType' /\ SoundInv'
    BY <1>b, <2>1, <2>2, <2>4, <2>5 DEF PartsInv, StatusType, SoundInv
  <2> QED BY <2>6, <2>7 DEF IInv
<1>9. ASSUME PublishCounters \/ PublishConditions \/ PublishStatus PROVE IInv'
  BY <1>9, PublishStep DEF PublishCounters, PublishConditions, PublishStatus
<1>10. CASE UNCHANGED vars
  BY <1>10 DEF vars, IInv, BasicTypes, StatusType, PartsInv, SoundInv, Existing,
     Up, Wanted
<1> QED
  BY <1>1, <1>2, <1>3, <1>4, <1>6, <1>7, <1>8, <1>9, <1>10 DEF Next

\* The invariant holds in every reachable state.
LEMMA Invariant == Spec => []IInv
  BY InitIInv, NextIInv, PTL DEF Spec

\* Types, for any number of parts: the fields that the predicates read are of
\* the types the API gives them, and every verdict is one of three (status()).
THEOREM WorkloadTypes == Spec => []TypeOK
<1>1. IInv => TypeOK
  BY TypesFollow DEF IInv
<1> QED BY <1>1, Invariant, PTL

-----------------------------------------------------------------------------
(* A scale-up does not flap *)

\* What the conditions say of a view that has been published.
LEMMA ConditionsSay ==
  ASSUME NEW seen \in View, seen # Nothing
  PROVE  /\ Condition("Available", seen) = Truth(seen.up >= seen.wanted - MaxUnavailable)
         /\ Condition("ReplicaFailure", seen) = Truth(seen.failing)
         /\ Condition("InProgress", seen) = Truth(seen.up = 0)
         /\ \A t \in {"Ready", "Accepted", "Complete"} :
              Condition(t, seen) =
                IF 1 > seen.there THEN "absent" ELSE Truth(1 <= seen.up)
         /\ Condition("Programmed", seen) =
              IF 2 > seen.there THEN "absent" ELSE Truth(2 <= seen.up)
  BY DEF Condition

\* What the object shows of them.
LEMMA PublishedConditions ==
  ASSUME status.detail \in View, status.detail # Nothing
  PROVE  /\ Object.conds["Available"] =
              Truth(status.detail.up >= status.detail.wanted - MaxUnavailable)
         /\ Object.conds["ReplicaFailure"] = Truth(status.detail.failing)
         /\ Object.conds["InProgress"] = Truth(status.detail.up = 0)
         /\ \A t \in {"Ready", "Accepted", "Complete"} :
              Object.conds[t] =
                IF 1 > status.detail.there THEN "absent"
                                           ELSE Truth(1 <= status.detail.up)
         /\ Object.conds["Programmed"] =
              IF 2 > status.detail.there THEN "absent" ELSE Truth(2 <= status.detail.up)
<1>1. \A t \in ConditionTypes : Object.conds[t] = Condition(t, status.detail)
  BY ObjectFields
<1>2. /\ Object.conds["Available"] = Condition("Available", status.detail)
      /\ Object.conds["ReplicaFailure"] = Condition("ReplicaFailure", status.detail)
      /\ Object.conds["InProgress"] = Condition("InProgress", status.detail)
      /\ \A t \in {"Ready", "Accepted", "Complete"} :
           Object.conds[t] = Condition(t, status.detail)
      /\ Object.conds["Programmed"] = Condition("Programmed", status.detail)
  BY <1>1 DEF ConditionTypes
<1> QED BY <1>2, ConditionsSay

\* The replicas that status.go takes as desired are those the cluster wants.
LEMMA DesiredIsWanted == Desired(Object) = Wanted
  BY ObjectFields DEF Desired, Wanted

\* A sound workload of these kinds is Ready: SoundInv is what their predicates
\* ask for.
LEMMA SoundIsReady ==
  ASSUME IInv, ~disturbed,
         kind \in {"Deployment", "ReplicaSet", "ReplicationController"},
         kind = "Deployment" => status.detail # Nothing
  PROVE  Verdict = "Ready"
<1>1. /\ Wanted \in Nat /\ status.detail \in View /\ status.counters \in View
      /\ status.detail # Nothing /\ ~status.detail.failing
      /\ Wanted > 0 => status.counters.up > 0
      /\ Wanted = 0 => status.counters.there = 0
      /\ kind = "Deployment" => status.detail.up >= status.detail.wanted - MaxUnavailable
  BY SeenType DEF IInv, SoundInv, StatusType
<1>2. Object.conds["ReplicaFailure"] # "True"
  BY <1>1, PublishedConditions DEF Truth
<1>3. kind = "Deployment" => Object.conds["Available"] = "True"
  BY <1>1, PublishedConditions DEF Truth
<1>4. ScaledToZero(Object) \/ Object.availableReplicas > 0
  <2>1. /\ Object.replicas = status.counters.there
        /\ Object.availableReplicas = status.counters.up
    BY ObjectFields
  <2>2. CASE Wanted > 0
    BY <1>1, <2>1, <2>2
  <2>3. CASE Wanted = 0
    BY <1>1, <2>1, <2>3, DesiredIsWanted DEF ScaledToZero
  <2> QED BY <1>1, <2>2, <2>3
<1>5. kind \in Kinds
  BY DEF Kinds, ReplicaKinds
<1>6. CASE kind = "Deployment"
  BY <1>2, <1>3, <1>5, <1>6, Dispatch DEF DeploymentStatus, ReadyIf
<1>7. CASE kind = "ReplicaSet"
  BY <1>2, <1>4, <1>5, <1>7, Dispatch DEF ReplicasetStatus, ReadyIf
<1>8. CASE kind = "ReplicationController"
  BY <1>4, <1>5, <1>8, Dispatch DEF ReplicationControllerStatus, ReadyIf
<1> QED BY <1>6, <1>7, <1>8

\* The kind of an object is fixed.
LEMMA KindIsFixed == [Next]_vars => kind' = kind
  BY DEF Next, Scale, StartUpdate, Create, ComesUp, Remove, Replace, Drop, Breaks,
     FinishUpdate, Stops, Resumes, PublishCounters, PublishConditions,
     PublishStatus, Publish, spec, vars

\* A sound ReplicaSet or ReplicationController stays Ready while it is scaled up,
\* whatever the number of pods and in whatever order they start and its status is
\* published; a Deployment leaves Ready only where its counters are published and
\* no condition is (deploymentStatus, replicasetStatus, ADR-0003).
THEOREM ScaleUpsKeepReady == Spec => ScaleUpKeepsReady
<1> DEFINE Replicated == {"Deployment", "ReplicaSet", "ReplicationController"}
<1> DEFINE Bare == kind = "Deployment" /\ status.detail = Nothing
<1> DEFINE SoundReady ==
             ~disturbed /\ kind \in Replicated /\ ~Bare => Verdict = "Ready"
<1>1. IInv => SoundReady
  BY SoundIsReady
<1>2. SoundReady' /\ [Next]_vars
        => [Flaps => kind \notin Replicated
                     \/ (kind = "Deployment" /\ status'.detail = Nothing)]_vars
  BY KindIsFixed DEF Flaps
<1> HIDE DEF SoundReady
<1> QED
  BY <1>1, <1>2, Invariant, PTL DEF Spec, ScaleUpKeepsReady

-----------------------------------------------------------------------------
(* An outage that is published shows *)

\* What the predicates read of an outage: nothing is available, or the object's
\* last part is reported as not well.
LEMMA OutageFields ==
  ASSUME IInv, InSync, Down
  PROVE  /\ Wanted > 0 /\ kind \in Kinds \ {"CronJob", "PodDisruptionBudget"}
         /\ status.detail = Seen /\ status.detail \in View /\ status.detail # Nothing
         /\ status.detail.up = Cardinality(Up) /\ status.detail.there = Cardinality(Existing)
         /\ status.detail.wanted = Wanted
         /\ Object.replicas = Cardinality(Existing) /\ Object.readyReplicas = Cardinality(Up)
         /\ Object.availableReplicas = Cardinality(Up)
         /\ Object.numberUnavailable = Count(Wanted - Cardinality(Up))
         /\ Object.phase \in Phases
         /\ kind = "Deployment" => Wanted > MaxUnavailable
         /\ kind \in ReplicaKinds => Cardinality(Up) = 0
         /\ kind \notin ReplicaKinds =>
              Cardinality(Up) = 0 \/ Cardinality(Up) < Cardinality(Existing)
<1>1. /\ status.counters = Seen /\ status.detail = Seen /\ status.phase \in Phases
  BY DEF InSync
<1>2. Wanted \in Nat /\ Seen \in View /\ Seen # Nothing
  BY SeenType DEF IInv, PartsInv
<1>3. /\ Seen.up = Cardinality(Up) /\ Seen.there = Cardinality(Existing)
      /\ Seen.wanted = Wanted
  BY DEF Seen
<1>4. kind \in Kinds
  BY Constants DEF IInv, BasicTypes
<1>5. /\ Wanted > IF kind = "Deployment" THEN MaxUnavailable ELSE 0
      /\ kind \notin {"CronJob", "PodDisruptionBudget"}
      /\ Up = {} \/ (kind \notin ReplicaKinds /\ Existing # Up)
  BY DEF Down
<1>6. Wanted > 0 /\ (kind = "Deployment" => Wanted > MaxUnavailable)
  BY <1>2, <1>5, Constants
<1>7. /\ Object.replicas = Seen.there /\ Object.readyReplicas = Seen.up
      /\ Object.availableReplicas = Seen.up
      /\ Object.numberUnavailable = Count(Seen.wanted - Seen.up)
      /\ Object.phase \in Phases
  BY <1>1, ObjectFields
<1>8. Up = {} => Cardinality(Up) = 0
  BY Counts
<1>9. Existing # Up => Cardinality(Up) < Cardinality(Existing)
  BY Counts
<1> QED
  BY <1>1, <1>2, <1>3, <1>4, <1>5, <1>6, <1>7, <1>8, <1>9

\* A Service is external while parts of it are wanted (serviceStatus).
LEMMA External == Wanted > 0 => Object.type = "LoadBalancer"
<1>1. Wanted > 0 => replicas # 0
  BY DEF Wanted, Unset
<1>2. Object.type = IF replicas = 0 THEN "ClusterIP" ELSE "LoadBalancer"
  BY ObjectFields
<1> QED BY <1>1, <1>2

\* A view without parts shows no ingress and no parent.
LEMMA NoParts ==
  ASSUME status.detail.there = 0
  PROVE  Object.ingress = <<>> /\ DOMAIN Object.parents = {}
<1>1. 1..status.detail.there = {}
  <2>1. 1..0 = {}
    OBVIOUS
  <2> QED BY <2>1
<1>2. DOMAIN Object.ingress = {} /\ DOMAIN Object.parents = {}
  BY <1>1, ObjectFields
<1>3. Object.ingress = [i \in {} |-> ""]
  BY <1>1, ObjectFields
<1>4. [i \in {} |-> ""] = <<>>
  OBVIOUS
<1> QED BY <1>2, <1>3, <1>4

\* Kinds that count replicas: none is ready or available.
LEMMA ReplicaOutage ==
  ASSUME IInv, InSync, Down, kind \in ReplicaKinds
  PROVE  Verdict # "Ready"
<1>1. /\ Wanted > 0 /\ Wanted \in Nat /\ kind \in Kinds /\ Cardinality(Up) = 0
      /\ Object.readyReplicas = 0 /\ Object.availableReplicas = 0
      /\ Object.numberUnavailable = Count(Wanted - 0)
      /\ status.detail \in View /\ status.detail # Nothing
      /\ status.detail.up = 0 /\ status.detail.wanted = Wanted
      /\ kind = "Deployment" => Wanted > MaxUnavailable
  BY OutageFields, SeenType DEF IInv
<1>2. Desired(Object) = Wanted /\ ~ScaledToZero(Object)
  BY <1>1, DesiredIsWanted DEF ScaledToZero
<1>3. CASE kind = "StatefulSet"
  <2>1. ~(Object.currentReplicas > 0 /\ Object.readyReplicas = Object.currentReplicas)
    BY <1>1
  <2> QED BY <1>1, <1>2, <1>3, <2>1, Dispatch DEF StsStatus, ReadyIf
<1>4. CASE kind = "Deployment"
  <2>1. ~(0 >= Wanted - MaxUnavailable)
    BY <1>1, <1>4, Constants
  <2>2. Object.conds["Available"] = "False"
    BY <1>1, <2>1, PublishedConditions DEF Truth
  <2> QED BY <1>1, <1>2, <1>4, <2>2, Dispatch DEF DeploymentStatus, ReadyIf
<1>5. ~(Object.availableReplicas > 0) /\ ~(Object.availableReplicas >= Wanted)
  BY <1>1
<1>6. CASE kind = "ReplicaSet"
  BY <1>1, <1>2, <1>5, <1>6, Dispatch DEF ReplicasetStatus, ReadyIf
<1>7. CASE kind = "ReplicationController"
  BY <1>1, <1>2, <1>5, <1>7, Dispatch DEF ReplicationControllerStatus, ReadyIf
<1>8. CASE kind = "DaemonSet"
  <2>1. Object.numberUnavailable # 0
    BY <1>1 DEF Count
  <2> QED BY <1>1, <1>8, <2>1, Dispatch DEF DaemonsetStatus, ReadyIf
<1>9. CASE kind = "Rollout"
  <2>1. Desired(Object) # 0 /\ ~(Object.availableReplicas >= Desired(Object))
    BY <1>1, <1>2, <1>5
  <2>2. RolloutStatus(Object) # "Ready"
    BY <2>1 DEF RolloutStatus
  <2> QED BY <1>1, <1>9, <2>2, Dispatch
<1> QED
  BY <1>3, <1>4, <1>6, <1>7, <1>8, <1>9 DEF ReplicaKinds

\* Kinds of one part or of two: a condition that the predicate asks for is
\* False or not there, or one that excludes Ready is True.
LEMMA ConditionOutage ==
  ASSUME IInv, InSync, Down,
         kind \in Kinds \ (ReplicaKinds \cup {"Service", "HTTPRoute"})
  PROVE  Verdict # "Ready"
<1>1. /\ kind \in Kinds \ {"CronJob", "PodDisruptionBudget"}
      /\ status.detail \in View /\ status.detail # Nothing
      /\ status.detail.up = Cardinality(Up) /\ Object.phase \in Phases
      /\ Cardinality(Up) = 0 \/ Cardinality(Up) < Cardinality(Existing)
  BY OutageFields
<1>2. /\ Cardinality(Up) \in Nat /\ Cardinality(Existing) \in Nat
  BY Counts
<1>3. /\ kind = "Gateway" => Cardinality(Existing) <= 2
      /\ kind # "Gateway" => Cardinality(Existing) <= 1
  <2>1. kind \notin Scalable
    BY <1>1 DEF Scalable, Kinds
  <2>2. kind # "HTTPRoute"
    OBVIOUS
  <2> QED BY <2>1, <2>2 DEF IInv, PartsInv
<1>4. CASE kind = "Gateway"
  <2>1. status.detail.up < 2 /\ status.detail.up \in Nat
    BY <1>1, <1>2, <1>3, <1>4
  <2>2. Object.conds["Programmed"] # "True"
    BY <1>1, <2>1, PublishedConditions DEF Truth
  <2> QED
    BY <1>1, <1>4, <2>2, Dispatch
    DEF GatewayStatus, ReadyFromPositiveConditions, ReadyIf
<1>5. CASE kind # "Gateway"
  <2>1. status.detail.up = 0
    BY <1>1, <1>2, <1>3, <1>5
  <2>2. \A t \in {"Ready", "Accepted", "Complete"} : Object.conds[t] # "True"
    BY <1>1, <2>1, PublishedConditions DEF Truth
  <2>3. Object.conds["InProgress"] = "True"
    BY <1>1, <2>1, PublishedConditions DEF Truth
  <2>4. Object.phase # "Completed" /\ (kind = "PersistentVolumeClaim" => Object.phase # "Bound")
    <3>1. Up = {}
      BY <1>1, <2>1, Counts
    <3>2. kind # "Rollout"
      BY <1>1 DEF ReplicaKinds
    <3> QED BY <1>1, <3>1, <3>2 DEF Phases
  <2>5. CASE kind = "PersistentVolumeClaim"
    BY <1>1, <2>4, <2>5, Dispatch DEF PvcStatus, ReadyIf
  <2>6. CASE kind = "Pod"
    BY <1>1, <2>2, <2>4, <2>6, Dispatch DEF PodStatus, ReadyIf
  <2>7. CASE kind = "Job"
    BY <1>1, <2>2, <2>7, Dispatch DEF JobStatus, ReadyIf
  <2>8. CASE kind \in {"Agent", "ModelConfig"}
    BY <1>1, <2>2, <2>8, Dispatch
    DEF KagentStatus, ReadyFromPositiveConditions, ReadyIf
  <2>9. CASE kind = "Other"
    BY <1>1, <2>3, <2>9, Dispatch DEF StatusFromStandardConditions, ReadyIf
  <2> QED
    BY <1>1, <1>5, <2>5, <2>6, <2>7, <2>8, <2>9 DEF Kinds
<1> QED BY <1>4, <1>5

\* A load balancer without an entry, or whose last entry has neither an IP nor
\* a host name.
LEMMA ServiceOutage ==
  ASSUME IInv, InSync, Down, kind = "Service"
  PROVE  Verdict # "Ready"
<1>1. /\ Wanted > 0 /\ kind \in Kinds
      /\ status.detail \in View
      /\ status.detail.up = 0 \/ status.detail.up < status.detail.there
  BY OutageFields DEF ReplicaKinds
<1>2. status.detail.up \in Nat /\ status.detail.there \in Nat
  BY <1>1 DEF View
<1>3. Object.type = "LoadBalancer"
  BY <1>1, External
<1>4. CASE status.detail.there = 0
  <2>1. Object.ingress = <<>>
    BY <1>4, NoParts
  <2> QED BY <1>1, <1>3, <2>1, Dispatch DEF ServiceStatus, ReadyIf
<1>5. CASE status.detail.there > 0
  <2>1. /\ status.detail.there \in 1..status.detail.there
        /\ status.detail.there > status.detail.up
    BY <1>1, <1>2, <1>5
  <2>2. /\ DOMAIN Object.ingress = 1..status.detail.there
        /\ Object.ingress[status.detail.there] = ""
    BY <2>1, ObjectFields
  <2>3. ~AllIngressProvisioned(Object.ingress)
    BY <2>1, <2>2 DEF AllIngressProvisioned
  <2> QED BY <1>1, <1>3, <2>3, Dispatch DEF ServiceStatus, ReadyIf
<1> QED BY <1>2, <1>4, <1>5

\* A route without a parent, or whose last parent does not resolve.
LEMMA RouteOutage ==
  ASSUME IInv, InSync, Down, kind = "HTTPRoute"
  PROVE  Verdict # "Ready"
<1>1. /\ kind \in Kinds /\ status.detail \in View
      /\ status.detail.up = 0 \/ status.detail.up < status.detail.there
  BY OutageFields DEF ReplicaKinds
<1>2. status.detail.up \in Nat /\ status.detail.there \in Nat
  BY <1>1 DEF View
<1>3. DOMAIN Object.parents = 1..status.detail.there
  BY ObjectFields
<1>4. CASE status.detail.there = 0
  <2>1. DOMAIN Object.parents = {}
    BY <1>4, NoParts
  <2>2. RouteStatus(Object) # "Ready"
    BY <2>1 DEF RouteStatus, ReadyIf
  <2> QED BY <1>1, <2>2, Dispatch
<1>5. CASE status.detail.there > 0
  <2>1. /\ status.detail.there \in 1..status.detail.there
        /\ ~(status.detail.there <= status.detail.up)
    BY <1>1, <1>2, <1>5
  <2>2. Rejects(Object.parents[status.detail.there])
    <3>1. \A i \in 1..status.detail.there :
            Object.parents[i].ResolvedRefs = Truth(i <= status.detail.up)
      <4>1. \A i \in 1..status.detail.there :
              Object.parents[i] = [malformed |-> FALSE, Accepted |-> "True",
                                   ResolvedRefs |-> Truth(i <= status.detail.up)]
        BY ObjectFields
      <4>2. ASSUME NEW i \in 1..status.detail.there
            PROVE  Object.parents[i].ResolvedRefs = Truth(i <= status.detail.up)
        <5> DEFINE serves == Truth(i <= status.detail.up)
        <5>1. Object.parents[i] =
                [malformed |-> FALSE, Accepted |-> "True", ResolvedRefs |-> serves]
          BY <4>1
        <5> HIDE DEF serves
        <5>2. Object.parents[i].ResolvedRefs = serves
          BY <5>1
        <5> QED BY <5>2 DEF serves
      <4> QED BY <4>2
    <3>2. Object.parents[status.detail.there].ResolvedRefs = "False"
      BY <2>1, <3>1 DEF Truth
    <3> QED BY <3>2 DEF Rejects
  <2>3. RouteStatus(Object) # "Ready"
    BY <1>3, <2>1, <2>2 DEF RouteStatus
  <2> QED BY <1>1, <2>3, Dispatch
<1> QED BY <1>2, <1>4, <1>5

\* An object about which nothing is published shows zeros and no conditions.
LEMMA UnpublishedIsNotReady ==
  ASSUME IInv, status = Unpublished, Wanted > 0,
         kind \notin {"CronJob", "DaemonSet", "Other"}
  PROVE  Verdict # "Ready"
<1>1. /\ status.counters = Nothing /\ status.detail = Nothing /\ status.phase = ""
  BY DEF Unpublished
<1>2. /\ Nothing.generation = 0 /\ Nothing.there = 0 /\ Nothing.old = 0
      /\ Nothing.up = 0 /\ Nothing.wanted = 0
  BY DEF Nothing
<1>3. /\ Wanted \in Nat /\ generation >= 1 /\ generation \in Nat /\ kind \in Kinds
  BY SeenType, Constants DEF IInv, PartsInv, BasicTypes
<1>4. /\ Object.observedGeneration = 0 /\ Object.generation = generation
      /\ Object.currentReplicas = 0 /\ Object.availableReplicas = 0
      /\ Object.phase = ""
  BY <1>1, <1>2, ObjectFields
<1>5. \A t \in ConditionTypes : Object.conds[t] = "absent"
  <2>1. \A t \in ConditionTypes : Object.conds[t] = Condition(t, status.detail)
    BY ObjectFields
  <2>2. \A t \in ConditionTypes : Condition(t, Nothing) = "absent"
    BY DEF Condition
  <2> QED BY <1>1, <2>1, <2>2
<1>6. /\ Object.conds["Available"] = "absent" /\ Object.conds["Ready"] = "absent"
      /\ Object.conds["Accepted"] = "absent" /\ Object.conds["Complete"] = "absent"
  BY <1>5 DEF ConditionTypes
<1>7. /\ Desired(Object) # 0 /\ ~ScaledToZero(Object)
      /\ ~(Object.availableReplicas > 0) /\ ~(Object.availableReplicas >= Desired(Object))
  <2>1. Wanted # 0 /\ ~(0 > 0) /\ ~(0 >= Wanted)
    BY <1>3
  <2>2. Desired(Object) = Wanted
    BY DesiredIsWanted
  <2>3. ~ScaledToZero(Object)
    BY <2>1, <2>2 DEF ScaledToZero
  <2> HIDE DEF Wanted
  <2>4. ~(Object.availableReplicas > 0) /\ ~(Object.availableReplicas >= Wanted)
    BY <1>4, <2>1, Zenon
  <2> QED BY <2>1, <2>2, <2>3, <2>4, Zenon
<1>8. CASE kind \in {"StatefulSet", "Deployment", "ReplicaSet", "ReplicationController"}
  BY <1>3, <1>4, <1>6, <1>7, <1>8, Dispatch
  DEF StsStatus, DeploymentStatus, ReplicasetStatus, ReplicationControllerStatus, ReadyIf
<1>9. CASE kind = "Rollout"
  <2>1. RolloutStatus(Object) # "Ready"
    BY <1>7 DEF RolloutStatus
  <2> QED BY <1>3, <1>9, <2>1, Dispatch
<1>10. CASE kind = "PodDisruptionBudget"
  <2>1. Object.observedGeneration # Object.generation
    <3>1. generation # 0
      BY <1>3
    <3> QED BY <1>4, <3>1
  <2> QED BY <1>3, <1>10, <2>1, Dispatch DEF PdbStatus, ReadyIf
<1>11. CASE kind \in {"PersistentVolumeClaim", "Pod", "Job"}
  BY <1>3, <1>4, <1>6, <1>11, Dispatch DEF PvcStatus, PodStatus, JobStatus, ReadyIf
<1>12. CASE kind \in {"Gateway", "Agent", "ModelConfig"}
  BY <1>3, <1>6, <1>12, Dispatch
  DEF GatewayStatus, KagentStatus, ReadyFromPositiveConditions, ReadyIf
<1>13. Object.ingress = <<>> /\ DOMAIN Object.parents = {}
  BY <1>1, <1>2, NoParts
<1>14. CASE kind = "Service"
  <2>1. Object.type = "LoadBalancer"
    BY External
  <2> QED BY <1>3, <1>13, <1>14, <2>1, Dispatch DEF ServiceStatus, ReadyIf
<1>15. CASE kind = "HTTPRoute"
  <2>1. RouteStatus(Object) # "Ready"
    BY <1>13 DEF RouteStatus, ReadyIf
  <2> QED BY <1>3, <1>15, <2>1, Dispatch
<1> QED
  BY <1>3, <1>8, <1>9, <1>10, <1>11, <1>12, <1>14, <1>15 DEF Kinds, ReplicaKinds

\* Whatever happened before - scaling, updates, failures, however many - an
\* outage shows as soon as the object's controller has published it, and an
\* object about which nothing is published is not Ready (every predicate of
\* status.go).
THEOREM OutagesAreReported == Spec => []OutageReported
<1>1. ASSUME IInv, InSync, Down PROVE Verdict # "Ready"
  <2>1. kind \in Kinds
    BY <1>1, Constants DEF IInv, BasicTypes
  <2> QED
    BY <1>1, <2>1, ReplicaOutage, ConditionOutage, ServiceOutage, RouteOutage
<1>2. IInv => OutageReported
  BY <1>1, UnpublishedIsNotReady DEF OutageReported
<1> QED BY <1>2, Invariant, PTL
=============================================================================
