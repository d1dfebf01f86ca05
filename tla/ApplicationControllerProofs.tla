-------------------- MODULE ApplicationControllerProofs --------------------
(***************************************************************************)
(* Theorems about ApplicationController, for every number of kinds, every  *)
(* period and every bound.                                                 *)
(***************************************************************************)
EXTENDS ApplicationController, TLAPS

-----------------------------------------------------------------------------
(* Data *)

\* What status() makes of an object is a status of the API.
LEMMA StatusOfType == \A s \in CompState : StatusOf(s) \in ObjStatus
  BY DEF CompState, ObjStatus, StatusOf

\* getNewApplicationStatus returns a well-formed status.
LEMMA NewStatusType ==
  ASSUME NEW v \in Version, NEW found \in [Kinds -> ObjStatus],
         NEW errs \in BOOLEAN, NEW t \in Nat
  PROVE  NewStatus(v, found, errs, t) \in Status
<1>1. ReadyOf(found, errs) \in ReadyValue
  BY DEF ReadyOf, ReadyValue
<1>2. \A ready : TransitionTime(v.status, ready, t) \in Nat
  BY DEF Version, Status, TransitionTime
<1> QED
  BY <1>1, <1>2 DEF NewStatus, Version, Status

\* An idle worker and an Application without a status are well typed.
LEMMA IdleJobType == IdleJob \in Job /\ EmptyStatus \in Status
<1>1. EmptyStatus \in Status
  BY DEF EmptyStatus, Status, ReadyValue, ObjStatus
<1> QED
  BY <1>1 DEF IdleJob, Job, ObjStatus

\* The locals of a reconcile change field by field and stay well typed.
LEMMA JobType ==
  ASSUME NEW j \in Job
  PROVE  /\ \A b \in Nat, n \in Nat, t \in SUBSET Kinds :
              [IdleJob EXCEPT !.base = b, !.began = n, !.todo = t] \in Job
         /\ \A k \in Kinds, s \in ObjStatus, e \in BOOLEAN :
              [j EXCEPT !.todo = @ \ {k}, !.found[k] = s, !.errs = e] \in Job
         /\ \A k \in Kinds, e \in BOOLEAN :
              [j EXCEPT !.todo = @ \ {k}, !.errs = e] \in Job
         /\ \A k \in Kinds : [j EXCEPT !.todo = @ \ {k}] \in Job
         /\ \A b \in Nat, n \in Nat, st \in Status :
              [IdleJob EXCEPT !.base = b, !.began = n, !.new = st] \in Job
         /\ \A o \in Nat : [j EXCEPT !.orig = o] \in Job
         /\ \A o \in Nat, t \in Nat : [j EXCEPT !.orig = o, !.tries = t] \in Job
<1>1. IdleJob \in Job
  BY IdleJobType
<1>2. ASSUME NEW b \in Nat, NEW n \in Nat, NEW t \in SUBSET Kinds
      PROVE  [IdleJob EXCEPT !.base = b, !.began = n, !.todo = t] \in Job
  BY <1>1 DEF Job
<1>3. ASSUME NEW k \in Kinds, NEW s \in ObjStatus, NEW e \in BOOLEAN
      PROVE  [j EXCEPT !.todo = @ \ {k}, !.found[k] = s, !.errs = e] \in Job
  BY DEF Job
<1>4. ASSUME NEW k \in Kinds, NEW e \in BOOLEAN
      PROVE  /\ [j EXCEPT !.todo = @ \ {k}, !.errs = e] \in Job
             /\ [j EXCEPT !.todo = @ \ {k}] \in Job
  BY DEF Job
<1>5. ASSUME NEW b \in Nat, NEW n \in Nat, NEW st \in Status
      PROVE  [IdleJob EXCEPT !.base = b, !.began = n, !.new = st] \in Job
  BY <1>1 DEF Job
<1>6. ASSUME NEW o \in Nat, NEW t \in Nat
      PROVE  /\ [j EXCEPT !.orig = o] \in Job
             /\ [j EXCEPT !.orig = o, !.tries = t] \in Job
  BY DEF Job
<1> QED
  BY <1>2, <1>3, <1>4, <1>5, <1>6

\* A new version of the Application is added at the end of its history.
LEMMA AppendVersion ==
  ASSUME NEW s \in Seq(Version), NEW v \in Version
  PROVE  /\ Append(s, v) \in Seq(Version)
         /\ Len(Append(s, v)) = Len(s) + 1
         /\ Append(s, v)[Len(s) + 1] = v
         /\ \A i \in 1..Len(s) : Append(s, v)[i] = s[i]
  OBVIOUS

\* The versions a well-typed state refers to.
LEMMA VersionsType ==
  ASSUME TypeOK
  PROVE  /\ Len(store) \in Nat \ {0} /\ seen \in Nat \ {0}
         /\ Last \in Version /\ Cached \in Version
         /\ \A i \in 1..Len(store) : store[i] \in Version
  BY DEF TypeOK, Last, Cached

\* The status a reconcile computes is well formed.
LEMMA ComputedType ==
  ASSUME TypeOK, pc = "list"
  PROVE  Base \in Version /\ Computed \in Status
<1>1. Base \in Version
  BY VersionsType DEF TypeOK, Base
<1>2. job.found \in [Kinds -> ObjStatus] /\ job.errs \in BOOLEAN /\ now \in Nat
  BY DEF TypeOK, Job
<1> QED
  BY <1>1, <1>2, NewStatusType DEF Computed

\* The rest of a stabilization wait (RemainingWait) is a number of ticks.
LEMMA WaitType == ASSUME TypeOK, ControllerAssumption, NEW v \in Version
                  PROVE  RemainingWait(v.status) \in Nat
<1>1. now \in Nat /\ v.status.since \in Nat /\ Period \in Nat
  BY DEF TypeOK, ControllerAssumption, Version, Status
<1> QED
  BY <1>1 DEF RemainingWait

\* AddAfter leaves a timer that is set, at a natural time.
LEMMA EarliestType == ASSUME TypeOK, NEW t \in Nat
                      PROVE  Earliest(t) \in Nat
  BY DEF TypeOK, Earliest, NoTimer

-----------------------------------------------------------------------------
(* Type correctness *)

\* The controller starts well typed (SetupWithManager).
LEMMA TypeInit == Init => TypeOK
<1> SUFFICES ASSUME Init PROVE TypeOK
  OBVIOUS
<1>1. Created(1) \in Version
  BY IdleJobType DEF Created, Version
<1>2. store \in Seq(Version) /\ Len(store) = 1
  BY <1>1 DEF Init
<1>3. watch \in [Kinds -> {"no", "starting", "on"}]
  BY DEF Init
<1>4. job \in Job /\ pc = "idle"
  BY IdleJobType DEF Init
<1>5. timer \in Nat \cup {NoTimer} /\ now \in Nat /\ seen \in 1..1
  BY DEF Init
<1>6. queued \in BOOLEAN /\ backoff \in BOOLEAN
  BY DEF Init
<1>7. /\ comp \in [Kinds -> CompState] /\ \A k \in Kinds : comp[k] \in StatesOf(k)
      /\ changes \in Nat /\ faults \in Nat
  BY DEF Init
<1> QED
  BY <1>2, <1>3, <1>4, <1>5, <1>6, <1>7 DEF TypeOK

\* Every step of Reconcile, the informers and the cluster keeps the types.
LEMMA TypeNext == TypeOK /\ [Next]_vars => TypeOK'
<1> SUFFICES ASSUME TypeOK, [Next]_vars PROVE TypeOK'
  OBVIOUS
<1> USE DEF TypeOK
<1>k. IdleJob \in Job /\ EmptyStatus \in Status
  BY IdleJobType
<1>v. /\ Len(store) \in Nat \ {0} /\ seen \in Nat \ {0}
      /\ Last \in Version /\ Cached \in Version
  BY VersionsType
<1>1. ASSUME StartReconcile PROVE TypeOK'
  <2>1. CASE Cached.live
    <3>1. watch' \in [Kinds -> {"no", "starting", "on"}] /\ faults' \in Nat
      BY <1>1, <2>1, ControllerAssumption
      DEF StartReconcile, EnsureComponentWatches, Fault
    <3>2. job' \in Job /\ job'.base = seen /\ pc' = "list"
      <4>1. /\ job' = [IdleJob EXCEPT !.base = seen, !.began = now, !.todo = Kinds]
            /\ pc' = "list"
        BY <1>1, <2>1 DEF StartReconcile
      <4>2. job' \in Job
        BY <4>1, <1>v, JobType, <1>k
      <4> QED
        BY <4>1, <4>2 DEF IdleJob
    <3>3. job'.base \in 1..seen' /\ Len(store') >= 1
      BY <1>1, <3>2, <1>v DEF StartReconcile, cluster
    <3>4. queued' \in BOOLEAN /\ timer' = timer /\ backoff' = backoff
      BY <1>1 DEF StartReconcile
    <3> QED
      BY <1>1, <3>1, <3>2, <3>3, <3>4 DEF StartReconcile, cluster
  <2>2. CASE ~Cached.live
    BY <1>1, <2>2 DEF StartReconcile, cluster, worker
  <2> QED BY <2>1, <2>2
<1>2. ASSUME NEW k \in Kinds, ListKind(k) PROVE TypeOK'
  <2>a. comp[k] \in CompState /\ StatusOf(comp[k]) \in ObjStatus
    BY StatusOfType
  <2>b. job.errs \in BOOLEAN
    BY DEF Job
  <2>1. job' \in Job /\ job'.base = job.base
    <3>1. CASE job' = [job EXCEPT !.todo = @ \ {k},
                                  !.found[k] = StatusOf(comp[k]),
                                  !.errs = @ \/ comp[k] = "Broken"]
      <4>1. job' = [job EXCEPT !.todo = @ \ {k},
                               !.found[k] = StatusOf(comp[k]),
                               !.errs = (job.errs \/ comp[k] = "Broken")]
        BY <3>1
      <4>2. (job.errs \/ comp[k] = "Broken") \in BOOLEAN
        BY <2>b
      <4>3. job' \in Job
        BY <4>1, <4>2, <2>a, JobType
      <4> QED BY <4>1, <4>3 DEF Job
    <3>2. CASE job' = [job EXCEPT !.todo = @ \ {k}, !.errs = TRUE]
      <4>1. job' \in Job
        BY <3>2, JobType
      <4> QED BY <3>2, <4>1 DEF Job
    <3>3. CASE job' = [job EXCEPT !.todo = @ \ {k}]
      BY <3>3, JobType DEF Job
    <3> QED BY <1>2, <3>1, <3>2, <3>3 DEF ListKind
  <2>2. faults' \in Nat
    BY <1>2 DEF ListKind, Fault
  <2> QED
    BY <1>2, <2>1, <2>2 DEF ListKind, cluster, queue
<1>3. ASSUME ReturnUnchanged PROVE TypeOK'
  <2>1. timer' \in Nat \cup {NoTimer}
    <3>1. now + ErrorRequeue \in Nat
      BY ControllerAssumption DEF ControllerAssumption
    <3>2. Earliest(now + ErrorRequeue) \in Nat
      BY <3>1, EarliestType
    <3>3. timer' \in {timer, Earliest(now + ErrorRequeue)}
      BY <1>3 DEF ReturnUnchanged
    <3> QED BY <3>2, <3>3
  <2> QED
    BY <1>3, <2>1, <1>k DEF ReturnUnchanged, Finish, cluster
<1>4. ASSUME ReturnStabilizing PROVE TypeOK'
  <2>1. Base \in Version
    BY <1>4, ComputedType DEF ReturnStabilizing, Listed
  <2>2. now + RemainingWait(Base.status) \in Nat
    BY <2>1, WaitType, ControllerAssumption
  <2>3. timer' \in Nat \cup {NoTimer}
    BY <1>4, <2>2, EarliestType DEF ReturnStabilizing
  <2> QED
    BY <1>4, <2>3, <1>k DEF ReturnStabilizing, Finish, cluster
<1>5. ASSUME BeginWrite PROVE TypeOK'
  <2>1. Computed \in Status
    BY <1>5, ComputedType DEF BeginWrite, Listed
  <2>2. job' \in Job /\ job'.base = job.base
    BY <1>5, <2>1, <1>k DEF BeginWrite, Job, IdleJob
  <2> QED
    BY <1>5, <2>2 DEF BeginWrite, Listed, cluster, queue
<1>6. ASSUME GetOriginal PROVE TypeOK'
  <2>1. CASE Cached.live
    <3>1. job' \in Job /\ job'.base = job.base /\ job'.orig = seen
      BY <1>6, <2>1 DEF GetOriginal, Job
    <3> QED
      BY <1>6, <2>1, <3>1, <1>v DEF GetOriginal, cluster, queue
  <2>2. CASE ~Cached.live
    BY <1>6, <2>2, <1>k DEF GetOriginal, Finish, cluster, queue
  <2> QED BY <2>1, <2>2
<1>7. ASSUME UpdateAccepted PROVE TypeOK'
  <2>1. [Last EXCEPT !.status = job.new] \in Version
    BY <1>v DEF Version, Job
  <2>2. store' \in Seq(Version) /\ Len(store') >= Len(store)
    BY <1>7, <2>1, <1>v, AppendVersion DEF UpdateAccepted, Append1
  <2> QED
    BY <1>7, <2>2, <1>k, <1>v DEF UpdateAccepted, Finish, queue
<1>8. ASSUME UpdateConflict PROVE TypeOK'
  <2>1. CASE job.tries + 1 < MaxTries
    <3>1. job' \in Job /\ job'.base = job.base
      <4>1. job' = [job EXCEPT !.orig = 0, !.tries = job.tries + 1]
        BY <1>8, <2>1 DEF UpdateConflict
      <4>2. job.tries + 1 \in Nat
        BY DEF Job
      <4> QED BY <4>1, <4>2, JobType DEF Job
    <3> QED
      BY <1>8, <2>1, <3>1 DEF UpdateConflict, cluster
  <2>2. CASE ~(job.tries + 1 < MaxTries)
    BY <1>8, <2>2, <1>k DEF UpdateConflict, Finish, cluster
  <2> QED BY <2>1, <2>2
<1>9. ASSUME UpdateNotFound PROVE TypeOK'
  BY <1>9, <1>k DEF UpdateNotFound, Finish, cluster, queue
<1>10. ASSUME UpdateFails PROVE TypeOK'
  BY <1>10, <1>k DEF UpdateFails, Finish, Fault, cluster
<1>11. ASSUME AppInformer PROVE TypeOK'
  <2>1. seen' \in 1..Len(store') /\ seen' = seen + 1 /\ queued' \in BOOLEAN
    BY <1>11, <1>v DEF AppInformer, Enqueue, cluster
  <2>2. (pc # "idle" => job.base \in 1..seen') /\ (pc = "update" => job.orig \in 1..seen')
    BY <2>1, <1>v
  <2> QED BY <1>11, <2>1, <2>2 DEF AppInformer, cluster, worker
<1>12. ASSUME NEW k \in Kinds, WatchSynced(k) PROVE TypeOK'
  <2>1. queued' \in BOOLEAN
    BY <1>12 DEF WatchSynced, Enqueue
  <2>2. watch' \in [Kinds -> {"no", "starting", "on"}]
    BY <1>12 DEF WatchSynced
  <2> QED BY <1>12, <2>1, <2>2 DEF WatchSynced, cluster, worker
<1>13. ASSUME TimerFires \/ BackoffExpires \/ Resync PROVE TypeOK'
  BY <1>13 DEF TimerFires, BackoffExpires, Resync, Enqueue, cluster, worker
<1>14. ASSUME Restart PROVE TypeOK'
  <2>1. Last.live \in BOOLEAN
    BY <1>v DEF Version
  <2> QED
    <3>1. queued' \in BOOLEAN /\ backoff' \in BOOLEAN
      BY <1>14, <2>1 DEF Restart
    <3>2. timer' \in Nat \cup {NoTimer} /\ seen' \in 1..Len(store') /\ faults' \in Nat
      BY <1>14, <1>v DEF Restart, Fault, cluster
    <3>3. watch' \in [Kinds -> {"no", "starting", "on"}]
      BY <1>14 DEF Restart
    <3>4. job' \in Job /\ pc' = "idle"
      BY <1>14, <1>k DEF Restart, Finish
    <3> QED
      BY <1>14, <3>1, <3>2, <3>3, <3>4 DEF Restart, cluster
<1>15. ASSUME NEW k \in Kinds, NEW s \in CompState, ComponentChange(k, s)
       PROVE  TypeOK'
  <2>1. queued' \in BOOLEAN
    BY <1>15 DEF ComponentChange, Enqueue
  <2>2. comp' \in [Kinds -> CompState] /\ changes' \in Nat /\ faults' \in Nat
    BY <1>15 DEF ComponentChange, Change, Fault
  <2> QED BY <1>15, <2>1, <2>2 DEF ComponentChange, worker
<1>16. ASSUME NEW v \in Version, Append1(v), Change,
              UNCHANGED <<comp, now, seen, queue, watch, worker, faults>>
       PROVE  TypeOK'
  <2>1. store' \in Seq(Version) /\ Len(store') = Len(store) + 1
    BY <1>16, AppendVersion DEF Append1
  <2> QED
    BY <1>16, <2>1, <1>v DEF Change, queue, worker
<1>17. ASSUME SpecChange PROVE TypeOK'
  <2>1. [Last EXCEPT !.gen = @ + 1] \in Version
    <3>1. Last.gen + 1 \in Nat
      BY <1>v DEF Version
    <3> QED BY <3>1, <1>v DEF Version
  <2> QED BY <1>17, <2>1, <1>16 DEF SpecChange
<1>18. ASSUME Delete PROVE TypeOK'
  <2>1. [Last EXCEPT !.live = FALSE] \in Version
    BY <1>v DEF Version
  <2> QED BY <1>18, <2>1, <1>16 DEF Delete
<1>19. ASSUME Recreate PROVE TypeOK'
  <2>1. Created(Last.uid + 1) \in Version
    BY <1>v, <1>k DEF Version, Created
  <2> QED BY <1>19, <2>1, <1>16 DEF Recreate
<1>20. ASSUME Tick PROVE TypeOK'
  BY <1>20 DEF Tick, queue, worker
<1>21. CASE UNCHANGED vars
  BY <1>21 DEF vars
<1> QED
  BY <1>1, <1>2, <1>3, <1>4, <1>5, <1>6, <1>7, <1>8, <1>9, <1>10, <1>11, <1>12,
     <1>13, <1>14, <1>15, <1>17, <1>18, <1>19, <1>20, <1>21
  DEF Next, Reconcile, Delivery, Environment, UpdateStep

\* Type correctness: in particular a worker in a reconcile always refers to a
\* version the cache has held, and Status().Update to one it has read.
THEOREM TypeCorrect == Spec => []TypeOK
<1>1. Init => TypeOK BY TypeInit
<1>2. TypeOK /\ [Next]_vars => TypeOK' BY TypeNext
<1> QED BY <1>1, <1>2, PTL DEF Spec

-----------------------------------------------------------------------------
(* The inductive invariants *)

Writing == pc \in {"get", "update"}

\* Generations only grow, no status runs ahead of its object, and a reconcile
\* works on a version at least as new as the one the last status was made from.
GenerationInv ==
  /\ \A i, j \in 1..Len(store) : i <= j => store[i].gen <= store[j].gen
  /\ ObservedGenBounded
  /\ Last.status.observed <= Cached.gen
  /\ pc # "idle" => Last.status.observed <= Base.gen
  /\ Writing => job.new.observed = Base.gen

\* An unknown infrastructure object among those listed so far is recorded as
\* an error, and the status on its way to the API server is coherent.
CoherenceInv ==
  /\ StatusCoherent
  /\ pc = "list" => \A k \in Infra : job.found[k] = "Unknown" => job.errs
  /\ Writing => Coherent(job.new)

\* With a cache that is current when a reconcile starts, the status read at
\* its start is still the stored one, or the Application was re-created since
\* and has no status yet; the status on its way respects the transition time
\* and the stabilization period with respect to the status read.
FreshInv ==
  /\ Last.status.since <= now
  /\ pc # "idle" =>
       /\ Base.status.since <= job.began /\ job.began <= now
       /\ Base.uid <= Last.uid
       /\ IF Base.uid = Last.uid THEN Base.status = Last.status
          ELSE Last.status.ready = "None" /\ Last.status.since = 0
  /\ Writing =>
       /\ job.new.ready # "None"
       /\ IF job.new.ready = Base.status.ready
            THEN job.new.since = Base.status.since
            ELSE job.new.since \in job.began..now
       /\ TransitioningToReady(job.new, Base.status) =>
            now = Horizon \/ now - Base.status.since >= Period

-----------------------------------------------------------------------------
(* What the steps do to the history and to the worker: nine kinds of step. *)

\* Deliveries, component changes, time: neither history nor worker moves.
Quiet ==
  /\ UNCHANGED <<store, pc, job>> /\ seen' >= seen
  /\ now' = now \/ (now < Horizon /\ now' = now + 1)

\* The reconcile ends without a write, or the process restarts.
Rests == pc' = "idle" /\ UNCHANGED <<store, now>> /\ seen' \in {seen, Len(store)}

Starts ==
  /\ UNCHANGED <<store, now, seen>>
  /\ "stale" \in Enabled \/ seen = Len(store)
  /\ pc' = "list"
  /\ job' = [IdleJob EXCEPT !.base = seen, !.began = now, !.todo = Kinds]

Lists(k) ==
  /\ UNCHANGED <<store, now, seen>>
  /\ pc = "list" /\ pc' = "list"
  /\ job'.base = job.base /\ job'.began = job.began
  /\ \/ /\ job'.found = [job.found EXCEPT ![k] = StatusOf(comp[k])]
        /\ job'.errs = (job.errs \/ comp[k] = "Broken")
     \/ job'.found = job.found /\ (job'.errs = TRUE \/ job'.errs = job.errs)

Decides ==
  /\ UNCHANGED <<store, now, seen>>
  /\ pc = "list" /\ ~Stabilizing
  /\ pc' = "get" /\ job'.new = Computed
  /\ job'.base = job.base /\ job'.began = job.began

Retries ==
  /\ UNCHANGED <<store, now, seen>> /\ Writing /\ Writing'
  /\ job'.base = job.base /\ job'.began = job.began /\ job'.new = job.new

Writes ==
  /\ UNCHANGED <<now, seen>> /\ Writing /\ pc' = "idle" /\ seen = Len(store)
  /\ store' = Append(store, [Last EXCEPT !.status = job.new])

Evolves ==
  /\ UNCHANGED <<now, seen, pc, job>>
  /\ \E v \in Version :
       /\ store' = Append(store, v)
       /\ v.status = Last.status /\ v.gen >= Last.gen /\ v.uid = Last.uid

\* Every step is one of nine kinds, by what it does to the stored versions,
\* the cached one and the worker of Reconcile; the invariants below are proved
\* over these kinds.
LEMMA StepKinds ==
  ASSUME TypeOK, [Next]_vars
  PROVE  \/ Quiet \/ Rests \/ Starts \/ (\E k \in Kinds : Lists(k)) \/ Decides
         \/ Retries \/ Writes \/ Evolves \/ Recreate
<1>t. /\ Len(store) \in Nat \ {0} /\ seen \in 1..Len(store)
      /\ Last \in Version /\ job \in Job
  BY VersionsType DEF TypeOK
<1>1. CASE StartReconcile
  <2>1. CASE Cached.live
    BY <1>1, <2>1 DEF StartReconcile, Starts, cluster
  <2>2. CASE ~Cached.live
    BY <1>1, <2>2 DEF StartReconcile, Rests, cluster, worker
  <2> QED BY <2>1, <2>2
<1>2. ASSUME NEW k \in Kinds, ListKind(k) PROVE Lists(k)
  <2>1. CASE job' = [job EXCEPT !.todo = @ \ {k},
                                !.found[k] = StatusOf(comp[k]),
                                !.errs = @ \/ comp[k] = "Broken"]
    <3>1. job'.found = [job.found EXCEPT ![k] = StatusOf(comp[k])]
      BY <2>1, <1>t DEF Job
    <3>2. job'.errs = (job.errs \/ comp[k] = "Broken") /\ UNCHANGED <<job.base, job.began>>
      BY <2>1, <1>t DEF Job
    <3> QED BY <1>2, <3>1, <3>2 DEF ListKind, Lists, cluster
  <2>2. CASE job' = [job EXCEPT !.todo = @ \ {k}, !.errs = TRUE]
    <3>1. job'.found = job.found /\ job'.errs = TRUE /\ UNCHANGED <<job.base, job.began>>
      BY <2>2, <1>t DEF Job
    <3> QED BY <1>2, <3>1 DEF ListKind, Lists, cluster
  <2>3. CASE job' = [job EXCEPT !.todo = @ \ {k}]
    <3>1. job'.found = job.found /\ job'.errs = job.errs /\ UNCHANGED <<job.base, job.began>>
      BY <2>3, <1>t DEF Job
    <3> QED BY <1>2, <3>1 DEF ListKind, Lists, cluster
  <2> QED BY <1>2, <2>1, <2>2, <2>3 DEF ListKind
<1>3. CASE ReturnUnchanged \/ ReturnStabilizing \/ UpdateNotFound \/ UpdateFails
  BY <1>3 DEF ReturnUnchanged, ReturnStabilizing, UpdateNotFound, UpdateFails,
              Finish, Rests, cluster
<1>4. CASE BeginWrite
  <2>1. UNCHANGED <<job.base, job.began>> /\ job'.new = Computed
    BY <1>4 DEF BeginWrite, IdleJob
  <2>2. ~Stabilizing /\ pc = "list" /\ pc' = "get" /\ UNCHANGED <<store, now, seen>>
    BY <1>4 DEF BeginWrite, Listed, cluster
  <2> QED BY <2>1, <2>2 DEF Decides
<1>5. CASE GetOriginal
  <2>1. CASE Cached.live
    <3>1. UNCHANGED <<job.base, job.began, job.new>>
      BY <1>5, <2>1, <1>t DEF GetOriginal, Job
    <3> QED BY <1>5, <2>1, <3>1 DEF GetOriginal, Retries, Writing, cluster
  <2>2. CASE ~Cached.live
    BY <1>5, <2>2 DEF GetOriginal, Finish, Rests, cluster
  <2> QED BY <2>1, <2>2
<1>6. CASE UpdateAccepted
  <2>1. CASE Last.status = job.new
    BY <1>6, <2>1 DEF UpdateAccepted, Finish, Rests
  <2>2. CASE Last.status # job.new
    <3>1. job.orig \in 1..seen
      BY <1>6 DEF UpdateAccepted, TypeOK
    <3>2. seen = Len(store)
      BY <1>6, <3>1, <1>t DEF UpdateAccepted
    <3> QED
      BY <1>6, <2>2, <3>2 DEF UpdateAccepted, Append1, Finish, Writes, Writing
  <2> QED BY <2>1, <2>2
<1>7. CASE UpdateConflict
  <2>1. CASE job.tries + 1 < MaxTries
    <3>1. UNCHANGED <<job.base, job.began, job.new>>
      BY <1>7, <2>1, <1>t DEF UpdateConflict, Job
    <3> QED BY <1>7, <2>1, <3>1 DEF UpdateConflict, Retries, Writing, cluster
  <2>2. CASE ~(job.tries + 1 < MaxTries)
    BY <1>7, <2>2 DEF UpdateConflict, Finish, Rests, cluster
  <2> QED BY <2>1, <2>2
<1>8. CASE AppInformer
  BY <1>8, <1>t DEF AppInformer, Quiet, cluster, worker
<1>9. ASSUME NEW k \in Kinds, WatchSynced(k) PROVE Quiet
  BY <1>9, <1>t DEF WatchSynced, Quiet, cluster, worker
<1>10. ASSUME TimerFires \/ BackoffExpires \/ Resync PROVE Quiet
  <2>1. UNCHANGED <<cluster, seen, worker>>
    BY <1>10 DEF TimerFires, BackoffExpires, Resync
  <2> QED BY <2>1, <1>t DEF Quiet, cluster, worker
<1>11. CASE Restart
  BY <1>11 DEF Restart, Finish, Rests, cluster
<1>12. ASSUME NEW k \in Kinds, NEW s \in CompState, ComponentChange(k, s)
       PROVE  Quiet
  BY <1>12, <1>t DEF ComponentChange, Quiet, worker
<1>13. CASE Tick
  BY <1>13, <1>t DEF Tick, Quiet, worker
<1>14. CASE SpecChange
  <2>1. Last.gen \in Nat
    BY <1>t DEF Version
  <2>2. [Last EXCEPT !.gen = Last.gen + 1] \in Version
    BY <1>t, <2>1 DEF Version
  <2>3. /\ [Last EXCEPT !.gen = Last.gen + 1].status = Last.status
        /\ [Last EXCEPT !.gen = Last.gen + 1].uid = Last.uid
        /\ [Last EXCEPT !.gen = Last.gen + 1].gen >= Last.gen
    BY <1>t, <2>1 DEF Version
  <2>4. store' = Append(store, [Last EXCEPT !.gen = Last.gen + 1])
    BY <1>14 DEF SpecChange, Append1
  <2>5. UNCHANGED <<now, seen, pc, job>>
    BY <1>14 DEF SpecChange, worker
  <2> QED BY <2>2, <2>3, <2>4, <2>5 DEF Evolves
<1>15. CASE Delete
  <2>1. Last.gen \in Nat
    BY <1>t DEF Version
  <2>2. [Last EXCEPT !.live = FALSE] \in Version
    BY <1>t DEF Version
  <2>3. /\ [Last EXCEPT !.live = FALSE].status = Last.status
        /\ [Last EXCEPT !.live = FALSE].uid = Last.uid
        /\ [Last EXCEPT !.live = FALSE].gen >= Last.gen
    BY <1>t, <2>1 DEF Version
  <2>4. store' = Append(store, [Last EXCEPT !.live = FALSE])
    BY <1>15 DEF Delete, Append1
  <2>5. UNCHANGED <<now, seen, pc, job>>
    BY <1>15 DEF Delete, worker
  <2> QED BY <2>2, <2>3, <2>4, <2>5 DEF Evolves
<1>16. CASE UNCHANGED vars
  BY <1>16, <1>t DEF vars, Quiet
<1>17. CASE Reconcile
  BY <1>17, <1>1, <1>2, <1>3, <1>4, <1>5, <1>6, <1>7 DEF Reconcile, UpdateStep
<1>18. CASE Delivery
  BY <1>18, <1>8, <1>9, <1>10 DEF Delivery
<1>19. CASE Environment
  BY <1>19, <1>11, <1>12, <1>13, <1>14, <1>15 DEF Environment
<1> QED
  BY <1>16, <1>17, <1>18, <1>19 DEF Next

\* A step only appends to the history: what was read from it stays readable.
LEMMA History ==
  ASSUME TypeOK, [Next]_vars
  PROVE  /\ Len(store) \in Nat \ {0} /\ seen \in 1..Len(store)
         /\ \/ store' = store
            \/ /\ Len(store') = Len(store) + 1
               /\ \A i \in 1..Len(store) : store'[i] = store[i]
<1>1. Len(store) \in Nat \ {0} /\ seen \in 1..Len(store) /\ store \in Seq(Version)
  BY VersionsType DEF TypeOK
<1>2. ASSUME NEW v \in Version, store' = Append(store, v)
      PROVE  /\ Len(store') = Len(store) + 1
             /\ \A i \in 1..Len(store) : store'[i] = store[i]
  BY <1>1, <1>2, AppendVersion
<1>3. ASSUME Writes
      PROVE  \E v \in Version : store' = Append(store, v)
  <2>1. [Last EXCEPT !.status = job.new] \in Version
    BY VersionsType DEF TypeOK, Job, Version
  <2> QED BY <1>3, <2>1 DEF Writes
<1>4. ASSUME Evolves
      PROVE  \E v \in Version : store' = Append(store, v)
  BY <1>4 DEF Evolves
<1>5. ASSUME Recreate
      PROVE  \E v \in Version : store' = Append(store, v)
  <2>1. Created(Last.uid + 1) \in Version
    BY VersionsType, IdleJobType DEF Version, Created
  <2> QED BY <1>5, <2>1 DEF Recreate, Append1
<1> QED
  BY <1>1, <1>2, <1>3, <1>4, <1>5, StepKinds
  DEF Quiet, Rests, Starts, Lists, Decides, Retries

-----------------------------------------------------------------------------
(* Generations *)

InOrder(s) ==
  /\ \A i, j \in 1..Len(s) : i <= j => s[i].gen <= s[j].gen
  /\ \A i \in 1..Len(s) : s[i].status.observed <= s[i].gen

\* A history in order stays so when a version as new as the last is added.
LEMMA AppendInOrder ==
  ASSUME NEW s \in Seq(Version), NEW v \in Version, InOrder(s), Len(s) >= 1,
         v.gen >= s[Len(s)].gen, v.status.observed <= v.gen
  PROVE  InOrder(Append(s, v))
<1> DEFINE a == Append(s, v)
           n == Len(s) + 1
<1>1. Len(a) = n /\ a[n] = v /\ \A i \in 1..Len(s) : a[i] = s[i]
  BY AppendVersion
<1>t. /\ Len(s) \in Nat /\ v.gen \in Nat
      /\ \A i \in 1..Len(s) : s[i].gen \in Nat
  <2>1. Len(s) \in Nat /\ \A i \in 1..Len(s) : s[i] \in Version
    OBVIOUS
  <2> QED BY <2>1 DEF Version
<1>2. \A i \in 1..Len(s) : s[i].gen <= v.gen
  <2> TAKE i \in 1..Len(s)
  <2>1. s[i].gen <= s[Len(s)].gen
    BY <1>t DEF InOrder
  <2> QED BY <2>1, <1>t
<1>3. ASSUME NEW i \in 1..n, NEW j \in 1..n, i <= j PROVE a[i].gen <= a[j].gen
  <2>1. CASE j = n /\ i = n
    BY <2>1, <1>1, <1>t
  <2>2. CASE j = n /\ i # n
    <3>1. i \in 1..Len(s)
      BY <2>2, <1>t
    <3> QED BY <2>2, <3>1, <1>1, <1>2
  <2>3. CASE j # n
    <3>1. i \in 1..Len(s) /\ j \in 1..Len(s)
      BY <1>3, <2>3, <1>t
    <3> QED BY <1>3, <3>1, <1>1 DEF InOrder
  <2> QED BY <2>1, <2>2, <2>3
<1>4. ASSUME NEW i \in 1..n PROVE a[i].status.observed <= a[i].gen
  <2>1. CASE i = n
    BY <2>1, <1>1
  <2>2. CASE i # n
    <3>1. i \in 1..Len(s)
      BY <2>2, <1>t
    <3> QED BY <3>1, <1>1 DEF InOrder
  <2> QED BY <2>1, <2>2
<1> QED BY <1>1, <1>3, <1>4 DEF InOrder

\* A created Application has observed nothing ahead of its generation.
LEMMA GenerationInit == Init => GenerationInv
<1> SUFFICES ASSUME Init PROVE GenerationInv
  OBVIOUS
<1>1. Len(store) = 1 /\ store[1] = Created(1) /\ seen = 1 /\ pc = "idle"
  BY DEF Init
<1>2. Created(1).gen = 1 /\ Created(1).status.observed = 0
  BY DEF Created, EmptyStatus
<1> QED
  BY <1>1, <1>2 DEF GenerationInv, ObservedGenBounded, Last, Cached, Writing

\* Without re-creation, a step keeps the generations in order.
LEMMA GenerationNext ==
  ASSUME "recreate" \notin Enabled, TypeOK, TypeOK', GenerationInv, [Next]_vars
  PROVE  GenerationInv'
<1>t. /\ Len(store) \in Nat \ {0} /\ seen \in 1..Len(store)
      /\ \A i \in 1..Len(store) : /\ store[i] \in Version
                                  /\ store[i].gen \in Nat
                                  /\ store[i].status.observed \in Nat
  <2>1. \A i \in 1..Len(store) : store[i] \in Version
    BY VersionsType
  <2> QED BY <2>1, History DEF Version, Status
<1>b. pc # "idle" => job.base \in 1..seen
  BY DEF TypeOK
<1> USE DEF GenerationInv, ObservedGenBounded, Last, Cached, Base, Writing
<1>1. CASE Quiet
  <2>1. seen' \in 1..Len(store) /\ seen' >= seen
    BY <1>1 DEF Quiet, TypeOK
  <2>2. store[seen].gen <= store[seen'].gen
    BY <2>1, <1>t
  <2>3. store[seen].gen \in Nat /\ store[seen'].gen \in Nat
        /\ store[Len(store)].status.observed \in Nat
    BY <2>1, <1>t
  <2>4. store[Len(store)].status.observed <= store[seen'].gen
    BY <2>2, <2>3
  <2> QED BY <1>1, <2>4 DEF Quiet
<1>2. CASE Rests
  <2>1. store[Len(store)].status.observed <= store[Len(store)].gen
    BY <1>t
  <2> QED BY <1>2, <2>1 DEF Rests
<1>3. CASE Starts
  <2>1. job'.base = seen
    BY <1>3, <1>t DEF Starts, IdleJob
  <2> QED BY <1>3, <2>1 DEF Starts
<1>4. ASSUME NEW k \in Kinds, Lists(k) PROVE GenerationInv'
  BY <1>4 DEF Lists
<1>5. CASE Decides
  <2>1. Computed.observed = Base.gen
    BY DEF Computed, NewStatus
  <2> QED BY <1>5, <2>1 DEF Decides
<1>6. CASE Retries
  BY <1>6 DEF Retries
<1>7. CASE Writes
  <2> DEFINE n == Len(store) + 1
  <2>1. [Last EXCEPT !.status = job.new] \in Version
    BY VersionsType DEF TypeOK, Job, Version
  <2>2. /\ Len(store') = n /\ store'[n] = [Last EXCEPT !.status = job.new]
        /\ \A i \in 1..Len(store) : store'[i] = store[i]
    BY <1>7, <2>1, AppendVersion DEF Writes, TypeOK
  <2>3. store'[n].gen = Last.gen /\ store'[n].status = job.new
    BY <2>2, VersionsType DEF Version
  <2>4. store'[n].status.observed = store[job.base].gen
    BY <1>7, <2>3 DEF Writes
  <2>5. seen = Len(store) /\ seen' = seen /\ pc' = "idle" /\ job.base \in 1..Len(store)
    BY <1>7, <1>b, <1>t DEF Writes
  <2>6. store[job.base].gen <= Last.gen
    BY <2>5, <1>t
  <2>7. InOrder(store')
    <3>1. InOrder(store) /\ store \in Seq(Version)
      BY DEF TypeOK, InOrder
    <3>2. store' = Append(store, [Last EXCEPT !.status = job.new])
      BY <1>7 DEF Writes
    <3>3. [Last EXCEPT !.status = job.new].gen = store[Len(store)].gen
      BY <1>t DEF Version
    <3>4. [Last EXCEPT !.status = job.new].status.observed <= store[Len(store)].gen
      BY <2>2, <2>4, <2>6
    <3> DEFINE v == [Last EXCEPT !.status = job.new]
    <3>5. /\ v \in Version /\ store' = Append(store, v) /\ Len(store) >= 1
          /\ v.gen >= store[Len(store)].gen /\ v.status.observed <= v.gen
      BY <1>t, <2>1, <3>2, <3>3, <3>4
    <3> HIDE DEF v
    <3> QED BY <3>1, <3>5, AppendInOrder
  <2>9. store'[n].status.observed <= store'[seen].gen
    BY <2>2, <2>3, <2>4, <2>5, <2>6
  <2> QED BY <2>2, <2>5, <2>7, <2>9 DEF InOrder
<1>8. CASE Evolves
  <2> DEFINE n == Len(store) + 1
  <2>1. PICK v \in Version : /\ store' = Append(store, v) /\ v.gen >= Last.gen
                             /\ v.status = Last.status
    BY <1>8 DEF Evolves
  <2>2. /\ Len(store') = n /\ store'[n] = v
        /\ \A i \in 1..Len(store) : store'[i] = store[i]
    BY <2>1, AppendVersion DEF TypeOK
  <2>3. v.gen \in Nat /\ Last.gen \in Nat /\ Last.status.observed \in Nat
    BY <1>t DEF Version
  <2>4. v.status.observed <= v.gen
    BY <2>1, <2>3, <1>t
  <2>5. InOrder(store')
    BY <2>1, <2>4, <1>t, AppendInOrder DEF InOrder, TypeOK
  <2>7. store'[n].status.observed = Last.status.observed
    BY <2>1, <2>2
  <2>8. UNCHANGED <<seen, pc, job>>
    BY <1>8 DEF Evolves
  <2>9. pc # "idle" => Base' = Base
    BY <2>2, <2>8, <1>b, <1>t
  <2> QED BY <2>2, <2>5, <2>7, <2>8, <2>9, <1>t DEF InOrder
<1>9. ~Recreate
  BY DEF Recreate
<1> QED
  BY <1>1, <1>2, <1>3, <1>4, <1>5, <1>6, <1>7, <1>8, <1>9, StepKinds

\* Without re-creation, GenerationInv holds in every reachable state.
LEMMA GenerationInvariant ==
  ASSUME "recreate" \notin Enabled PROVE Spec => [](TypeOK /\ GenerationInv)
<1>1. Init => TypeOK /\ GenerationInv
  BY TypeInit, GenerationInit
<1>2. TypeOK /\ GenerationInv /\ [Next]_vars => TypeOK' /\ GenerationInv'
  BY TypeNext, GenerationNext
<1> QED BY <1>1, <1>2, PTL DEF Spec

\* Unless an Application is re-created under its name, no stored status claims
\* a generation its object has not reached, whatever the cache's lag, the
\* conflicts and the retries (the ObservedGeneration of Reconcile).
THEOREM ObservedGenIsBounded ==
  ASSUME "recreate" \notin Enabled PROVE Spec => []ObservedGenBounded
<1>1. GenerationInv => ObservedGenBounded
  BY DEF GenerationInv
<1> QED BY <1>1, GenerationInvariant, PTL

\* Nor does the generation the status claims ever go back: the versions two
\* reconciles read are ordered although each may be stale.
THEOREM ObservedGenIsMonotone ==
  ASSUME "recreate" \notin Enabled PROVE Spec => ObservedGenNeverRegresses
<1>1. ASSUME TypeOK, GenerationInv, [Next]_vars, store' # store
      PROVE  Last'.status.observed >= Last.status.observed
  <2>t. Last \in Version /\ Last.status.observed \in Nat
    BY <1>1, VersionsType DEF Version, Status
  <2>1. CASE Writes
    <3>1. [Last EXCEPT !.status = job.new] \in Version
      BY <1>1, VersionsType DEF TypeOK, Job, Version
    <3>2. Last' = [Last EXCEPT !.status = job.new]
      BY <1>1, <2>1, <3>1, AppendVersion, History DEF Writes, Last, TypeOK
    <3>3. Last'.status.observed = Base.gen
      BY <1>1, <2>1, <2>t, <3>2 DEF Writes, GenerationInv, Version
    <3>4. Last.status.observed <= Base.gen /\ Base.gen \in Nat
      <4>1. pc # "idle" /\ job.base \in 1..Len(store)
        BY <1>1, <2>1, History DEF Writes, Writing, TypeOK
      <4> QED BY <1>1, <4>1, VersionsType DEF GenerationInv, Base, Version
    <3> QED BY <3>3, <3>4, <2>t
  <2>2. CASE Evolves
    <3>1. PICK v \in Version : store' = Append(store, v) /\ v.status = Last.status
      BY <2>2 DEF Evolves
    <3>2. Last' = v
      BY <1>1, <3>1, AppendVersion, History DEF Last, TypeOK
    <3> QED BY <3>1, <3>2, <2>t
  <2>3. ~Recreate
    BY DEF Recreate
  <2> QED
    BY <1>1, <2>1, <2>2, <2>3, StepKinds
    DEF Quiet, Rests, Starts, Lists, Decides, Retries
<1>2. TypeOK /\ GenerationInv /\ [Next]_vars
        => [Last'.uid = Last.uid =>
              Last'.status.observed >= Last.status.observed]_store
  BY <1>1
<1> QED
  BY <1>2, GenerationInvariant, PTL DEF Spec, ObservedGenNeverRegresses

-----------------------------------------------------------------------------
(* Verdict and component list *)

\* getNewApplicationStatus is coherent if every unknown infrastructure object
\* is an error.
LEMMA NewStatusCoherent ==
  ASSUME NEW v, NEW found \in [Kinds -> ObjStatus], NEW errs \in BOOLEAN, NEW t,
         \A k \in Infra : found[k] = "Unknown" => errs
  PROVE  Coherent(NewStatus(v, found, errs, t))
<1> DEFINE st == NewStatus(v, found, errs, t)
<1>1. st.ready = ReadyOf(found, errs) /\ st.objects = found
  BY DEF NewStatus
<1>2. CASE errs
  BY <1>1, <1>2 DEF Coherent, ReadyOf
<1>3. CASE ~errs
  BY <1>1, <1>3 DEF Coherent, ReadyOf, AggregateReady
<1> QED
  BY <1>2, <1>3

\* A coherent status appended to coherent versions.
LEMMA AppendCoherent ==
  ASSUME TypeOK, StatusCoherent, NEW v \in Version, Coherent(v.status),
         store' = Append(store, v)
  PROVE  StatusCoherent'
<1> DEFINE n == Len(store) + 1
<1>1. /\ Len(store') = n /\ store'[n] = v
      /\ \A i \in 1..Len(store) : store'[i] = store[i]
  BY AppendVersion DEF TypeOK
<1>2. ASSUME NEW i \in 1..n PROVE Coherent(store'[i].status)
  <2>1. CASE i = n
    BY <2>1, <1>1
  <2>2. CASE i # n
    <3>1. i \in 1..Len(store)
      BY <2>2, VersionsType
    <3> QED BY <3>1, <1>1 DEF StatusCoherent
  <2> QED BY <2>1, <2>2
<1>3. \A i \in 1..Len(store') : Coherent(store'[i].status)
  BY <1>1, <1>2
<1> QED BY <1>3 DEF StatusCoherent, Coherent

\* An Application without a status is coherent.
LEMMA CoherenceInit == Init => CoherenceInv
<1> SUFFICES ASSUME Init PROVE CoherenceInv
  OBVIOUS
<1>1. Len(store) = 1 /\ store[1] = Created(1) /\ pc = "idle"
  BY DEF Init
<1>2. Created(1).status.ready = "None"
  BY DEF Created, EmptyStatus
<1> QED
  BY <1>1, <1>2 DEF CoherenceInv, StatusCoherent, Coherent, Writing

\* Listing, computing, retrying and writing a status keep it coherent.
LEMMA CoherenceNext ==
  ASSUME TypeOK, CoherenceInv, [Next]_vars PROVE CoherenceInv'
<1>a. StatusCoherent /\ Last \in Version
  BY VersionsType DEF CoherenceInv
<1>b. Coherent(Last.status)
  BY <1>a, VersionsType DEF StatusCoherent, Last
<1>c. ASSUME store' = store PROVE StatusCoherent'
  BY <1>a, <1>c DEF StatusCoherent, Coherent
<1>1. CASE Quiet
  BY <1>1, <1>c DEF Quiet, CoherenceInv, Writing, Coherent
<1>2. CASE Rests
  BY <1>2, <1>c DEF Rests, CoherenceInv, Writing
<1>3. CASE Starts
  <2>1. \A k \in Infra : job'.found[k] = "Absent"
    BY <1>3 DEF Starts, IdleJob, Kinds
  <2> QED BY <1>3, <1>c, <2>1 DEF Starts, CoherenceInv, Writing
<1>4. ASSUME NEW k \in Kinds, Lists(k) PROVE CoherenceInv'
  <2>1. job.found \in [Kinds -> ObjStatus] /\ comp[k] \in CompState
    BY DEF TypeOK, Job
  <2>2. k \in Infra /\ StatusOf(comp[k]) = "Unknown" => comp[k] = "Broken"
    BY DEF TypeOK, StatesOf, StatusOf, CompState
  <2>3. \A h \in Infra : job.found[h] = "Unknown" => job.errs
    BY <1>4 DEF Lists, CoherenceInv
  <2>4. \A h \in Infra : job'.found[h] = "Unknown" => job'.errs
    <3>1. CASE job'.found = job.found /\ (job'.errs = TRUE \/ job'.errs = job.errs)
      BY <2>3, <3>1
    <3>2. CASE /\ job'.found = [job.found EXCEPT ![k] = StatusOf(comp[k])]
               /\ job'.errs = (job.errs \/ comp[k] = "Broken")
      <4>1. ASSUME NEW h \in Infra, job'.found[h] = "Unknown" PROVE job'.errs
        <5>1. CASE h = k
          <6>1. StatusOf(comp[k]) = "Unknown"
            BY <2>1, <3>2, <4>1, <5>1
          <6> QED BY <2>2, <3>2, <5>1, <6>1
        <5>2. CASE h # k
          BY <2>1, <2>3, <3>2, <4>1, <5>2 DEF Kinds
        <5> QED BY <5>1, <5>2
      <4> QED BY <4>1
    <3> QED BY <1>4, <3>1, <3>2 DEF Lists
  <2> QED BY <1>4, <1>c, <2>4 DEF Lists, CoherenceInv, Writing
<1>5. CASE Decides
  <2>1. job.found \in [Kinds -> ObjStatus] /\ job.errs \in BOOLEAN
    BY DEF TypeOK, Job
  <2>2. Coherent(Computed)
    BY <1>5, <2>1, NewStatusCoherent DEF Decides, CoherenceInv, Computed
  <2>3. Coherent(job'.new)
    BY <1>5, <2>2 DEF Decides
  <2> QED BY <1>5, <1>c, <2>3 DEF Decides, CoherenceInv, Writing, Coherent
<1>6. CASE Retries
  BY <1>6, <1>c DEF Retries, CoherenceInv, Writing, Coherent
<1>7. CASE Writes
  <2> DEFINE v == [Last EXCEPT !.status = job.new]
  <2>1. v \in Version /\ v.status = job.new
    BY VersionsType DEF TypeOK, Job, Version
  <2>2. Coherent(v.status)
    BY <1>7, <2>1 DEF Writes, CoherenceInv
  <2>3. StatusCoherent'
    BY <1>7, <1>a, <2>1, <2>2, AppendCoherent DEF Writes
  <2> QED BY <1>7, <2>3 DEF Writes, CoherenceInv, Writing
<1>8. CASE Evolves
  <2>1. PICK v \in Version : store' = Append(store, v) /\ v.status = Last.status
    BY <1>8 DEF Evolves
  <2>2. StatusCoherent'
    BY <1>a, <1>b, <2>1, AppendCoherent
  <2> QED BY <1>8, <2>2 DEF Evolves, CoherenceInv, Writing, Coherent
<1>9. CASE Recreate
  <2> DEFINE v == Created(Last.uid + 1)
  <2>1. v \in Version /\ v.status = EmptyStatus
    BY <1>a, IdleJobType DEF Version, Created
  <2>2. Coherent(v.status)
    BY <2>1 DEF EmptyStatus, Coherent
  <2>3. StatusCoherent'
    BY <1>9, <1>a, <2>1, <2>2, AppendCoherent DEF Recreate, Append1
  <2> QED BY <1>9, <2>3 DEF Recreate, CoherenceInv, Writing, Coherent, worker
<1> QED
  BY <1>1, <1>2, <1>3, <1>4, <1>5, <1>6, <1>7, <1>8, <1>9, StepKinds

\* Whatever fails and whatever races with the reconcile, no stored status ever
\* contradicts its own component list (getNewApplicationStatus and the write).
THEOREM StatusIsCoherent == Spec => []StatusCoherent
<1>1. Init => TypeOK /\ CoherenceInv
  BY TypeInit, CoherenceInit
<1>2. TypeOK /\ CoherenceInv /\ [Next]_vars => TypeOK' /\ CoherenceInv'
  BY TypeNext, CoherenceNext
<1>3. CoherenceInv => StatusCoherent
  BY DEF CoherenceInv
<1> QED BY <1>1, <1>2, <1>3, PTL DEF Spec

-----------------------------------------------------------------------------
(* Transition time and stabilization, with a current cache *)

Fresh == "stale" \notin Enabled

\* No transition of the Ready condition lies in the future at the start.
LEMMA FreshInit == Init => FreshInv
<1> SUFFICES ASSUME Init PROVE FreshInv
  OBVIOUS
<1>1. Len(store) = 1 /\ store[1] = Created(1) /\ pc = "idle" /\ now = 0
  BY DEF Init
<1>2. Created(1).status.since = 0
  BY DEF Created, EmptyStatus
<1> QED
  BY <1>1, <1>2 DEF FreshInv, Last, Writing

\* With reconciles that start from a current cache, a step keeps FreshInv.
LEMMA FreshNext ==
  ASSUME Fresh, TypeOK, TypeOK', FreshInv, [Next]_vars PROVE FreshInv'
<1>t. /\ Len(store) \in Nat \ {0} /\ seen \in 1..Len(store)
      /\ Last \in Version /\ Last.status.since \in Nat /\ Last.uid \in Nat
      /\ now \in Nat /\ now' \in Nat /\ Period \in Nat /\ Horizon \in Nat
  BY VersionsType, ControllerAssumption
  DEF TypeOK, Version, Status, ControllerAssumption
<1>b. pc # "idle" => /\ job.base \in 1..Len(store) /\ Base \in Version
                     /\ Base.status.since \in Nat /\ Base.uid \in Nat
  <2>1. pc # "idle" => job.base \in 1..Len(store)
    BY <1>t DEF TypeOK
  <2>2. \A i \in 1..Len(store) : store[i] \in Version
    BY VersionsType
  <2> QED BY <2>1, <2>2 DEF Base, Version, Status
<1>n. job.new.since \in Nat /\ job.began \in Nat
  BY DEF TypeOK, Job, Status
<1>1. CASE Quiet
  <2>1. UNCHANGED <<Last, Base, pc, job>> /\ now <= now'
    BY <1>1, <1>t DEF Quiet, Last, Base
  <2>2. Last.status.since <= now'
    BY <2>1, <1>t DEF FreshInv
  <2>3. ASSUME pc # "idle" PROVE job.began <= now'
    BY <2>1, <2>3, <1>t, <1>n DEF FreshInv
  <2>4. ASSUME Writing
        PROVE  /\ job.new.since \in job.began..now => job.new.since \in job.began..now'
               /\ TransitioningToReady(job.new, Base.status) =>
                    now' = Horizon \/ now' - Base.status.since >= Period
    <3>1. Base.status.since \in Nat
      BY <2>4, <1>b DEF Writing
    <3>2. \A n \in Nat : n \in job.began..now => n \in job.began..now'
      BY <2>1, <1>t, <1>n
    <3>3. TransitioningToReady(job.new, Base.status) =>
            now' = Horizon \/ now' - Base.status.since >= Period
      BY <1>1, <2>4, <3>1, <1>t DEF Quiet, FreshInv
    <3> QED BY <3>2, <3>3, <1>n
  <2> QED
    BY <2>1, <2>2, <2>3, <2>4 DEF FreshInv, Writing, TransitioningToReady
<1>2. CASE Rests
  BY <1>2 DEF Rests, FreshInv, Last, Writing
<1>3. CASE Starts
  <2>1. job'.base = seen /\ seen = Len(store)
    BY <1>3, <1>t DEF Starts, IdleJob, Fresh
  <2>2. /\ Base' = Last /\ Last' = Last /\ pc' = "list" /\ now' = now
        /\ job'.began = now
    BY <1>3, <2>1 DEF Starts, Last, Base, IdleJob
  <2> QED BY <2>2, <1>t DEF FreshInv, Writing
<1>4. ASSUME NEW k \in Kinds, Lists(k) PROVE FreshInv'
  BY <1>4 DEF Lists, FreshInv, Last, Base, Writing
<1>5. CASE Decides
  <2>1. /\ Base.status.since <= now /\ Base.status.since \in Nat
        /\ job.began <= now
    BY <1>5, <1>b, <1>n, <1>t DEF Decides, FreshInv
  <2>2. /\ Computed.ready = ReadyOf(job.found, job.errs)
        /\ Computed.since = IF Base.status.ready = Computed.ready
                              THEN Base.status.since ELSE now
    BY DEF Computed, NewStatus, TransitionTime
  <2>3. IF Computed.ready = Base.status.ready
          THEN Computed.since = Base.status.since
          ELSE Computed.since \in job.began..now
    BY <2>1, <2>2, <1>t, <1>n
  <2>4. TransitioningToReady(Computed, Base.status) =>
          now = Horizon \/ now - Base.status.since >= Period
    <3>1. TransitioningToReady(Computed, Base.status) =>
            ~(RemainingWait(Base.status) > 0)
      BY <1>5 DEF Decides, Stabilizing
    <3> QED BY <3>1, <2>1, <1>t DEF RemainingWait
  <2>5. UNCHANGED <<store, now, job.base, job.began>> /\ job'.new = Computed
        /\ pc # "idle"
    BY <1>5 DEF Decides
  <2>6. Computed.ready # "None"
    BY <2>2 DEF ReadyOf
  <2>7. UNCHANGED <<Last, Base, now>>
    BY <2>5 DEF Last, Base
  <2> QED
    BY <2>3, <2>4, <2>5, <2>6, <2>7 DEF FreshInv, TransitioningToReady
<1>6. CASE Retries
  <2>1. UNCHANGED <<Last, Base, now, job.began, job.new>> /\ pc # "idle"
    BY <1>6 DEF Retries, Last, Base, Writing
  <2> QED BY <1>6, <2>1 DEF Retries, FreshInv, TransitioningToReady
<1>7. CASE Writes
  <2>1. [Last EXCEPT !.status = job.new] \in Version
    BY <1>t DEF TypeOK, Job, Version
  <2>2. Last' = [Last EXCEPT !.status = job.new]
    BY <1>7, <2>1, <1>t, AppendVersion DEF Writes, Last, TypeOK
  <2>3. Last'.status = job.new
    BY <2>2, <1>t DEF Version
  <2>4. job.new.since <= now
    BY <1>7, <1>b, <1>n, <1>t DEF Writes, FreshInv, Writing
  <2> QED BY <1>7, <2>3, <2>4 DEF Writes, FreshInv, Writing
<1>8. CASE Evolves
  <2>1. PICK v \in Version : /\ store' = Append(store, v)
                             /\ v.status = Last.status /\ v.uid = Last.uid
    BY <1>8 DEF Evolves
  <2>2. Last' = v /\ \A i \in 1..Len(store) : store'[i] = store[i]
    BY <2>1, <1>t, AppendVersion DEF Last, TypeOK
  <2>3. UNCHANGED <<now, pc, job>> /\ Last'.status = Last.status
        /\ Last'.uid = Last.uid
    BY <1>8, <2>1, <2>2 DEF Evolves
  <2>4. pc # "idle" => Base' = Base
    BY <2>2, <2>3, <1>b DEF Base
  <2> QED BY <2>3, <2>4 DEF FreshInv, Writing, TransitioningToReady
<1>9. CASE Recreate
  <2>1. Created(Last.uid + 1) \in Version
    BY <1>t, IdleJobType DEF Version, Created
  <2>2. store' = Append(store, Created(Last.uid + 1)) /\ UNCHANGED <<now, pc, job>>
    BY <1>9 DEF Recreate, Append1, worker
  <2>3. Last' = Created(Last.uid + 1) /\ \A i \in 1..Len(store) : store'[i] = store[i]
    BY <2>1, <2>2, <1>t, AppendVersion DEF Last, TypeOK
  <2>4. /\ Last'.uid = Last.uid + 1
        /\ Last'.status.ready = "None" /\ Last'.status.since = 0
    BY <2>3 DEF Created, EmptyStatus
  <2>5. pc # "idle" => Base' = Base
    BY <2>2, <2>3, <1>b DEF Base
  <2>6. pc # "idle" => Base.uid <= Last'.uid /\ Base.uid # Last'.uid
    BY <2>4, <1>t, <1>b DEF FreshInv
  <2> QED
    BY <2>2, <2>4, <2>5, <2>6, <1>t DEF FreshInv, Writing, TransitioningToReady
<1> QED
  BY <1>1, <1>2, <1>3, <1>4, <1>5, <1>6, <1>7, <1>8, <1>9, StepKinds

\* With reconciles that start from a current cache, FreshInv holds in every
\* reachable state.
LEMMA FreshInvariant == ASSUME Fresh PROVE Spec => [](TypeOK /\ FreshInv)
<1>1. Init => TypeOK /\ FreshInv
  BY TypeInit, FreshInit
<1>2. TypeOK /\ FreshInv /\ [Next]_vars => TypeOK' /\ FreshInv'
  BY TypeNext, FreshNext
<1> QED BY <1>1, <1>2, PTL DEF Spec

\* How a step changes the stored status of an Application: not, or by the one
\* prepared from it; or the Application is re-created.
LEMMA StatusChange ==
  ASSUME Fresh, TypeOK, FreshInv, [Next]_vars, store' # store
  PROVE  /\ now' = now
         /\ \/ Last'.status = Last.status
            \/ Writing /\ Last'.status = job.new
            \/ Last'.uid # Last.uid
<1>t. Len(store) \in Nat \ {0} /\ Last \in Version /\ Last.uid \in Nat
  BY VersionsType DEF Version
<1>1. CASE Writes
  <2>1. [Last EXCEPT !.status = job.new] \in Version
    BY <1>t DEF TypeOK, Job, Version
  <2>2. Last' = [Last EXCEPT !.status = job.new]
    BY <1>1, <2>1, <1>t, AppendVersion DEF Writes, Last, TypeOK
  <2>3. Last'.status = job.new
    BY <2>2, <1>t DEF Version
  <2> QED BY <1>1, <2>3 DEF Writes, Writing
<1>2. CASE Evolves
  <2>1. PICK v \in Version : store' = Append(store, v) /\ v.status = Last.status
    BY <1>2 DEF Evolves
  <2>2. Last' = v
    BY <2>1, <1>t, AppendVersion DEF Last, TypeOK
  <2> QED BY <1>2, <2>1, <2>2 DEF Evolves
<1>3. CASE Recreate
  <2>1. Created(Last.uid + 1) \in Version
    BY <1>t, IdleJobType DEF Version, Created
  <2>2. Last' = Created(Last.uid + 1)
    BY <1>3, <2>1, <1>t, AppendVersion DEF Recreate, Append1, Last, TypeOK
  <2>3. Last'.uid # Last.uid
    BY <2>2, <1>t DEF Created
  <2> QED BY <1>3, <2>3 DEF Recreate
<1> QED
  BY <1>1, <1>2, <1>3, StepKinds
  DEF Quiet, Rests, Starts, Lists, Decides, Retries

\* When reconciles start from a current cache, a change of the Ready status moves
\* lastTransitionTime to a time within the reconcile that found the change, and
\* nothing else moves it (setCondition): whatever is retried, refused, restarted
\* or re-created, the status written is the one read, with its time.
THEOREM TransitionTimeIsFaithful ==
  ASSUME Fresh PROVE Spec => TransitionTimeFaithful
<1>1. ASSUME TypeOK, FreshInv, [Next]_vars, store' # store, Last'.uid = Last.uid
      PROVE  /\ Last'.status.since >= Last.status.since
             /\ IF Last'.status.ready = Last.status.ready
                  THEN Last'.status.since = Last.status.since
                  ELSE Base.uid = Last.uid =>
                         Last'.status.since \in job.began..now
  <2>1. Last.status.since \in Nat
    BY <1>1, VersionsType DEF Version, Status
  <2>2. CASE Last'.status = Last.status
    BY <2>1, <2>2
  <2>3. CASE Writing /\ Last'.status = job.new
    <3>1. job.new.since \in Nat /\ job.began \in Nat /\ now \in Nat
      BY <1>1 DEF TypeOK, Job, Status
    <3>2. CASE Base.uid = Last.uid
      BY <1>1, <2>1, <2>3, <3>1, <3>2 DEF FreshInv, Writing
    <3>3. CASE Base.uid # Last.uid
      BY <1>1, <2>1, <2>3, <3>1, <3>3 DEF FreshInv, Writing
    <3> QED BY <3>2, <3>3
  <2> QED BY <1>1, <2>2, <2>3, StatusChange
<1>2. TypeOK /\ FreshInv /\ [Next]_vars
        => [Last'.uid = Last.uid =>
              /\ Last'.status.since >= Last.status.since
              /\ IF Last'.status.ready = Last.status.ready
                   THEN Last'.status.since = Last.status.since
                   ELSE Base.uid = Last.uid =>
                          Last'.status.since \in job.began..now]_store
  BY <1>1
<1> QED
  BY <1>2, FreshInvariant, PTL DEF Spec, TransitionTimeFaithful

\* Then, too, no recovery is reported before the stabilization period is over:
\* the decision of Reconcile still holds when its write is accepted, retries
\* and conflicts included.
THEOREM RecoveryIsStabilized ==
  ASSUME Fresh PROVE Spec => Stabilized
<1>1. ASSUME TypeOK, FreshInv, [Next]_vars, store' # store, Last'.uid = Last.uid,
             Last.status.ready \in {"False", "Unknown"},
             Last'.status.ready = "True", now # Horizon
      PROVE  now - Last.status.since >= Period
  <2>1. Last'.status # Last.status
    BY <1>1
  <2>2. Writing /\ Last'.status = job.new
    BY <1>1, <2>1, StatusChange
  <2>3. Base.status = Last.status
    BY <1>1, <2>2 DEF FreshInv, Writing
  <2> QED BY <1>1, <2>2, <2>3 DEF FreshInv, TransitioningToReady
<1>2. TypeOK /\ FreshInv /\ [Next]_vars
        => [Last'.uid = Last.uid
              /\ Last.status.ready \in {"False", "Unknown"} /\ Last'.status.ready = "True"
              /\ now # Horizon
            => now - Last.status.since >= Period]_store
  BY <1>1
<1> QED
  BY <1>2, FreshInvariant, PTL DEF Spec, Stabilized

-----------------------------------------------------------------------------
(* No lost wake-up *)

\* Nothing wakes the worker any more: the cache is current and the key is not
\* in the workqueue.
Unprompted == Last.live /\ ~queued /\ seen = Len(store)

\* What the status says of kind k, as far as a change of it would be noticed.
Tells(k, objects) ==
  watch[k] = "on" /\ comp[k] # "Absent" => objects[k] = StatusOf(comp[k])

\* While the key is not in the workqueue, what the worker has listed is still
\* so, or an error will bring the key back; what it is about to write differs
\* from what is stored, so that the write comes back as an event; and when it
\* is done without a timer, what is stored is right and not Unknown.
WakeInv ==
  Unprompted =>
    /\ pc = "idle" /\ timer = NoTimer /\ ~backoff =>
         /\ Last.status.observed = Last.gen /\ Last.status.ready # "Unknown"
         /\ \A k \in Workloads : Tells(k, Last.status.objects)
    /\ pc = "list" =>
         /\ job.base = seen
         /\ job.errs \/ \A k \in Workloads \ job.todo : Tells(k, job.found)
    /\ Writing => job.new # Last.status

\* One append makes the cache lag, and its event is still to come.
LEMMA AppendPrompts ==
  ASSUME TypeOK, NEW v \in Version, Append1(v), seen' = seen
  PROVE  WakeInv'
<1>1. Len(store') = Len(store) + 1
  BY AppendVersion DEF TypeOK, Append1
<1>2. seen' # Len(store')
  BY <1>1, VersionsType DEF TypeOK
<1> QED BY <1>2 DEF WakeInv, Unprompted

\* A step that leaves the worker, the components, the watches and the versions
\* alone keeps WakeInv if it adds the key, or leaves the queue alone.
LEMMA QuietKeepsWake ==
  ASSUME WakeInv, UNCHANGED <<comp, store, watch, pc, job>>,
         queued' \/ UNCHANGED <<seen, queue>>
  PROVE  WakeInv'
<1>1. CASE queued'
  BY <1>1 DEF WakeInv, Unprompted
<1>2. CASE UNCHANGED <<seen, queue>>
  BY <1>2 DEF WakeInv, Unprompted, Tells, Last, Writing, queue
<1> QED BY <1>1, <1>2

\* No step of Reconcile, the informers, the workqueue or the cluster lets a
\* change go unnoticed, unless the lookup of the Applications fails.
LEMMA WakeNext ==
  ASSUME "lookup" \notin Enabled, TypeOK, WakeInv, [Next]_vars
  PROVE  WakeInv'
<1>v. /\ Len(store) \in Nat \ {0} /\ seen \in 1..Len(store)
      /\ Last \in Version /\ Cached \in Version
  BY VersionsType DEF TypeOK
<1>c. seen = Len(store) => Cached = Last
  BY DEF Cached, Last
<1>1. ASSUME StartReconcile PROVE WakeInv'
  <2> SUFFICES ASSUME Unprompted' PROVE WakeInv'
    BY DEF WakeInv
  <2>1. Cached.live /\ seen = Len(store)
    BY <1>1, <1>c DEF StartReconcile, Unprompted, Last, cluster
  <2>2. /\ pc' = "list" /\ seen' = seen
        /\ job' = [IdleJob EXCEPT !.base = seen, !.began = now, !.todo = Kinds]
    BY <1>1, <2>1 DEF StartReconcile
  <2>3. job'.base = seen' /\ job'.todo = Kinds
    BY <2>2 DEF IdleJob
  <2> QED BY <2>2, <2>3 DEF WakeInv, Writing, Kinds
<1>2. ASSUME NEW k \in Kinds, ListKind(k) PROVE WakeInv'
  <2> SUFFICES ASSUME Unprompted' PROVE WakeInv'
    BY DEF WakeInv
  <2>1. /\ UNCHANGED <<comp, store, seen, queued, watch, pc>> /\ pc = "list"
        /\ job.found \in [Kinds -> ObjStatus]
    BY <1>2 DEF ListKind, cluster, queue, TypeOK, Job
  <2>2. Unprompted /\ job.base = seen
    BY <2>1 DEF WakeInv, Unprompted, Last
  <2>3. \/ /\ job'.found = [job.found EXCEPT ![k] = StatusOf(comp[k])]
           /\ job.errs => job'.errs
        \/ job'.errs
        \/ watch[k] = "no" /\ job'.found = job.found /\ job'.errs = job.errs
    BY <1>2 DEF ListKind, TypeOK, Job
  <2>4. job'.todo = job.todo \ {k} /\ job'.base = job.base
    BY <1>2 DEF ListKind, TypeOK, Job
  <2>5. job'.errs \/ \A h \in Workloads \ job'.todo : Tells(h, job.found)'
    <3> SUFFICES ASSUME ~job'.errs, NEW h \in Workloads, h \notin job'.todo,
                        watch[h] = "on", comp[h] # "Absent"
                 PROVE  job'.found[h] = StatusOf(comp[h])
      BY <2>1 DEF Tells, StatusOf
    <3>1. CASE h = k
      BY <2>1, <2>3, <3>1
    <3>2. CASE h # k
      <4>1. h \in Workloads \ job.todo /\ ~job.errs
        BY <2>3, <2>4, <3>2
      <4>2. job.found[h] = StatusOf(comp[h])
        BY <2>1, <2>2, <4>1 DEF WakeInv, Tells
      <4> QED BY <2>1, <2>3, <3>2, <4>2 DEF Kinds
    <3> QED BY <3>1, <3>2
  <2> QED BY <2>1, <2>2, <2>4, <2>5 DEF WakeInv, Writing
<1>3. ASSUME ReturnUnchanged PROVE WakeInv'
  <2> SUFFICES ASSUME Unprompted', timer' = NoTimer PROVE WakeInv'
    BY <1>3 DEF WakeInv, ReturnUnchanged, Finish, Writing
  <2>1. ~job.errs
    <3>1. now + ErrorRequeue \in Nat
      BY ControllerAssumption DEF ControllerAssumption, TypeOK
    <3>2. Earliest(now + ErrorRequeue) \in Nat
      BY <3>1, EarliestType
    <3> QED BY <1>3, <3>2 DEF ReturnUnchanged, NoTimer
  <2>2. UNCHANGED <<comp, store, seen, queued, watch>> /\ pc = "list"
        /\ job.todo = {} /\ Computed = Base.status /\ pc' = "idle"
    BY <1>3 DEF ReturnUnchanged, Listed, Finish, cluster
  <2>3. Unprompted /\ Base = Last
    BY <2>2 DEF WakeInv, Unprompted, Last, Base
  <2>4. /\ Computed.observed = Base.gen /\ Computed.objects = job.found
        /\ Computed.ready # "Unknown"
    BY <2>1 DEF Computed, NewStatus, ReadyOf
  <2>5. \A k \in Workloads : Tells(k, Last.status.objects)
    BY <2>1, <2>2, <2>3, <2>4 DEF WakeInv
  <2> QED BY <2>2, <2>3, <2>4, <2>5 DEF WakeInv, Last, Tells, Writing
<1>4. ASSUME ReturnStabilizing PROVE WakeInv'
  <2>1. Base \in Version
    BY <1>4, ComputedType DEF ReturnStabilizing, Listed
  <2>2. now + RemainingWait(Base.status) \in Nat
    BY <2>1, WaitType, ControllerAssumption DEF TypeOK
  <2>3. timer' # NoTimer
    BY <1>4, <2>2, EarliestType DEF ReturnStabilizing, NoTimer
  <2> QED BY <1>4, <2>3 DEF ReturnStabilizing, Finish, WakeInv, Writing
<1>5. ASSUME BeginWrite PROVE WakeInv'
  <2> SUFFICES ASSUME Unprompted' PROVE WakeInv'
    BY DEF WakeInv
  <2>1. UNCHANGED <<store, seen, queued>> /\ pc = "list" /\ Computed # Base.status
    BY <1>5 DEF BeginWrite, Listed, cluster, queue
  <2>2. Base = Last
    BY <2>1 DEF WakeInv, Unprompted, Last, Base
  <2>3. job'.new = Computed /\ pc' = "get" /\ Last' = Last
    BY <1>5, <2>1 DEF BeginWrite, IdleJob, Last
  <2> QED BY <2>1, <2>2, <2>3 DEF WakeInv, Writing
<1>6. ASSUME GetOriginal PROVE WakeInv'
  <2> SUFFICES ASSUME Unprompted' PROVE WakeInv'
    BY DEF WakeInv
  <2>1. UNCHANGED <<store, seen, queued>> /\ pc = "get"
    BY <1>6 DEF GetOriginal, cluster, queue
  <2>2. Unprompted /\ Last' = Last
    BY <2>1 DEF Unprompted, Last
  <2>3. pc' = "update" /\ job'.new = job.new
    BY <1>6, <1>c, <2>2 DEF GetOriginal, Unprompted, TypeOK, Job
  <2> QED BY <2>1, <2>2, <2>3 DEF WakeInv, Writing
<1>7. ASSUME UpdateAccepted PROVE WakeInv'
  <2>1. [Last EXCEPT !.status = job.new] \in Version
    BY <1>v DEF TypeOK, Version, Job
  <2>2. CASE Last.status = job.new
    <3>1. UNCHANGED <<store, seen, queued>> /\ pc = "update"
      BY <1>7, <2>2 DEF UpdateAccepted, queue
    <3>2. ~Unprompted
      BY <2>2, <3>1 DEF WakeInv, Writing
    <3> QED BY <3>1, <3>2 DEF WakeInv, Unprompted, Last
  <2>3. CASE Last.status # job.new
    BY <1>7, <2>1, <2>3, AppendPrompts DEF UpdateAccepted
  <2> QED BY <2>2, <2>3
<1>8. ASSUME UpdateConflict PROVE WakeInv'
  <2>1. UNCHANGED <<store, seen, queued>> /\ pc = "update"
    BY <1>8 DEF UpdateConflict, cluster
  <2>2. CASE pc' = "get" /\ job'.new = job.new
    BY <2>1, <2>2 DEF WakeInv, Unprompted, Last, Writing
  <2>3. CASE pc' = "idle" /\ backoff'
    BY <2>3 DEF WakeInv, Writing
  <2> QED BY <1>8, <2>2, <2>3 DEF UpdateConflict, Finish, TypeOK, Job
<1>9. ASSUME UpdateNotFound PROVE WakeInv'
  BY <1>9 DEF UpdateNotFound, cluster, WakeInv, Unprompted, Last
<1>10. ASSUME UpdateFails PROVE WakeInv'
  BY <1>10 DEF UpdateFails, Finish, WakeInv, Writing
<1>11. ASSUME AppInformer \/ TimerFires \/ BackoffExpires \/ Resync
       PROVE  WakeInv'
  BY <1>11, QuietKeepsWake
  DEF AppInformer, TimerFires, BackoffExpires, Resync, Enqueue, cluster, worker
<1>12. ASSUME NEW k \in Kinds, WatchSynced(k) PROVE WakeInv'
  <2> SUFFICES ASSUME Unprompted' PROVE WakeInv'
    BY DEF WakeInv
  <2>1. /\ UNCHANGED <<comp, store, seen, timer, backoff, pc, job>> /\ ~queued
        /\ watch' = [watch EXCEPT ![k] = "on"]
    BY <1>12 DEF WatchSynced, Enqueue, cluster, worker, Unprompted
  <2>2. Unprompted /\ Cached.live
    BY <1>c, <2>1 DEF Unprompted, Last
  <2>3. comp[k] = "Absent"
    BY <1>12, <2>2 DEF WatchSynced, Enqueue, Unprompted
  <2>4. \A h \in Workloads : \A o : Tells(h, o) => Tells(h, o)'
    BY <2>1, <2>3 DEF Tells, StatusOf, TypeOK, Kinds
  <2> QED BY <2>1, <2>2, <2>4 DEF WakeInv, Last, Writing
<1>13. ASSUME Restart PROVE WakeInv'
  BY <1>13 DEF Restart, cluster, WakeInv, Unprompted, Last
<1>14. ASSUME NEW k \in Kinds, NEW s \in CompState, ComponentChange(k, s)
       PROVE  WakeInv'
  <2> SUFFICES ASSUME Unprompted' PROVE WakeInv'
    BY DEF WakeInv
  <2>1. /\ UNCHANGED <<store, seen, timer, backoff, watch, pc, job>>
        /\ comp' = [comp EXCEPT ![k] = s]
        /\ Enqueue(watch[k] = "on" /\ Cached.live)
    BY <1>14 DEF ComponentChange, Fault, worker
  <2>2. Unprompted /\ Cached.live
    BY <1>c, <2>1 DEF Unprompted, Last, Enqueue
  <2>3. watch[k] # "on"
    BY <2>1, <2>2 DEF Enqueue, Unprompted
  <2>4. \A h \in Workloads : \A o : Tells(h, o) => Tells(h, o)'
    BY <2>1, <2>3 DEF Tells, StatusOf, TypeOK, Kinds
  <2> QED BY <2>1, <2>2, <2>4 DEF WakeInv, Last, Writing
<1>15. ASSUME SpecChange PROVE WakeInv'
  <2>1. [Last EXCEPT !.gen = Last.gen + 1] \in Version
    BY <1>v DEF Version
  <2> QED BY <1>15, <2>1, AppendPrompts DEF SpecChange
<1>16. ASSUME Delete PROVE WakeInv'
  <2>1. [Last EXCEPT !.live = FALSE] \in Version
    BY <1>v DEF Version
  <2> QED BY <1>16, <2>1, AppendPrompts DEF Delete
<1>17. ASSUME Recreate PROVE WakeInv'
  <2>1. Created(Last.uid + 1) \in Version
    BY <1>v, IdleJobType DEF Version, Created
  <2> QED BY <1>17, <2>1, AppendPrompts DEF Recreate
<1>18. ASSUME Tick \/ UNCHANGED vars PROVE WakeInv'
  BY <1>18, QuietKeepsWake DEF Tick, vars, queue, worker
<1> QED
  BY <1>1, <1>2, <1>3, <1>4, <1>5, <1>6, <1>7, <1>8, <1>9, <1>10, <1>11, <1>12,
     <1>13, <1>14, <1>15, <1>16, <1>17, <1>18
  DEF Next, Reconcile, Delivery, Environment, UpdateStep

\* No lost wake-up: whatever races with a reconcile, and whatever listing,
\* mapping, watch or write fails on the way, a controller with nothing left to
\* do has reported every change (Reconcile, ensureComponentWatches).
THEOREM RestIsReported ==
  ASSUME "lookup" \notin Enabled PROVE Spec => []RestImpliesReported
<1>1. Init => TypeOK /\ WakeInv
  BY TypeInit DEF Init, WakeInv, Unprompted
<1>2. TypeOK /\ WakeInv /\ [Next]_vars => TypeOK' /\ WakeInv'
  BY TypeNext, WakeNext
<1>3. WakeInv => RestImpliesReported
  BY DEF WakeInv, Unprompted, RestImpliesReported, AtRest, Tells
<1> QED BY <1>1, <1>2, <1>3, PTL DEF Spec
=============================================================================
