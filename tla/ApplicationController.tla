----------------------- MODULE ApplicationController -----------------------
(***************************************************************************)
(* The reconcile loop of one Application (controllers/), with everything   *)
(* it races against: the API server's versions of the Application, the     *)
(* informer cache that lags behind them, the component kinds the           *)
(* Application declares, the workqueue with its timers, faults, restarts.  *)
(*                                                                         *)
(* Abstractions: one Application (the workqueue never runs two reconciles  *)
(* of one key, and Applications share only the watches); at most one       *)
(* matching object per declared kind; an object is what status() makes of  *)
(* it; the Error condition is left out because getNewApplicationStatus     *)
(* sets it exactly when Ready is Unknown.  `comp` is the content of the    *)
(* component informers' caches, which is all the controller ever reads.    *)
(***************************************************************************)
EXTENDS Integers, Sequences

CONSTANTS
  Workloads,     \* declared kinds that decide readiness (workloadKinds)
  Infra,         \* declared kinds that are only listed
  Period,        \* StabilizationPeriod, in clock ticks; 0 disables it
  ErrorRequeue,  \* RequeueAfter when components failed, in ticks
  MaxTries,      \* attempts of retry.DefaultRetry
  Horizon,       \* bound: the clock stops here, and every wait has ended
  MaxChanges,    \* bound on the changes made to components and Application
  MaxFaults,     \* bound on the failures injected
  Enabled        \* which races and failures this instance admits

Switches == {"stale", "list", "mapping", "watch", "lookup", "write",
             "crash", "delete", "recreate", "resync"}

ASSUME ControllerAssumption ==
  /\ Workloads \cap Infra = {}
  /\ Period \in Nat /\ ErrorRequeue \in Nat /\ Horizon \in Nat
  /\ MaxTries \in Nat \ {0} /\ MaxChanges \in Nat /\ MaxFaults \in Nat
  /\ Enabled \subseteq Switches

Kinds == Workloads \cup Infra

VARIABLES
  comp,      \* component objects as the informers hold them
  store,     \* the API server: every version of the Application so far
  now,       \* wall clock, in ticks
  seen,      \* index in store of the version the informer cache holds
  queued,    \* the Application's key is in the workqueue
  timer,     \* when the key is added again (AddAfter), or NoTimer
  backoff,   \* the key waits in the rate limiter after an error
  watch,     \* dynamic watch of each kind: "no", "starting", "on"
  pc, job,   \* the worker: where it is in Reconcile, and its locals
  changes, faults

cluster == <<comp, store, now>>
queue   == <<queued, timer, backoff>>
worker  == <<pc, job>>
vars == <<comp, store, now, seen, queued, timer, backoff, watch, pc, job,
          changes, faults>>

NoTimer == -1

-----------------------------------------------------------------------------
(* Data *)

CompState  == {"Absent", "Ready", "InProgress", "Broken", "Unmapped"}
ObjStatus  == {"Absent", "Ready", "InProgress", "Unknown"}
ReadyValue == {"None", "True", "False", "Unknown"}

\* Only status() of a workload meets a value it does not know.
StatesOf(k) == IF k \in Infra THEN CompState \ {"Unmapped"} ELSE CompState

\* ApplicationStatus: ready and since are the status and the
\* lastTransitionTime of the Ready condition ("None": no such condition yet).
Status == [observed : Nat, ready : ReadyValue, since : Nat,
           objects : [Kinds -> ObjStatus]]

Version == [uid : Nat, gen : Nat, live : BOOLEAN, status : Status]

EmptyStatus == [observed |-> 0, ready |-> "None", since |-> 0,
                objects |-> [k \in Kinds |-> "Absent"]]

Created(u) == [uid |-> u, gen |-> 1, live |-> TRUE, status |-> EmptyStatus]

\* The worker's locals; began is a history: when the reconcile was begun.
Job == [base : Nat, began : Nat, todo : SUBSET Kinds,
        found : [Kinds -> ObjStatus], errs : BOOLEAN, new : Status,
        orig : Nat, tries : Nat]

IdleJob == [base |-> 0, began |-> 0, todo |-> {},
            found |-> [k \in Kinds |-> "Absent"], errs |-> FALSE,
            new |-> EmptyStatus, orig |-> 0, tries |-> 0]

Last   == store[Len(store)]
Cached == store[seen]

\* Seeded fault: the status of an object that cannot be read is copied as is.
StatusOfRaw(s) == s

\* status(): what the controller makes of one object.  Of a Broken object it
\* returns StatusUnknown and an error, of an Unmapped one (a Rollout in a phase
\* it does not know) StatusUnknown alone.
StatusOf(s) == IF s \in {"Broken", "Unmapped"} THEN "Unknown" ELSE s

AggregateReady(found) == \A k \in Workloads : found[k] \in {"Absent", "Ready"}

\* Seeded fault: component errors do not reach the Ready condition.
ReadyOfObjects(found, errs) ==
  IF AggregateReady(found) THEN "True" ELSE "False"

ReadyOf(found, errs) ==
  IF errs THEN "Unknown" ELSE IF AggregateReady(found) THEN "True" ELSE "False"

\* Seeded fault: the transition time is set when the condition is added and
\* stays as it is when its status changes.
TransitionTimeKept(old, ready, t) == IF old.ready = "None" THEN t ELSE old.since

\* setCondition on Ready: a change of the status takes place now, and nothing
\* else moves the transition time.
TransitionTime(old, ready, t) == IF old.ready = ready THEN old.since ELSE t

NewStatus(v, found, errs, t) ==
  LET ready == ReadyOf(found, errs)
  IN  [observed |-> v.gen, ready |-> ready,
       since |-> TransitionTime(v.status, ready, t), objects |-> found]

\* Seeded fault: a recovery from Unknown does not count as a recovery.
TransitioningFromFalse(new, cur) == new.ready = "True" /\ cur.ready = "False"

TransitioningToReady(new, cur) ==
  new.ready = "True" /\ cur.ready \in {"False", "Unknown"}

\* Seeded fault: every reconcile starts the stabilization wait again.
RestartedWait(cur) == Period

\* The rest of the stabilization wait that began when cur left Ready.
RemainingWait(cur) ==
  IF Period = 0 \/ now = Horizon \/ now - cur.since >= Period
    THEN 0 ELSE Period - (now - cur.since)

\* AddAfter keeps the earlier of the two deadlines of a key.
Earliest(t) == IF timer = NoTimer \/ t < timer THEN t ELSE timer

\* Seeded fault: the workqueue drops a key whose reconcile is running.
EnqueueUnlessRunning(cond) == queued' = (queued \/ (cond /\ pc = "idle"))

\* Add to the workqueue, which keeps one entry for a key, also while the key
\* is being reconciled.
Enqueue(cond) == queued' = (queued \/ cond)

Fault(f) == f \in Enabled /\ faults < MaxFaults /\ faults' = faults + 1

-----------------------------------------------------------------------------
(* The worker: one reconcile, a step per read or write it makes. *)

Finish == pc' = "idle" /\ job' = IdleJob

UnwatchedKinds == {k \in Workloads : watch[k] = "no"}

\* One pass over the workload kinds that have no watch: a registered watch
\* starts in the background; a kind without mapping is skipped, and a failed
\* Watch() rolls its dedup entry back.
EnsureComponentWatches ==
  \E failed \in SUBSET UnwatchedKinds :
    /\ IF failed = {} THEN UNCHANGED faults
                      ELSE Fault("mapping") \/ Fault("watch")
    /\ watch' = [k \in Kinds |-> IF k \in UnwatchedKinds \ failed
                                   THEN "starting" ELSE watch[k]]

\* Get from the cache, early return when it is gone, ensureComponentWatches.
StartReconcile ==
  /\ pc = "idle" /\ queued
  /\ "stale" \in Enabled \/ seen = Len(store)
  /\ queued' = FALSE
  /\ IF Cached.live
       THEN /\ EnsureComponentWatches
            /\ pc' = "list"
            /\ job' = [IdleJob EXCEPT !.base = seen, !.began = now, !.todo = Kinds]
       ELSE UNCHANGED <<watch, faults, worker>>
  /\ UNCHANGED <<cluster, seen, timer, backoff, changes>>

\* One kind of fetchComponentListResources.  A failed List is an error; a
\* failed RESTMapping, possible until the mapping was once resolved, is not.
ListKind(k) ==
  /\ pc = "list" /\ k \in job.todo
  /\ \/ /\ job' = [job EXCEPT !.todo = @ \ {k},
                              !.found[k] = StatusOf(comp[k]),
                              !.errs = @ \/ comp[k] = "Broken"]
        /\ UNCHANGED faults
     \/ /\ Fault("list")
        /\ job' = [job EXCEPT !.todo = @ \ {k}, !.errs = TRUE]
     \/ /\ watch[k] = "no"
        /\ Fault("mapping")
        /\ job' = [job EXCEPT !.todo = @ \ {k}]
  /\ UNCHANGED <<cluster, seen, queue, watch, pc, changes>>

Base     == store[job.base]

\* Seeded fault: the resource version is taken for the generation.
ComputedWithVersion ==
  [NewStatus(Base, job.found, job.errs, now) EXCEPT !.observed = job.base]

\* Seeded fault: the generation is recorded with a new verdict only.
ComputedOnTransition ==
  LET new == NewStatus(Base, job.found, job.errs, now)
  IN  IF new.ready = Base.status.ready
        THEN [new EXCEPT !.observed = Base.status.observed] ELSE new

Computed == NewStatus(Base, job.found, job.errs, now)
Listed   == pc = "list" /\ job.todo = {}

Stabilizing ==
  TransitioningToReady(Computed, Base.status) /\ RemainingWait(Base.status) > 0

\* The status is what was read: nothing to write.
ReturnUnchanged ==
  /\ Listed /\ Computed = Base.status
  /\ timer' = IF job.errs THEN Earliest(now + ErrorRequeue) ELSE timer
  /\ Finish
  /\ UNCHANGED <<cluster, seen, queued, backoff, watch, changes, faults>>

\* A recovery within the stabilization period is not written yet.
ReturnStabilizing ==
  /\ Listed /\ Computed # Base.status /\ Stabilizing
  /\ timer' = Earliest(now + RemainingWait(Base.status))
  /\ Finish
  /\ UNCHANGED <<cluster, seen, queued, backoff, watch, changes, faults>>

BeginWrite ==
  /\ Listed /\ Computed # Base.status /\ ~Stabilizing
  /\ pc' = "get"
  /\ job' = [IdleJob EXCEPT !.base = job.base, !.began = job.began,
                            !.new = Computed]
  /\ UNCHANGED <<cluster, seen, queue, watch, changes, faults>>

\* updateApplicationStatus: the Get of one attempt, again from the cache.
GetOriginal ==
  /\ pc = "get"
  /\ IF Cached.live THEN pc' = "update" /\ job' = [job EXCEPT !.orig = seen]
                    ELSE Finish
  /\ UNCHANGED <<cluster, seen, queue, watch, changes, faults>>

Append1(v) == store' = Append(store, v)

\* Seeded fault: the write ignores the resource version.
UpdateForced ==
  /\ pc = "update"
  /\ Append1([Last EXCEPT !.status = job.new])
  /\ Finish
  /\ UNCHANGED <<comp, now, seen, queue, watch, changes, faults>>

\* Status().Update accepted: the resource version is current.  An update that
\* changes nothing makes no new version.
UpdateAccepted ==
  /\ pc = "update" /\ job.orig = Len(store)
  /\ IF Last.status = job.new THEN UNCHANGED store
                              ELSE Append1([Last EXCEPT !.status = job.new])
  /\ Finish
  /\ UNCHANGED <<comp, now, seen, queue, watch, changes, faults>>

\* Rejected with a conflict: RetryOnConflict reads again, then gives up.
UpdateConflict ==
  /\ pc = "update" /\ job.orig # Len(store) /\ Last.live
  /\ IF job.tries + 1 < MaxTries
       THEN /\ pc' = "get"
            /\ job' = [job EXCEPT !.orig = 0, !.tries = @ + 1]
            /\ UNCHANGED backoff
       ELSE Finish /\ backoff' = TRUE
  /\ UNCHANGED <<cluster, seen, queued, timer, watch, changes, faults>>

\* The Application is gone: nothing to update, no error.
UpdateNotFound ==
  /\ pc = "update" /\ job.orig # Len(store) /\ ~Last.live
  /\ Finish
  /\ UNCHANGED <<cluster, seen, queue, watch, changes, faults>>

\* Any other failure of the write goes back to the rate limiter.
UpdateFails ==
  /\ pc = "update" /\ Fault("write")
  /\ Finish /\ backoff' = TRUE
  /\ UNCHANGED <<cluster, seen, queued, timer, watch, changes>>

UpdateStep == UpdateAccepted \/ UpdateConflict \/ UpdateNotFound

Reconcile ==
  \/ StartReconcile \/ (\E k \in Kinds : ListKind(k))
  \/ ReturnUnchanged \/ ReturnStabilizing \/ BeginWrite
  \/ GetOriginal \/ UpdateStep \/ UpdateFails

-----------------------------------------------------------------------------
(* Informers and workqueue *)

\* The next version reaches the cache; every Application event enqueues.
AppInformer ==
  /\ seen < Len(store)
  /\ seen' = seen + 1 /\ Enqueue(TRUE)
  /\ UNCHANGED <<cluster, timer, backoff, watch, worker, changes, faults>>

\* The watch's handler is attached to the informer, which replays an Add for
\* the object it holds; applicationsForComponent maps it to the Application.
WatchSynced(k) ==
  /\ watch[k] = "starting"
  /\ watch' = [watch EXCEPT ![k] = "on"]
  /\ Enqueue(comp[k] # "Absent" /\ Cached.live)
  /\ UNCHANGED <<cluster, seen, timer, backoff, worker, changes, faults>>

TimerFires ==
  /\ timer # NoTimer /\ (now >= timer \/ now = Horizon)
  /\ timer' = NoTimer /\ Enqueue(TRUE)
  /\ UNCHANGED <<cluster, seen, backoff, watch, worker, changes, faults>>

BackoffExpires ==
  /\ backoff
  /\ backoff' = FALSE /\ Enqueue(TRUE)
  /\ UNCHANGED <<cluster, seen, timer, watch, worker, changes, faults>>

\* --sync-period: the Application informer replays what it holds.
Resync ==
  /\ "resync" \in Enabled /\ Cached.live
  /\ Enqueue(TRUE)
  /\ UNCHANGED <<cluster, seen, timer, backoff, watch, worker, changes, faults>>

\* The process dies and comes back: caches filled by a list of what there is, no
\* watch, one initial Add.
Restart ==
  /\ Fault("crash")
  /\ seen' = Len(store) /\ queued' = Last.live
  /\ timer' = NoTimer /\ backoff' = FALSE
  /\ watch' = [k \in Kinds |-> "no"]
  /\ Finish
  /\ UNCHANGED <<cluster, changes>>

-----------------------------------------------------------------------------
(* The cluster *)

Change == changes < MaxChanges /\ changes' = changes + 1

\* A component appears, changes or disappears.  With the watch attached the
\* event enqueues the Application its labels match, unless the lookup of the
\* Applications in the cache fails.
ComponentChange(k, s) ==
  /\ Change /\ s \in StatesOf(k) \ {comp[k]}
  /\ comp' = [comp EXCEPT ![k] = s]
  /\ \/ Enqueue(watch[k] = "on" /\ Cached.live) /\ UNCHANGED faults
     \/ watch[k] = "on" /\ Fault("lookup") /\ UNCHANGED queued
  /\ UNCHANGED <<store, now, seen, timer, backoff, watch, worker>>

SpecChange ==
  /\ Change /\ Last.live
  /\ Append1([Last EXCEPT !.gen = @ + 1])
  /\ UNCHANGED <<comp, now, seen, queue, watch, worker, faults>>

Delete ==
  /\ "delete" \in Enabled /\ Change /\ Last.live
  /\ Append1([Last EXCEPT !.live = FALSE])
  /\ UNCHANGED <<comp, now, seen, queue, watch, worker, faults>>

\* An Application of the same name is created again: a new object.
Recreate ==
  /\ "recreate" \in Enabled /\ Change /\ ~Last.live
  /\ Append1(Created(Last.uid + 1))
  /\ UNCHANGED <<comp, now, seen, queue, watch, worker, faults>>

Tick ==
  /\ now < Horizon
  /\ now' = now + 1
  /\ UNCHANGED <<comp, store, seen, queue, watch, worker, changes, faults>>

-----------------------------------------------------------------------------
Init ==
  /\ comp \in [Kinds -> CompState] /\ \A k \in Kinds : comp[k] \in StatesOf(k)
  /\ store = <<Created(1)>> /\ now = 0
  /\ seen = 1 /\ queued = TRUE /\ timer = NoTimer /\ backoff = FALSE
  /\ watch = [k \in Kinds |-> "no"]
  /\ pc = "idle" /\ job = IdleJob
  /\ changes = 0 /\ faults = 0

Environment ==
  \/ \E k \in Kinds, s \in CompState : ComponentChange(k, s)
  \/ SpecChange \/ Delete \/ Recreate \/ Tick \/ Restart

Delivery ==
  \/ AppInformer \/ (\E k \in Kinds : WatchSynced(k))
  \/ TimerFires \/ BackoffExpires \/ Resync

Next == Reconcile \/ Delivery \/ Environment

\* The worker goroutine, the informers and the workqueue keep running and
\* time passes; the cluster owes nobody a change or a failure.
Fairness ==
  /\ WF_vars(StartReconcile)
  /\ \A k \in Kinds : WF_vars(ListKind(k)) /\ WF_vars(WatchSynced(k))
  /\ WF_vars(ReturnUnchanged \/ ReturnStabilizing \/ BeginWrite)
  /\ WF_vars(GetOriginal) /\ WF_vars(UpdateStep)
  /\ WF_vars(AppInformer) /\ WF_vars(TimerFires) /\ WF_vars(BackoffExpires)
  /\ WF_vars(Resync) /\ WF_vars(Tick)

Spec     == Init /\ [][Next]_vars
FairSpec == Spec /\ Fairness

-----------------------------------------------------------------------------
(* Properties *)

TypeOK ==
  /\ comp \in [Kinds -> CompState] /\ \A k \in Kinds : comp[k] \in StatesOf(k)
  /\ store \in Seq(Version) /\ Len(store) >= 1
  /\ now \in Nat /\ seen \in 1..Len(store)
  /\ queued \in BOOLEAN /\ timer \in Nat \cup {NoTimer} /\ backoff \in BOOLEAN
  /\ watch \in [Kinds -> {"no", "starting", "on"}]
  /\ pc \in {"idle", "list", "get", "update"} /\ job \in Job
  /\ pc # "idle" => job.base \in 1..seen
  /\ pc = "update" => job.orig \in 1..seen
  /\ changes \in Nat /\ faults \in Nat

\* Nothing is left that would make the controller reconcile again (the
\* resync apart).
AtRest ==
  /\ pc = "idle" /\ ~queued /\ timer = NoTimer /\ ~backoff
  /\ seen = Len(store) /\ \A k \in Kinds : watch[k] # "starting"

\* No lost wake-up: a controller at rest has reported the current spec and
\* the current state of every existing workload it watches, so that no change
\* has to wait for the resync (ensureComponentWatches, ADR-0004); and it does
\* not rest on components that failed: they are looked at again (RequeueAfter).
RestImpliesReported ==
  AtRest /\ Last.live =>
    /\ Last.status.observed = Last.gen /\ Last.status.ready # "Unknown"
    /\ \A k \in Workloads : watch[k] = "on" /\ comp[k] # "Absent" =>
         Last.status.objects[k] = StatusOf(comp[k])

\* The verdict and the component list of a stored status belong together,
\* although spec changes, conflicts and retries come between the listing and
\* the write: unless Ready is Unknown, only a workload can be, and Ready is True
\* exactly when every listed workload is Ready (getNewApplicationStatus).
Coherent(st) ==
  st.ready \in {"True", "False"} =>
    /\ \A k \in Infra : st.objects[k] # "Unknown"
    /\ st.ready = "True" <=>
         \A k \in Workloads : st.objects[k] \in {"Absent", "Ready"}

StatusCoherent == \A i \in 1..Len(store) : Coherent(store[i].status)

\* The observed generation never runs ahead of the object's generation.
ObservedGenBounded ==
  \A i \in 1..Len(store) : store[i].status.observed <= store[i].gen

\* While an Application lives, the generation its status claims to have
\* observed never goes back, however far the cache lags.
ObservedGenNeverRegresses ==
  [][Last'.uid = Last.uid =>
       Last'.status.observed >= Last.status.observed]_store

\* lastTransitionTime is the time of the last transition: when the Ready status
\* of an Application changes it becomes a time between the begin of the reconcile
\* that found the change and its write, however often the write was retried;
\* else it stays (setCondition).  A reconcile that was begun for an earlier
\* object of the same name may bring that object's older time along.
TransitionTimeFaithful ==
  [][Last'.uid = Last.uid =>
       /\ Last'.status.since >= Last.status.since
       /\ IF Last'.status.ready = Last.status.ready
            THEN Last'.status.since = Last.status.since
            ELSE Base.uid = Last.uid =>
                   Last'.status.since \in job.began..now]_store

\* A not-Ready Application is not reported Ready before it has been not-Ready
\* for the stabilization period.
Stabilized ==
  [][Last'.uid = Last.uid
       /\ Last.status.ready \in {"False", "Unknown"} /\ Last'.status.ready = "True"
       /\ now # Horizon
     => now - Last.status.since >= Period]_store

\* The report that a reconcile prepares: found while it lists, and part of the
\* computed status from then on.
Draft ==
  IF pc = "idle"
    THEN [uid |-> 0, gen |-> 0, begun |-> 0, todo |-> {},
          found |-> IdleJob.found, trouble |-> FALSE]
  ELSE IF pc = "list"
    THEN [uid |-> Base.uid, gen |-> Base.gen, begun |-> job.began,
          todo |-> job.todo, found |-> job.found, trouble |-> job.errs]
  ELSE [uid |-> Base.uid, gen |-> Base.gen, begun |-> job.began, todo |-> {},
        found |-> job.new.objects, trouble |-> job.new.ready = "Unknown"]

\* The kinds that fetchComponentListResources may leave out without an error.
Unserved == IF "mapping" \in Enabled THEN Kinds ELSE {}

\* With reconciles that start from a current cache, two cached reads, a computed
\* status that is kept over conflicts and retries, and restarts at any point
\* look to the reader of the status like one report at a time, made from one
\* look at each component since the report before (Reconcile,
\* updateApplicationStatus).
Contract == INSTANCE StatusContract WITH app <- Last, draft <- Draft
ImplementsContract == Contract!Spec

Verdict ==
  IF \E k \in Kinds : comp[k] = "Broken" THEN "Unknown"
  ELSE IF \A k \in Workloads : comp[k] \in {"Absent", "Ready"} THEN "True"
  ELSE "False"

Reported ==
  Last.live =>
    /\ Last.status.observed = Last.gen
    /\ \A k \in Kinds : Last.status.objects[k] = StatusOf(comp[k])
    /\ Last.status.ready = Verdict

\* With the resync the whole status is right eventually, whatever event, watch
\* or write was missed on the way (--sync-period).
EventuallyReported == <>[]Reported
=============================================================================
