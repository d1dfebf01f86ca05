-------------------------- MODULE ComponentWatches --------------------------
(***************************************************************************)
(* Concurrent reconciles of several Applications that share one registry   *)
(* of dynamic watches (controllers/application_controller.go,              *)
(* ensureComponentWatches and applicationsForComponent): which of them     *)
(* registers a watch, what a failed Watch() leaves behind, and which       *)
(* Applications an event of a component wakes.                             *)
(*                                                                         *)
(* Abstractions: a component is a state and the set of Applications whose  *)
(* selectors match its labels, both as the informer caches hold them; the  *)
(* rest of a reconcile is its List and its write (ApplicationController    *)
(* has the details); only kinds that decide readiness are here, as the     *)
(* code watches no other.                                                  *)
(***************************************************************************)
EXTENDS Integers, FiniteSets

CONSTANTS
  Apps, Kinds, Comps,
  Declared,    \* the workload kinds each Application declares
  KindOf,      \* the kind of each component
  States,      \* what status() makes of a component
  Gone,        \* the component does not exist
  NoKind,
  Workers,     \* MaxConcurrentReconciles
  MaxChanges,  \* bound on the changes of components
  MaxFaults    \* bound on failures and restarts

ASSUME WatchesAssumption ==
  /\ Declared \in [Apps -> SUBSET Kinds] /\ KindOf \in [Comps -> Kinds]
  /\ Gone \notin States /\ NoKind \notin Kinds
  /\ Workers \in Nat \ {0} /\ MaxChanges \in Nat /\ MaxFaults \in Nat

VARIABLES
  comp,      \* the components
  registry,  \* watchedKinds
  starting,  \* kinds whose source is started but has no handler yet
  attached,  \* kinds whose handler is attached to the informer
  starts,    \* history: watches started for each kind by this process
  queue,     \* the workqueue
  at,        \* where the reconcile of each Application is
  todo,      \* kinds ensureComponentWatches has still to look at
  holding,   \* the kind whose entry it has stored and whose watch it starts
  listed,    \* what the List calls returned
  report,    \* the component list in each Application's status
  lacking,   \* history: kinds that a mapping or a Watch() has failed for
  missed,    \* history: components each Application got no event of, because
             \* the lookup of Applications failed, since its last List
  changes, faults

watches == <<registry, starting, attached, starts, lacking>>
worker  == <<at, todo, holding, listed>>
vars == <<comp, registry, starting, attached, starts, queue, at, todo, holding,
          listed, report, lacking, missed, changes, faults>>

Component == [state : States \cup {Gone}, matches : SUBSET Apps]
Listing   == [Comps -> States \cup {Gone}]

Fault == faults < MaxFaults /\ faults' = faults + 1

Live(c) == comp[c].state # Gone

\* fetchComponentListResources: the components of the declared kinds that the
\* selector matches.
Matching(a) ==
  [c \in Comps |-> IF KindOf[c] \in Declared[a] /\ a \in comp[c].matches
                     THEN comp[c].state ELSE Gone]

\* Seeded fault: an event wakes one of the Applications that match.
WokenByFirst(component, found) ==
  IF component.state = Gone \/ ~found \/ component.matches = {} THEN {}
  ELSE {CHOOSE a \in component.matches : TRUE}

\* applicationsForComponent: the Applications that match, or nobody when it
\* cannot list the Applications (found is FALSE).
WokenBy(component, found) ==
  IF component.state = Gone \/ ~found THEN {} ELSE component.matches

\* The handler maps objects, pairs of a component and what it looks like, each
\* with a lookup of its own.  A lookup that fails loses its event for good:
\* applicationsForComponent returns nil and nothing tries again.
Deliver(objects) ==
  \E lost \in SUBSET {o \in objects : o[2].state # Gone} :
    LET woken == UNION {WokenBy(o[2], o \notin lost) : o \in objects} IN
    /\ queue' = queue \cup woken
    /\ missed' = [a \in Apps |-> missed[a] \cup
                    {o[1] : o \in {x \in lost : a \in x[2].matches \ woken}}]
    /\ IF lost = {} THEN UNCHANGED faults ELSE Fault

-----------------------------------------------------------------------------
(* A reconcile *)

Busy == {a \in Apps : at[a] # "idle"}

Begin(a) ==
  /\ a \in queue /\ at[a] = "idle" /\ Cardinality(Busy) < Workers
  /\ queue' = queue \ {a}
  /\ at' = [at EXCEPT ![a] = "ensure"]
  /\ todo' = [todo EXCEPT ![a] = Declared[a]]
  /\ UNCHANGED <<comp, watches, holding, listed, report, missed, changes, faults>>

Looking(a, k) == at[a] = "ensure" /\ k \in todo[a] /\ holding[a] = NoKind

Done(a, k) == todo' = [todo EXCEPT ![a] = @ \ {k}]

\* RESTMapping fails: the kind is skipped.
MappingFails(a, k) ==
  /\ Looking(a, k) /\ Fault
  /\ Done(a, k) /\ lacking' = lacking \cup {k}
  /\ UNCHANGED <<comp, registry, starting, attached, starts, queue, at,
                 holding, listed, report, missed, changes>>

\* LoadOrStore finds an entry.
AlreadyWatched(a, k) ==
  /\ Looking(a, k) /\ k \in registry
  /\ Done(a, k)
  /\ UNCHANGED <<comp, watches, queue, at, holding, listed, report, missed,
                 changes, faults>>

\* Seeded fault: the entry is looked up here and stored after the watch.
ClaimUnstored(a, k) ==
  /\ Looking(a, k) /\ k \notin registry
  /\ holding' = [holding EXCEPT ![a] = k]
  /\ UNCHANGED <<comp, watches, queue, at, todo, listed, report, missed,
                 changes, faults>>

\* LoadOrStore stores the entry.
Claim(a, k) ==
  /\ Looking(a, k) /\ k \notin registry
  /\ registry' = registry \cup {k}
  /\ holding' = [holding EXCEPT ![a] = k]
  /\ UNCHANGED <<comp, starting, attached, starts, queue, at, todo, listed,
                 report, lacking, missed, changes, faults>>

Release(a) ==
  /\ holding' = [holding EXCEPT ![a] = NoKind]
  /\ Done(a, holding[a])

\* controller.Watch starts the source.
WatchStarts(a) ==
  /\ holding[a] # NoKind
  /\ starting' = starting \cup {holding[a]}
  /\ starts' = [starts EXCEPT ![holding[a]] = @ + 1]
  /\ registry' = registry \cup {holding[a]}
  /\ Release(a)
  /\ UNCHANGED <<comp, attached, queue, at, listed, report, lacking, missed,
                 changes, faults>>

\* Seeded fault: a failed Watch() leaves its entry.
WatchFailsKept(a) ==
  /\ holding[a] # NoKind /\ Fault
  /\ lacking' = lacking \cup {holding[a]}
  /\ Release(a)
  /\ UNCHANGED <<comp, registry, starting, attached, starts, queue, at,
                 listed, report, missed, changes>>

\* Watch() fails: the entry is rolled back.
WatchFails(a) ==
  /\ holding[a] # NoKind /\ Fault
  /\ registry' = registry \ {holding[a]}
  /\ lacking' = lacking \cup {holding[a]}
  /\ Release(a)
  /\ UNCHANGED <<comp, starting, attached, starts, queue, at, listed, report,
                 missed, changes>>

\* Seeded fault: the List does not wait for ensureComponentWatches.
ListAtOnce(a) ==
  /\ at[a] = "ensure"
  /\ at' = [at EXCEPT ![a] = "write"]
  /\ listed' = [listed EXCEPT ![a] = Matching(a)]
  /\ missed' = [missed EXCEPT ![a] = {}]
  /\ UNCHANGED <<comp, watches, queue, todo, holding, report, changes, faults>>

List(a) ==
  /\ at[a] = "ensure" /\ todo[a] = {}
  /\ at' = [at EXCEPT ![a] = "write"]
  /\ listed' = [listed EXCEPT ![a] = Matching(a)]
  /\ missed' = [missed EXCEPT ![a] = {}]
  /\ UNCHANGED <<comp, watches, queue, todo, holding, report, changes, faults>>

Finish(a) == at' = [at EXCEPT ![a] = "idle"]

Write(a) ==
  /\ at[a] = "write" /\ Finish(a)
  /\ report' = [report EXCEPT ![a] = listed[a]]
  /\ UNCHANGED <<comp, watches, queue, todo, holding, listed, missed, changes,
                 faults>>

\* The write fails and the key comes back through the rate limiter.
WriteFails(a) ==
  /\ at[a] = "write" /\ Fault /\ Finish(a)
  /\ queue' = queue \cup {a}
  /\ UNCHANGED <<comp, watches, todo, holding, listed, report, missed, changes>>

-----------------------------------------------------------------------------
(* Events *)

\* The handler is attached and gets an Add for every object of the informer.
Attach(k) ==
  /\ k \in starting
  /\ starting' = starting \ {k} /\ attached' = attached \cup {k}
  /\ Deliver({<<c, comp[c]>> : c \in {d \in Comps : KindOf[d] = k}})
  /\ UNCHANGED <<comp, registry, starts, lacking, worker, report, changes>>

\* A component appears, changes state or labels, or goes.  The handler maps
\* the old object and the new one.
Change(c, new) ==
  /\ changes < MaxChanges /\ changes' = changes + 1 /\ new # comp[c]
  /\ comp' = [comp EXCEPT ![c] = new]
  /\ IF KindOf[c] \in attached THEN Deliver({<<c, comp[c]>>, <<c, new>>})
     ELSE UNCHANGED <<queue, missed, faults>>
  /\ UNCHANGED <<watches, worker, report>>

\* The process restarts: no watches, and an Add for every Application.
Restart ==
  /\ Fault
  /\ registry' = {} /\ starting' = {} /\ attached' = {} /\ lacking' = {}
  /\ starts' = [k \in Kinds |-> 0]
  /\ queue' = Apps
  /\ at' = [a \in Apps |-> "idle"] /\ todo' = [a \in Apps |-> {}]
  /\ holding' = [a \in Apps |-> NoKind] /\ missed' = [a \in Apps |-> {}]
  /\ UNCHANGED <<comp, listed, report, changes>>

\* --sync-period
Resync ==
  /\ queue' = Apps
  /\ UNCHANGED <<comp, watches, worker, report, missed, changes, faults>>

-----------------------------------------------------------------------------
Nothing == [c \in Comps |-> Gone]

Init ==
  /\ comp \in [Comps -> Component]
  /\ registry = {} /\ starting = {} /\ attached = {} /\ lacking = {}
  /\ starts = [k \in Kinds |-> 0]
  /\ queue = Apps
  /\ at = [a \in Apps |-> "idle"] /\ todo = [a \in Apps |-> {}]
  /\ holding = [a \in Apps |-> NoKind]
  /\ listed = [a \in Apps |-> Nothing] /\ report = [a \in Apps |-> Nothing]
  /\ missed = [a \in Apps |-> {}]
  /\ changes = 0 /\ faults = 0

Reconcile(a) ==
  \/ Begin(a)
  \/ \E k \in Kinds : MappingFails(a, k) \/ AlreadyWatched(a, k) \/ Claim(a, k)
  \/ WatchStarts(a) \/ WatchFails(a)
  \/ List(a) \/ Write(a) \/ WriteFails(a)

Next ==
  \/ \E a \in Apps : Reconcile(a)
  \/ \E k \in Kinds : Attach(k)
  \/ \E c \in Comps, new \in Component : Change(c, new)
  \/ Restart \/ Resync

Spec == Init /\ [][Next]_vars

-----------------------------------------------------------------------------
(* Properties *)

TypeOK ==
  /\ comp \in [Comps -> Component]
  /\ registry \subseteq Kinds /\ starting \subseteq Kinds
  /\ attached \subseteq Kinds /\ lacking \subseteq Kinds
  /\ starts \in [Kinds -> Nat] /\ queue \subseteq Apps
  /\ at \in [Apps -> {"idle", "ensure", "write"}]
  /\ todo \in [Apps -> SUBSET Kinds]
  /\ holding \in [Apps -> Kinds \cup {NoKind}]
  /\ \A a \in Apps : holding[a] # NoKind => at[a] = "ensure" /\ holding[a] \in todo[a]
  /\ listed \in [Apps -> Listing] /\ report \in [Apps -> Listing]
  /\ missed \in [Apps -> SUBSET Comps]
  /\ changes \in Nat /\ faults \in Nat

\* Each kind is watched exactly once for the lifetime of the process, however
\* many Applications reconcile at the same time and whatever fails (the
\* comment of watchedKinds).
WatchedOnce == \A k \in Kinds : starts[k] <= 1

AtRest == queue = {} /\ Busy = {} /\ starting = {}

\* The registry tells the truth: an entry without a watch belongs to a
\* reconcile that is about to start it or to roll it back, so that a failed
\* Watch() never keeps a kind unwatched for good.
RegistryFaithful ==
  \A k \in registry : k \in starting \cup attached \/ \E a \in Apps : holding[a] = k

\* Also the Applications that found another one's entry and went on are woken
\* by that watch: at rest each report shows the components it should of the
\* kinds that are watched, and the unwatched kinds are those that something
\* failed for.  Excused are the components whose event applicationsForComponent
\* dropped because its own List failed (nothing retries it before the next
\* resync), and only until the Application lists again.  (A component that
\* leaves before the handler is attached gives no event: its entry stays in
\* the report until the next resync.)
WatchedIsReported ==
  AtRest => \A a \in Apps :
    /\ Declared[a] \subseteq attached \cup lacking
    /\ \A c \in Comps \ missed[a] :
         KindOf[c] \in attached /\ Matching(a)[c] # Gone =>
           report[a][c] = Matching(a)[c]
=============================================================================
