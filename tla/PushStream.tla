----------------------------- MODULE PushStream -----------------------------
(***************************************************************************)
(* The data path of the Pusher (push/pusher.go): informer callbacks fill a *)
(* bounded queue, a connection sends hello, a chunked snapshot and then    *)
(* what the queue holds, and the hub keeps a view of the Applications.     *)
(*                                                                         *)
(* Abstractions: the content of an Application is a model value; an add    *)
(* and an update are one kind of note, because the hub stores the object   *)
(* of either; a note whose content is Absent is a delete.  Heartbeats are  *)
(* left out (no state).  A connection whose link is broken loses what is   *)
(* written to it until the agent notices.  The hub is external, taken from *)
(* the protocol: it stores what a snapshot or delta carries and drops at   *)
(* snapshot_end what the snapshot did not list.                            *)
(***************************************************************************)
EXTENDS Integers, Sequences, FiniteSets, SequencesExt

CONSTANTS
  Apps,         \* Applications of the cluster
  Contents,     \* what an existing Application may look like
  Lists,        \* the List calls of a snapshot: one set of Applications per
                \* watched namespace, or {Apps} for all namespaces
  Capacity,     \* capacity of the send channel (4096)
  Chunk,        \* SnapshotChunk
  Absent, Tombstone, Other, NoNote,
  MaxChanges,   \* bound on the changes of Applications
  MaxFailures,  \* bound on broken links and failing calls
  MaxExtras,    \* bound on event and log_metrics frames
  Enabled       \* which races this instance admits

ASSUME StreamAssumption ==
  /\ Lists \subseteq SUBSET Apps /\ IsFiniteSet(Apps)
  /\ Capacity \in Nat \ {0} /\ Chunk \in Nat \ {0}
  /\ Absent \notin Contents /\ Tombstone \notin Contents \cup {Absent}
  /\ Other \notin [app : Apps, val : Contents \cup {Absent, Tombstone}]
  /\ MaxChanges \in Nat /\ MaxFailures \in Nat /\ MaxExtras \in Nat
  /\ Enabled \subseteq {"resync", "tombstone", "late"}

VARIABLES
  cache,     \* the informer cache
  pending,   \* notifications of the registered listener; the first one may
             \* be in its callback
  late,      \* the note a callback of a removed handler still carries
  queue,     \* the current sendC
  made,      \* sendC is not nil
  dropped,   \* droppedFrames is not 0
  phase,     \* where runOnce is
  link,      \* what the agent writes reaches the hub
  unlisted,  \* List calls the snapshot has still to make
  listed,    \* what they returned
  unsent,    \* listed Applications not written yet
  view,      \* the hub's inventory of this cluster
  recent,    \* history: what each Application looked like since the dial
  changes, failures, extras

cluster  == <<cache, recent>>
informer == <<pending, late>>
outbound == <<queue, dropped>>
snapshot == <<unlisted, listed, unsent>>
vars == <<cache, pending, late, queue, made, dropped, phase, link, unlisted,
          listed, unsent, view, recent, changes, failures, extras>>

-----------------------------------------------------------------------------
(* Data *)

Content == Contents \cup {Absent}
Note    == [app : Apps, val : Content \cup {Tombstone}]
Frame   == [app : Apps, val : Content] \cup {Other}

NoApps  == [a \in Apps |-> Absent]
Present == {a \in Apps : cache[a] # Absent}

\* Seeded fault: the callbacks do not look at the namespace.
InScopeAlways(a) == TRUE

InScope(a) == a \in UNION Lists

\* Seeded fault: the handlers are added once the snapshot is out.
RegisteredAfterSnapshot == phase = "streaming"

\* The informer handlers are registered from registerHandlers to the deferred
\* removeHandlers.
Registered == phase \in {"registered", "snapshot", "streaming"}

Notify(a, v) ==
  pending' = IF Registered THEN Append(pending, [app |-> a, val |-> v])
                           ELSE pending

\* Seeded fault: the send queue grows without a bound.
EnqueueAlways(f) == queue' = Append(queue, f) /\ UNCHANGED dropped

\* enqueue: a full channel drops the frame that is offered.
Enqueue(f) ==
  IF Len(queue) < Capacity
    THEN queue' = Append(queue, f) /\ UNCHANGED dropped
    ELSE dropped' = TRUE /\ UNCHANGED queue

\* onApp: what is not an Application (a tombstone), or is out of scope, is
\* ignored.
OnApp(n) ==
  IF n.val # Tombstone /\ InScope(n.app) THEN Enqueue(n)
                                         ELSE UNCHANGED outbound

\* What reaches the hub of a write.
Receive(newView) == view' = IF link = "up" THEN newView ELSE view

-----------------------------------------------------------------------------
(* The cluster and the informer *)

Change == changes < MaxChanges /\ changes' = changes + 1

AppChange(a, v) ==
  /\ Change /\ v # cache[a]
  /\ cache' = [cache EXCEPT ![a] = v]
  /\ recent' = [recent EXCEPT ![a] = @ \cup {v}]
  /\ Notify(a, v)
  /\ UNCHANGED <<late, outbound, made, phase, link, snapshot, view, failures,
                 extras>>

\* The watch missed a deletion; the relist hands the handlers a
\* DeletedFinalStateUnknown instead of the Application.
MissedDelete(a) ==
  /\ "tombstone" \in Enabled /\ Change /\ cache[a] # Absent
  /\ cache' = [cache EXCEPT ![a] = Absent]
  /\ recent' = [recent EXCEPT ![a] = @ \cup {Absent}]
  /\ Notify(a, Tombstone)
  /\ UNCHANGED <<late, outbound, made, phase, link, snapshot, view, failures,
                 extras>>

\* One notification for each Application of the cache, in any order.
Replay == \E s \in SetToSeqs(Present) :
  pending' = pending \o [i \in DOMAIN s |-> [app |-> s[i], val |-> cache[s[i]]]]

\* --sync-period (120 s by default): taken to be longer than the stream needs
\* to drain, and its burst to be queued before another change.
Resync ==
  /\ "resync" \in Enabled /\ phase = "streaming"
  /\ pending = <<>> /\ queue = <<>> /\ Present # {}
  /\ Replay
  /\ UNCHANGED <<cluster, late, outbound, made, phase, link, snapshot, view,
                 changes, failures, extras>>

Callback ==
  /\ pending # <<>>
  /\ pending' = Tail(pending) /\ OnApp(Head(pending))
  /\ UNCHANGED <<cluster, late, made, phase, link, snapshot, view, changes,
                 failures, extras>>

\* A callback that was running when its handler was removed reaches enqueue,
\* which takes the channel of whatever connection there is by now.
LateCallback ==
  /\ late # NoNote
  /\ late' = NoNote /\ OnApp(late)
  /\ UNCHANGED <<cluster, pending, made, phase, link, snapshot, view, changes,
                 failures, extras>>

\* A Warning event (while the handlers are registered) or SendLogMetrics
\* (whenever there is a channel).
OtherFrame ==
  /\ made /\ extras < MaxExtras
  /\ extras' = extras + 1 /\ Enqueue(Other)
  /\ UNCHANGED <<cluster, informer, made, phase, link, snapshot, view,
                 changes, failures>>

-----------------------------------------------------------------------------
(* The connection: runOnce *)

\* Seeded fault: one send channel for the life of the process.
DialKeepingQueue ==
  /\ phase = "down"
  /\ phase' = "dialed" /\ link' = "up"
  /\ made' = TRUE /\ dropped' = FALSE
  /\ recent' = [a \in Apps |-> {cache[a]}]
  /\ UNCHANGED <<cache, informer, queue, snapshot, view, changes, failures,
                 extras>>

\* The dial succeeds: a fresh channel, and its drops counted from 0.
Dial ==
  /\ phase = "down"
  /\ phase' = "dialed" /\ link' = "up"
  /\ queue' = <<>> /\ made' = TRUE /\ dropped' = FALSE
  /\ recent' = [a \in Apps |-> {cache[a]}]
  /\ UNCHANGED <<cache, informer, snapshot, view, changes, failures, extras>>

\* AddEventHandler replays what the cache holds.
RegisterHandlers ==
  /\ phase = "dialed"
  /\ phase' = "registered" /\ Replay
  /\ UNCHANGED <<cluster, late, outbound, made, link, snapshot, view, changes,
                 failures, extras>>

\* hello, after which sendSnapshot starts to list.
SendHello ==
  /\ phase = "registered"
  /\ phase' = "snapshot"
  /\ unlisted' = Lists /\ listed' = NoApps /\ unsent' = {}
  /\ UNCHANGED <<cluster, informer, outbound, made, link, view, changes,
                 failures, extras>>

\* listApps, one namespace after another.
ListNamespace(l) ==
  /\ phase = "snapshot" /\ l \in unlisted
  /\ unlisted' = unlisted \ {l}
  /\ listed' = [a \in Apps |-> IF a \in l THEN cache[a] ELSE listed[a]]
  /\ unsent' = unsent \cup (l \cap Present)
  /\ UNCHANGED <<cluster, informer, outbound, made, phase, link, view, changes,
                 failures, extras>>

\* One snapshot frame of at most SnapshotChunk Applications.
WriteChunk(c) ==
  /\ phase = "snapshot" /\ unlisted = {} /\ unsent # {}
  /\ c \subseteq unsent
  /\ Cardinality(c) = Chunk \/ (c = unsent /\ Cardinality(c) < Chunk)
  /\ unsent' = unsent \ c
  /\ Receive([a \in Apps |-> IF a \in c THEN listed[a] ELSE view[a]])
  /\ UNCHANGED <<cluster, informer, outbound, made, phase, link, unlisted,
                 listed, changes, failures, extras>>

\* Seeded fault: snapshot_end follows each namespace.
WriteEndPerNamespace ==
  /\ phase = "snapshot" /\ unlisted # Lists /\ unsent = {}
  /\ phase' = IF unlisted = {} THEN "streaming" ELSE "snapshot"
  /\ Receive([a \in Apps |-> IF listed[a] = Absent THEN Absent ELSE view[a]])
  /\ listed' = NoApps
  /\ UNCHANGED <<cluster, informer, outbound, made, link, unlisted, unsent,
                 changes, failures, extras>>

\* snapshot_end: the hub drops what the snapshot did not list.
WriteEnd ==
  /\ phase = "snapshot" /\ unlisted = {} /\ unsent = {}
  /\ phase' = "streaming"
  /\ Receive([a \in Apps |-> IF listed[a] = Absent THEN Absent ELSE view[a]])
  /\ listed' = NoApps
  /\ UNCHANGED <<cluster, informer, outbound, made, link, unlisted, unsent,
                 changes, failures, extras>>

\* writeLoop: the oldest frame of the queue.
WriteFrame ==
  /\ phase = "streaming" /\ queue # <<>>
  /\ queue' = Tail(queue)
  /\ Receive(IF Head(queue) = Other THEN view
             ELSE [view EXCEPT ![Head(queue).app] = Head(queue).val])
  /\ UNCHANGED <<cluster, informer, made, dropped, phase, link, snapshot,
                 changes, failures, extras>>

\* runOnce returns: removeHandlers discards the notifications, but not the
\* callback that is running.  sendC stays as it is.
EndConnection ==
  /\ phase' = "down"
  /\ pending' = <<>>
  /\ late' \in {late} \cup
       (IF "late" \in Enabled /\ pending # <<>> THEN {Head(pending)} ELSE {})
  /\ unlisted' = {} /\ listed' = NoApps /\ unsent' = {}
  /\ UNCHANGED <<cluster, outbound, made, link, view, changes, extras>>

Fail == failures < MaxFailures /\ failures' = failures + 1

LinkBreaks ==
  /\ phase # "down" /\ link = "up" /\ Fail
  /\ link' = "broken"
  /\ UNCHANGED <<cluster, informer, outbound, made, phase, snapshot, view,
                 changes, extras>>

\* A write fails, or the read loop meets the closed connection or its read
\* deadline and cancels.
ConnectionLost ==
  phase # "down" /\ link = "broken" /\ EndConnection /\ UNCHANGED failures

RegisterFails == phase = "dialed" /\ Fail /\ EndConnection

\* Seeded fault: a namespace that cannot be listed is left out.
ListFailsSilently ==
  /\ phase = "snapshot" /\ unlisted # {} /\ Fail
  /\ \E l \in unlisted : unlisted' = unlisted \ {l}
  /\ UNCHANGED <<cluster, informer, outbound, made, phase, link, listed,
                 unsent, view, changes, extras>>

\* A failed List ends the connection before any snapshot frame.
ListFails == phase = "snapshot" /\ unlisted # {} /\ Fail /\ EndConnection

-----------------------------------------------------------------------------
Init ==
  /\ cache \in [Apps -> Content]
  /\ view \in {v \in [Apps -> Content] :
                 \A a \in Apps \ UNION Lists : v[a] = Absent}
  /\ pending = <<>> /\ late = NoNote
  /\ queue = <<>> /\ made = FALSE /\ dropped = FALSE
  /\ phase = "down" /\ link = "up"
  /\ unlisted = {} /\ listed = NoApps /\ unsent = {}
  /\ recent = [a \in Apps |-> {}]
  /\ changes = 0 /\ failures = 0 /\ extras = 0

Informer ==
  \/ \E a \in Apps, v \in Content : AppChange(a, v)
  \/ \E a \in Apps : MissedDelete(a)
  \/ Resync \/ Callback \/ LateCallback \/ OtherFrame

Connection ==
  \/ Dial \/ RegisterHandlers \/ SendHello
  \/ (\E l \in Lists : ListNamespace(l))
  \/ (\E c \in SUBSET Apps : WriteChunk(c))
  \/ WriteEnd \/ WriteFrame
  \/ LinkBreaks \/ ConnectionLost \/ RegisterFails \/ ListFails

Next == Informer \/ Connection

\* The informer's goroutines and the connect loop keep running, the hub can
\* be reached again after each of the failures, and a broken link is noticed
\* (read deadline of three heartbeats).  Nobody owes a change or a failure.
Fairness ==
  /\ WF_vars(Callback) /\ WF_vars(LateCallback) /\ WF_vars(Resync)
  /\ WF_vars(Dial) /\ WF_vars(RegisterHandlers) /\ WF_vars(SendHello)
  /\ WF_vars(\E l \in Lists : ListNamespace(l))
  /\ WF_vars(\E c \in SUBSET Apps : WriteChunk(c))
  /\ WF_vars(WriteEnd) /\ WF_vars(WriteFrame) /\ WF_vars(ConnectionLost)

Spec     == Init /\ [][Next]_vars
FairSpec == Spec /\ Fairness

-----------------------------------------------------------------------------
(* Properties *)

TypeOK ==
  /\ cache \in [Apps -> Content] /\ view \in [Apps -> Content]
  /\ pending \in Seq(Note) /\ late \in Note \cup {NoNote}
  /\ queue \in Seq(Frame) /\ Len(queue) <= Capacity
  /\ made \in BOOLEAN /\ dropped \in BOOLEAN
  /\ phase \in {"down", "dialed", "registered", "snapshot", "streaming"}
  /\ link \in {"up", "broken"}
  /\ unlisted \subseteq Lists /\ listed \in [Apps -> Content]
  /\ unsent \subseteq UNION Lists
  /\ recent \in [Apps -> SUBSET Content]
  /\ changes \in Nat /\ failures \in Nat /\ extras \in Nat

Wanted(a) == IF a \in UNION Lists THEN cache[a] ELSE Absent

\* No gap and no stale rest: once a streaming connection that dropped nothing
\* has drained, the hub's inventory is the cache's, whatever changed while
\* handlers were registered, namespaces listed and the snapshot written
\* (runOnce: handlers first, then the snapshot, then the queue).
DrainedMeansMirrored ==
  phase = "streaming" /\ link = "up" /\ ~dropped
      /\ pending = <<>> /\ queue = <<>>
    => \A a \in Apps : view[a] = Wanted(a)

\* The hub loses an Application only if the cache was without it at some time
\* of the current connection: neither a failed listing, nor a connection that
\* ends in the middle of a snapshot, removes what exists (sendSnapshot).
RemovalJustified ==
  [][\A a \in Apps : view[a] # Absent /\ view'[a] = Absent => Absent \in recent[a]]_view

\* When the cluster is quiet and the connection that remains has dropped no
\* frame, the hub ends up with the cache's inventory, whatever connections
\* were lost before (Start: reconnect and re-snapshot).
EventuallyMirrored ==
  <>[](~dropped => \A a \in Apps : view[a] = Wanted(a))

\* The stream implements the promise: whatever is listed, queued, replayed or
\* lost, an Application in the hub's view looks as it did at some time of the
\* connection that brought it, never as it did before (runOnce: a fresh queue
\* for each connection), and the view catches up.
Mirror == INSTANCE HubMirror WITH Scope <- UNION Lists, lossy <- dropped
ImplementsMirror == Mirror!FairSpec

\* Even when frames are dropped, the resync of the informer brings the hub to
\* the right content of every Application that exists; deletes are not
\* replayed.
ExistingEventuallyMirrored ==
  \A a \in Apps : <>[](cache[a] # Absent => view[a] = Wanted(a))

\* Nothing is queued while push mode is disconnected (SendLogMetrics).
NothingQueuedWhenDisconnected ==
  [][phase = "down" => Len(queue') <= Len(queue)]_queue
=============================================================================
