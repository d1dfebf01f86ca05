-------------------------- MODULE PushStreamProofs --------------------------
(***************************************************************************)
(* Theorems about PushStream, for any Applications, contents, namespaces,  *)
(* capacity, chunk size and bounds: its type correctness, that it          *)
(* implements the safety part of HubMirror, and that a connection which    *)
(* drained without a drop leaves the hub with what the cache holds.        *)
(***************************************************************************)
EXTENDS PushStream, SequenceTheorems, FiniteSetTheorems, TLAPS

-----------------------------------------------------------------------------
(* Lemmas *)

\* The head and tail of a queue that is not empty (writeLoop, onApp).
LEMMA HeadTail ==
  ASSUME NEW S, NEW q \in Seq(S), q # <<>>
  PROVE  Head(q) \in S /\ Tail(q) \in Seq(S) /\ Len(Tail(q)) = Len(q) - 1
  BY HeadTailProperties

\* A function on an interval is a sequence (the replay of AddEventHandler).
LEMMA FunctionIsSeq ==
  ASSUME NEW S, NEW n \in Nat, NEW r \in [1..n -> S]
  PROVE  r \in Seq(S) /\ Len(r) = n
  OBVIOUS

\* AddEventHandler's replay is a sequence of notes on what the cache holds.
LEMMA ReplayNotes ==
  ASSUME TypeOK, NEW S, pending \in Seq(S), Replay,
         \A a \in Present : [app |-> a, val |-> cache[a]] \in S
  PROVE  pending' \in Seq(S)
<1>1. PICK s \in SetToSeqs(Present) : pending' =
        pending \o [i \in DOMAIN s |-> [app |-> s[i], val |-> cache[s[i]]]]
  BY DEF Replay
<1>2. Cardinality(Present) \in Nat
  <2>1. IsFiniteSet(Present)
    BY FS_Subset, StreamAssumption DEF StreamAssumption, Present
  <2> QED BY <2>1, FS_CardinalityType
<1>3. s \in [1..Cardinality(Present) -> Present]
  BY <1>1 DEF SetToSeqs
<1> DEFINE r == [i \in DOMAIN s |-> [app |-> s[i], val |-> cache[s[i]]]]
<1>4. r \in [1..Cardinality(Present) -> S]
  BY <1>3
<1>5. r \in Seq(S)
  BY <1>2, <1>4, FunctionIsSeq
<1> QED
  BY <1>1, <1>5, ConcatProperties

\* enqueue keeps the queue within its capacity and made of the same frames.
LEMMA EnqueueFrames ==
  ASSUME TypeOK, NEW S, queue \in Seq(S), NEW f \in S, Enqueue(f)
  PROVE  queue' \in Seq(S) /\ Len(queue') <= Capacity /\ dropped' \in BOOLEAN
<1>1. CASE Len(queue) < Capacity
  <2>1. queue' = Append(queue, f) /\ dropped' = dropped
    BY <1>1 DEF Enqueue
  <2>2. Append(queue, f) \in Seq(S) /\ Len(Append(queue, f)) = Len(queue) + 1
    BY AppendProperties
  <2>3. Len(queue) \in Nat
    BY LenProperties
  <2> QED BY <1>1, <2>1, <2>2, <2>3, StreamAssumption DEF TypeOK, StreamAssumption
<1>2. CASE ~(Len(queue) < Capacity)
  BY <1>2 DEF Enqueue, TypeOK
<1> QED
  BY <1>1, <1>2

\* onApp enqueues a note as it is or ignores it.
LEMMA OnAppFrames ==
  ASSUME TypeOK, NEW n \in Note, NEW S, queue \in Seq(S), OnApp(n),
         n.val # Tombstone /\ InScope(n.app) => n \in S
  PROVE  queue' \in Seq(S) /\ Len(queue') <= Capacity /\ dropped' \in BOOLEAN
<1>1. CASE n.val # Tombstone /\ InScope(n.app)
  BY <1>1, EnqueueFrames DEF OnApp
<1>2. CASE ~(n.val # Tombstone /\ InScope(n.app))
  BY <1>2 DEF OnApp, outbound, TypeOK
<1> QED
  BY <1>1, <1>2

\* A note that is no tombstone is a frame.
LEMMA NotesAreFrames ==
  ASSUME NEW n \in Note, n.val # Tombstone
  PROVE  n \in Frame
  BY DEF Note, Frame

-----------------------------------------------------------------------------
(* Type correctness *)

\* runOnce's failures, removals and ends: what EndConnection does to the types.
LEMMA EndConnectionType ==
  ASSUME TypeOK, EndConnection, failures' \in Nat PROVE TypeOK'
<1>1. late' \in Note \cup {NoNote}
  <2>1. CASE pending # <<>>
    BY <2>1, HeadTail DEF EndConnection, TypeOK
  <2>2. CASE pending = <<>>
    BY <2>2 DEF EndConnection, TypeOK
  <2> QED BY <2>1, <2>2
<1>2. pending' \in Seq(Note) /\ NoApps \in [Apps -> Content]
  BY EmptySeq DEF EndConnection, NoApps, Content
<1> QED
  BY <1>1, <1>2 DEF EndConnection, TypeOK, cluster, outbound

\* Every step of the informer and of the connection keeps the types.
LEMMA TypeNext == TypeOK /\ [Next]_vars => TypeOK'
<1> SUFFICES ASSUME TypeOK, [Next]_vars PROVE TypeOK'
  OBVIOUS
<1>f. queue \in Seq(Frame) /\ pending \in Seq(Note) /\ Len(queue) \in Nat
  BY LenProperties DEF TypeOK
<1>a. /\ Absent \in Content /\ NoApps \in [Apps -> Content]
      /\ \A a \in Apps : cache[a] \in Content
  BY DEF TypeOK, Content, NoApps
<1>n. ASSUME NEW a \in Apps, NEW v \in Content \cup {Tombstone}, Notify(a, v)
      PROVE  pending' \in Seq(Note)
  BY <1>f, <1>n, AppendProperties DEF Notify, Note
<1>1. ASSUME NEW a \in Apps, NEW v \in Content, AppChange(a, v) PROVE TypeOK'
  <2>1. pending' \in Seq(Note)
    BY <1>1, <1>n DEF AppChange
  <2>2. /\ cache' \in [Apps -> Content] /\ recent' \in [Apps -> SUBSET Content]
        /\ changes' \in Nat
    BY <1>1 DEF AppChange, Change, TypeOK
  <2> QED BY <1>1, <2>1, <2>2 DEF AppChange, TypeOK, outbound, snapshot
<1>2. ASSUME NEW a \in Apps, MissedDelete(a) PROVE TypeOK'
  <2>1. pending' \in Seq(Note)
    BY <1>2, <1>n DEF MissedDelete
  <2>2. /\ cache' \in [Apps -> Content] /\ recent' \in [Apps -> SUBSET Content]
        /\ changes' \in Nat
    BY <1>2, <1>a DEF MissedDelete, Change, TypeOK
  <2> QED BY <1>2, <2>1, <2>2 DEF MissedDelete, TypeOK, outbound, snapshot
<1>r. ASSUME Replay PROVE pending' \in Seq(Note)
  <2>1. \A a \in Present : [app |-> a, val |-> cache[a]] \in Note
    BY <1>a DEF Present, Note
  <2> QED BY <1>f, <1>r, <2>1, ReplayNotes
<1>3. CASE Resync
  BY <1>3, <1>r DEF Resync, TypeOK, cluster, outbound, snapshot
<1>4. CASE Callback
  <2>1. Head(pending) \in Note /\ pending' \in Seq(Note)
    BY <1>4, <1>f, HeadTail DEF Callback
  <2>2. queue' \in Seq(Frame) /\ Len(queue') <= Capacity /\ dropped' \in BOOLEAN
    BY <1>4, <1>f, <2>1, OnAppFrames, NotesAreFrames DEF Callback
  <2> QED BY <1>4, <2>1, <2>2 DEF Callback, TypeOK, cluster, snapshot
<1>5. CASE LateCallback
  <2>1. late \in Note
    BY <1>5 DEF LateCallback, TypeOK
  <2>2. queue' \in Seq(Frame) /\ Len(queue') <= Capacity /\ dropped' \in BOOLEAN
    BY <1>5, <1>f, <2>1, OnAppFrames, NotesAreFrames DEF LateCallback
  <2> QED BY <1>5, <2>2 DEF LateCallback, TypeOK, cluster, snapshot
<1>6. CASE OtherFrame
  <2>1. queue' \in Seq(Frame) /\ Len(queue') <= Capacity /\ dropped' \in BOOLEAN
    BY <1>6, <1>f, EnqueueFrames DEF OtherFrame, Frame
  <2>2. extras' \in Nat
    BY <1>6 DEF OtherFrame, TypeOK
  <2> QED BY <1>6, <2>1, <2>2 DEF OtherFrame, TypeOK, cluster, informer, snapshot
<1>7. CASE Dial
  <2>1. queue' \in Seq(Frame) /\ Len(queue') = 0
    BY <1>7, EmptySeq DEF Dial
  <2>2. recent' \in [Apps -> SUBSET Content] /\ 0 <= Capacity
    BY <1>7, <1>a, StreamAssumption DEF Dial, StreamAssumption
  <2> QED BY <1>7, <2>1, <2>2 DEF Dial, TypeOK, informer, snapshot
<1>8. CASE RegisterHandlers
  BY <1>8, <1>r DEF RegisterHandlers, TypeOK, cluster, outbound, snapshot
<1>9. CASE SendHello
  BY <1>9, <1>a DEF SendHello, TypeOK, cluster, informer, outbound
<1>10. ASSUME NEW l \in Lists, ListNamespace(l) PROVE TypeOK'
  <2>1. /\ listed' \in [Apps -> Content] /\ unlisted' \subseteq Lists
    BY <1>10 DEF ListNamespace, TypeOK
  <2>2. unsent' \subseteq UNION Lists
    BY <1>10 DEF ListNamespace, TypeOK
  <2> QED BY <1>10, <2>1, <2>2 DEF ListNamespace, TypeOK, cluster, informer, outbound
<1>v. ASSUME NEW new \in [Apps -> Content], Receive(new) PROVE view' \in [Apps -> Content]
  BY <1>v DEF Receive, TypeOK
<1>11. ASSUME NEW c \in SUBSET Apps, WriteChunk(c) PROVE TypeOK'
  <2>1. [a \in Apps |-> IF a \in c THEN listed[a] ELSE view[a]] \in [Apps -> Content]
    BY DEF TypeOK
  <2>2. view' \in [Apps -> Content]
    BY <1>11, <1>v, <2>1 DEF WriteChunk
  <2> QED BY <1>11, <2>2 DEF WriteChunk, TypeOK, cluster, informer, outbound
<1>12. CASE WriteEnd
  <2>1. [a \in Apps |-> IF listed[a] = Absent THEN Absent ELSE view[a]]
          \in [Apps -> Content]
    BY <1>a DEF TypeOK
  <2>2. view' \in [Apps -> Content]
    BY <1>12, <1>v, <2>1 DEF WriteEnd
  <2> QED BY <1>12, <1>a, <2>2 DEF WriteEnd, TypeOK, cluster, informer, outbound
<1>13. CASE WriteFrame
  <2>1. /\ queue' \in Seq(Frame) /\ Len(queue') <= Capacity
        /\ Head(queue) \in Frame
    BY <1>13, <1>f, HeadTail, StreamAssumption DEF WriteFrame, TypeOK, StreamAssumption
  <2>2. ASSUME Head(queue) # Other
        PROVE  [view EXCEPT ![Head(queue).app] = Head(queue).val] \in [Apps -> Content]
    BY <2>1, <2>2 DEF Frame, TypeOK
  <2>3. view' \in [Apps -> Content]
    <3>1. CASE Head(queue) = Other
      BY <1>13, <3>1 DEF WriteFrame, Receive, TypeOK
    <3>2. CASE Head(queue) # Other
      BY <1>13, <1>v, <2>2, <3>2 DEF WriteFrame
    <3> QED BY <3>1, <3>2
  <2> QED BY <1>13, <2>1, <2>3 DEF WriteFrame, TypeOK, cluster, informer, snapshot
<1>14. CASE LinkBreaks
  BY <1>14 DEF LinkBreaks, Fail, TypeOK, cluster, informer, outbound, snapshot
<1>15. CASE ConnectionLost \/ RegisterFails \/ ListFails
  <2>1. failures' \in Nat /\ EndConnection
    BY <1>15 DEF ConnectionLost, RegisterFails, ListFails, Fail, TypeOK
  <2> QED BY <2>1, EndConnectionType
<1>16. CASE UNCHANGED vars
  BY <1>16 DEF TypeOK, vars
<1> QED
  BY <1>1, <1>2, <1>3, <1>4, <1>5, <1>6, <1>7, <1>8, <1>9, <1>10, <1>11, <1>12,
     <1>13, <1>14, <1>15, <1>16 DEF Next, Informer, Connection

\* The variables keep their types and the queue its capacity, for any number
\* of Applications, contents, namespaces and failures (New, runOnce).
THEOREM StreamTypes == Spec => []TypeOK
<1>1. Init => TypeOK
  <2> SUFFICES ASSUME Init PROVE TypeOK
    OBVIOUS
  <2>1. <<>> \in Seq(Note) /\ <<>> \in Seq(Frame) /\ Len(<<>>) = 0
    BY EmptySeq
  <2>2. NoApps \in [Apps -> Content] /\ 0 <= Capacity
    BY StreamAssumption DEF NoApps, Content, StreamAssumption
  <2>3. view \in [Apps -> Content] /\ recent \in [Apps -> SUBSET Content]
    BY DEF Init
  <2> QED BY <2>1, <2>2, <2>3 DEF Init, TypeOK
<1> QED
  BY <1>1, TypeNext, PTL DEF Spec

-----------------------------------------------------------------------------
(* The stream implements the mirror *)

RecentNotes  == {n \in Note : n.val \in recent[n.app] \cup {Tombstone}}
RecentFrames == {n \in [app : Apps, val : Content] :
                   InScope(n.app) /\ n.val \in recent[n.app]} \cup {Other}

\* Whatever is on its way to the hub is recent: what the handlers were told,
\* what the queue of this connection holds, and what the snapshot has listed.
\* The queue of a connection that is over is not looked at again (Dial).
MirrorInv ==
  /\ late = NoNote
  /\ pending \in Seq(RecentNotes)
  /\ ~Registered => pending = <<>>
  /\ phase # "down" =>
       /\ queue \in Seq(RecentFrames)
       /\ \A a \in Apps : cache[a] \in recent[a]
  /\ phase # "snapshot" => listed = NoApps
  /\ \A a \in Apps : listed[a] # Absent => InScope(a)
  /\ phase = "snapshot" =>
       \A a \in Apps : /\ listed[a] # Absent => listed[a] \in recent[a]
                       /\ \A l \in Lists \ unlisted : a \in l => listed[a] \in recent[a]
  /\ \A a \in Apps : ~InScope(a) => view[a] = Absent

\* The invariant does not depend on the contents of the cluster alone: what is
\* recent stays so while the connection lasts.
LEMMA RecentGrows ==
  ASSUME TypeOK, TypeOK', MirrorInv,
         UNCHANGED <<late, queue, phase, unlisted, listed, view>>,
         \A a \in Apps : recent[a] \subseteq recent'[a],
         phase # "down" => \A a \in Apps : cache'[a] \in recent'[a],
         pending' \in Seq(RecentNotes'), ~Registered => pending' = pending
  PROVE  MirrorInv'
<1>1. RecentFrames \subseteq RecentFrames'
  BY DEF RecentFrames, InScope
<1>2. phase # "down" => queue' \in Seq(RecentFrames')
  BY <1>1, SeqMonotonic DEF MirrorInv
<1>3. phase' = "snapshot" => \A a \in Apps :
        /\ listed'[a] # Absent => listed'[a] \in recent'[a]
        /\ \A l \in Lists \ unlisted' : a \in l => listed'[a] \in recent'[a]
  BY DEF MirrorInv
<1>4. /\ phase' # "snapshot" => listed' = NoApps
      /\ \A a \in Apps : listed'[a] # Absent => InScope(a)
      /\ \A a \in Apps : ~InScope(a) => view'[a] = Absent
  BY DEF MirrorInv, InScope
<1> QED
  BY <1>2, <1>3, <1>4 DEF MirrorInv, Registered, InScope

\* A note on what an Application looks like from now on is recent.
LEMMA NotifyRecent ==
  ASSUME TypeOK, TypeOK', MirrorInv, NEW a \in Apps, NEW v \in Content \cup {Tombstone},
         Notify(a, v), \A b \in Apps : recent[b] \subseteq recent'[b],
         v \in recent'[a] \cup {Tombstone}
  PROVE  pending' \in Seq(RecentNotes') /\ (~Registered => pending' = pending)
<1>1. RecentNotes \subseteq RecentNotes'
  BY DEF RecentNotes, Note
<1>2. pending \in Seq(RecentNotes')
  BY <1>1, SeqMonotonic DEF MirrorInv
<1>3. [app |-> a, val |-> v] \in RecentNotes'
  BY DEF RecentNotes, Note
<1> QED
  BY <1>2, <1>3, AppendProperties DEF Notify

\* Changes of the cluster and every step of the connection keep what is on its
\* way recent, unless a callback outlives its handler.
LEMMA MirrorNext ==
  ASSUME "late" \notin Enabled, TypeOK, TypeOK', MirrorInv, [Next]_vars
  PROVE  MirrorInv'
<1>q. phase # "down" => queue \in Seq(RecentFrames)
  BY DEF MirrorInv
<1>u. ASSUME recent' = recent
      PROVE  RecentNotes' = RecentNotes /\ RecentFrames' = RecentFrames
  BY <1>u DEF RecentNotes, RecentFrames, InScope
<1>1. ASSUME NEW a \in Apps, NEW v \in Content, AppChange(a, v) PROVE MirrorInv'
  <2>1. /\ \A b \in Apps : recent[b] \subseteq recent'[b]
        /\ v \in recent'[a]
        /\ phase # "down" => \A b \in Apps : cache'[b] \in recent'[b]
    BY <1>1 DEF AppChange, TypeOK, MirrorInv
  <2>2. Notify(a, v) /\ UNCHANGED <<late, queue, phase, unlisted, listed, view>>
    BY <1>1 DEF AppChange, outbound, snapshot
  <2>3. pending' \in Seq(RecentNotes') /\ (~Registered => pending' = pending)
    BY <2>1, <2>2, NotifyRecent
  <2> QED BY <2>1, <2>2, <2>3, RecentGrows
<1>2. ASSUME NEW a \in Apps, MissedDelete(a) PROVE MirrorInv'
  <2>1. /\ \A b \in Apps : recent[b] \subseteq recent'[b]
        /\ phase # "down" => \A b \in Apps : cache'[b] \in recent'[b]
    BY <1>2 DEF MissedDelete, TypeOK, MirrorInv
  <2>2. Notify(a, Tombstone) /\ UNCHANGED <<late, queue, phase, unlisted, listed, view>>
    BY <1>2 DEF MissedDelete, outbound, snapshot
  <2>3. pending' \in Seq(RecentNotes') /\ (~Registered => pending' = pending)
    BY <2>1, <2>2, NotifyRecent
  <2> QED BY <2>1, <2>2, <2>3, RecentGrows
<1>r. ASSUME Replay, phase # "down", recent' = recent PROVE pending' \in Seq(RecentNotes')
  <2>1. \A a \in Present : [app |-> a, val |-> cache[a]] \in RecentNotes
    BY <1>r DEF Present, RecentNotes, Note, MirrorInv, TypeOK
  <2>2. pending' \in Seq(RecentNotes)
    BY <1>r, <2>1, ReplayNotes DEF MirrorInv
  <2> QED BY <1>r, <1>u, <2>2
<1>3. CASE Resync
  <2>1. pending' \in Seq(RecentNotes')
    BY <1>3, <1>r DEF Resync, cluster
  <2>2. Registered
    BY <1>3 DEF Resync, Registered
  <2> QED
    BY <1>3, <2>1, <2>2, RecentGrows
    DEF Resync, cluster, outbound, snapshot, MirrorInv
<1>4. CASE Callback
  <2>1. /\ Head(pending) \in RecentNotes /\ pending' \in Seq(RecentNotes)
        /\ phase # "down" /\ OnApp(Head(pending)) /\ Registered
    BY <1>4, HeadTail DEF Callback, MirrorInv, Registered
  <2> DEFINE n == Head(pending)
  <2>2. n \in Note /\ (n.val # Tombstone /\ InScope(n.app) => n \in RecentFrames)
    BY <2>1 DEF RecentNotes, RecentFrames, Note
  <2>3. queue' \in Seq(RecentFrames)
    BY <1>q, <2>1, <2>2, OnAppFrames
  <2> QED
    BY <1>4, <1>u, <2>1, <2>3 DEF Callback, cluster, snapshot, MirrorInv, Registered, InScope
<1>5. CASE LateCallback
  BY <1>5 DEF LateCallback, MirrorInv
<1>6. CASE OtherFrame
  <2>1. phase # "down" => queue' \in Seq(RecentFrames)
    BY <1>6, <1>q, EnqueueFrames DEF OtherFrame, RecentFrames
  <2> QED
    BY <1>6, <1>u, <2>1 DEF OtherFrame, cluster, informer, snapshot, MirrorInv, Registered, InScope
<1>7. CASE Dial
  <2>1. pending = <<>> /\ listed = NoApps
    BY <1>7 DEF Dial, MirrorInv, Registered
  <2>2. pending' \in Seq(RecentNotes') /\ queue' \in Seq(RecentFrames')
    BY <1>7, <2>1, EmptySeq DEF Dial, informer
  <2>3. \A a \in Apps : cache'[a] \in recent'[a]
    BY <1>7 DEF Dial
  <2> QED
    BY <1>7, <2>1, <2>2, <2>3 DEF Dial, informer, snapshot, MirrorInv, Registered, InScope
<1>8. CASE RegisterHandlers
  <2>1. pending' \in Seq(RecentNotes')
    BY <1>8, <1>r DEF RegisterHandlers, cluster
  <2> QED
    BY <1>8, <1>u, <2>1
    DEF RegisterHandlers, cluster, outbound, snapshot, MirrorInv, Registered, InScope
<1>9. CASE SendHello
  <2>1. \A a \in Apps : listed'[a] = Absent
    BY <1>9 DEF SendHello, NoApps
  <2> QED
    BY <1>9, <1>u, <2>1
    DEF SendHello, cluster, informer, outbound, MirrorInv, Registered, InScope
<1>10. ASSUME NEW l \in Lists, ListNamespace(l) PROVE MirrorInv'
  <2>1. \A a \in Apps : listed'[a] = IF a \in l THEN cache[a] ELSE listed[a]
    BY <1>10 DEF ListNamespace
  <2>2. \A a \in Apps : listed'[a] # Absent => InScope(a) /\ listed'[a] \in recent[a]
    BY <1>10, <2>1 DEF ListNamespace, MirrorInv, InScope
  <2>3. \A a \in Apps, m \in Lists \ unlisted' : a \in m => listed'[a] \in recent[a]
    <3> SUFFICES ASSUME NEW a \in Apps, NEW m \in Lists \ unlisted', a \in m
                 PROVE  listed'[a] \in recent[a]
      OBVIOUS
    <3>1. CASE a \in l
      BY <1>10, <2>1, <3>1 DEF ListNamespace, MirrorInv
    <3>2. CASE a \notin l
      <4>1. m \in Lists \ unlisted
        BY <1>10, <3>2 DEF ListNamespace
      <4> QED BY <1>10, <2>1, <3>2, <4>1 DEF ListNamespace, MirrorInv
    <3> QED BY <3>1, <3>2
  <2> QED
    BY <1>10, <1>u, <2>2, <2>3
    DEF ListNamespace, cluster, informer, outbound, MirrorInv, Registered, InScope
<1>11. ASSUME NEW c \in SUBSET Apps, WriteChunk(c) PROVE MirrorInv'
  <2>1. \A a \in Apps : ~InScope(a) => view'[a] = Absent
    BY <1>11 DEF WriteChunk, Receive, TypeOK, MirrorInv, InScope
  <2> QED
    BY <1>11, <1>u, <2>1
    DEF WriteChunk, cluster, informer, outbound, MirrorInv, Registered, InScope
<1>12. CASE WriteEnd
  <2>1. \A a \in Apps : ~InScope(a) => view'[a] = Absent
    BY <1>12 DEF WriteEnd, Receive, TypeOK, MirrorInv
  <2>2. \A a \in Apps : listed'[a] = Absent
    BY <1>12 DEF WriteEnd, NoApps
  <2> QED
    BY <1>12, <1>u, <2>1, <2>2
    DEF WriteEnd, cluster, informer, outbound, MirrorInv, Registered, InScope
<1>13. CASE WriteFrame
  <2>1. Head(queue) \in RecentFrames /\ queue' \in Seq(RecentFrames)
    BY <1>13, <1>q, HeadTail DEF WriteFrame
  <2>2. \A a \in Apps : ~InScope(a) => view'[a] = Absent
    BY <1>13, <2>1 DEF WriteFrame, Receive, TypeOK, MirrorInv, RecentFrames
  <2> QED
    BY <1>13, <1>u, <2>1, <2>2
    DEF WriteFrame, cluster, informer, snapshot, MirrorInv, Registered, InScope
<1>14. CASE LinkBreaks
  BY <1>14, <1>u
  DEF LinkBreaks, cluster, informer, outbound, snapshot, MirrorInv, Registered, InScope
<1>15. CASE ConnectionLost \/ RegisterFails \/ ListFails
  <2>1. EndConnection
    BY <1>15 DEF ConnectionLost, RegisterFails, ListFails
  <2>2. late' = NoNote /\ phase' = "down" /\ pending' = <<>> /\ listed' = NoApps
    BY <2>1 DEF EndConnection, MirrorInv
  <2>3. pending' \in Seq(RecentNotes') /\ \A a \in Apps : listed'[a] = Absent
    BY <2>2, EmptySeq DEF NoApps
  <2> QED
    BY <2>1, <2>2, <2>3 DEF EndConnection, MirrorInv, Registered, InScope
<1>16. CASE UNCHANGED vars
  BY <1>16, <1>u DEF vars, MirrorInv, Registered, InScope
<1> QED
  BY <1>1, <1>2, <1>3, <1>4, <1>5, <1>6, <1>7, <1>8, <1>9, <1>10, <1>11, <1>12,
     <1>13, <1>14, <1>15, <1>16 DEF Next, Informer, Connection

\* Every step of the stream is a step of the mirror or leaves it alone.
LEMMA MirrorStep ==
  ASSUME TypeOK, TypeOK', MirrorInv, [Next]_vars
  PROVE  [Mirror!Next]_(Mirror!vars)
<1> USE DEF Mirror!vars, Mirror!Next
<1>q. phase # "down" => queue \in Seq(RecentFrames)
  BY DEF MirrorInv
<1>d. ASSUME UNCHANGED <<cache, recent, view>>, dropped' \in {dropped, TRUE}
      PROVE  [Mirror!Next]_(Mirror!vars)
  BY <1>d DEF Mirror!Drop
<1>w. ASSUME UNCHANGED <<cache, recent, dropped>>, NEW new \in [Apps -> Content],
             \A a \in Apps : new[a] # view[a] => InScope(a) /\ new[a] \in recent[a],
             Receive(new)
      PROVE  Mirror!Next
  <2>1. /\ view' \in [Apps -> Content]
        /\ \A a \in Apps : view'[a] # view[a] => InScope(a) /\ view'[a] \in recent[a]
    BY <1>w DEF Receive, TypeOK
  <2> QED BY <1>w, <2>1 DEF Mirror!Deliver, Mirror!Content, Content, InScope
<1>1. ASSUME NEW a \in Apps, NEW v \in Content, AppChange(a, v) PROVE Mirror!Next
  BY <1>1 DEF AppChange, outbound, Mirror!Change, Mirror!Content, Content
<1>2. ASSUME NEW a \in Apps, MissedDelete(a) PROVE Mirror!Next
  BY <1>2 DEF MissedDelete, outbound, Mirror!Change, Mirror!Content, Content
<1>3. CASE Resync \/ RegisterHandlers
  BY <1>3 DEF Resync, RegisterHandlers, cluster, outbound
<1>4. CASE Callback \/ LateCallback \/ OtherFrame
  <2>1. dropped' \in {dropped, TRUE}
    BY <1>4 DEF Callback, LateCallback, OtherFrame, OnApp, Enqueue, outbound
  <2> QED BY <1>4, <1>d, <2>1 DEF Callback, LateCallback, OtherFrame, cluster
<1>5. CASE Dial
  BY <1>5 DEF Dial, Mirror!Connect
<1>6. ASSUME SendHello \/ \E l \in Lists : ListNamespace(l)
      PROVE  [Mirror!Next]_(Mirror!vars)
  BY <1>6 DEF SendHello, ListNamespace, cluster, outbound
<1>7. ASSUME NEW c \in SUBSET Apps, WriteChunk(c) PROVE Mirror!Next
  <2> DEFINE new == [a \in Apps |-> IF a \in c THEN listed[a] ELSE view[a]]
  <2>1. new \in [Apps -> Content] /\ Receive(new)
    BY <1>7 DEF WriteChunk, TypeOK
  <2>2. ASSUME NEW a \in Apps, new[a] # view[a]
        PROVE  InScope(a) /\ new[a] \in recent[a]
    <3>1. a \in c /\ new[a] = listed[a]
      BY <2>2
    <3>2. PICK l \in Lists : a \in l
      BY <1>7, <3>1 DEF WriteChunk, TypeOK
    <3>3. listed[a] \in recent[a]
      BY <1>7, <3>2 DEF WriteChunk, MirrorInv
    <3> QED BY <3>1, <3>2, <3>3 DEF InScope
  <2> HIDE DEF new
  <2> QED BY <1>7, <1>w, <2>1, <2>2 DEF WriteChunk, cluster, outbound
<1>8. CASE WriteEnd
  <2> DEFINE new == [a \in Apps |-> IF listed[a] = Absent THEN Absent ELSE view[a]]
  <2>1. new \in [Apps -> Content] /\ Receive(new)
    BY <1>8 DEF WriteEnd, TypeOK, Content
  <2>2. ASSUME NEW a \in Apps, new[a] # view[a]
        PROVE  InScope(a) /\ new[a] \in recent[a]
    <3>1. listed[a] = Absent /\ new[a] = Absent /\ view[a] # Absent
      BY <2>2
    <3>2. InScope(a)
      BY <3>1 DEF MirrorInv
    <3>3. PICK l \in Lists : a \in l
      BY <3>2 DEF InScope
    <3>4. listed[a] \in recent[a]
      BY <1>8, <3>3 DEF WriteEnd, MirrorInv
    <3> QED BY <3>1, <3>2, <3>4
  <2> HIDE DEF new
  <2> QED BY <1>8, <1>w, <2>1, <2>2 DEF WriteEnd, cluster, outbound
<1>9. CASE WriteFrame
  <2>1. Head(queue) \in RecentFrames
    BY <1>9, <1>q, HeadTail DEF WriteFrame
  <2>2. CASE Head(queue) = Other
    <3>1. view' = view
      BY <1>9, <2>2 DEF WriteFrame, Receive
    <3> QED BY <1>9, <3>1 DEF WriteFrame, cluster
  <2>3. CASE Head(queue) # Other
    <3> DEFINE f == Head(queue)
               new == [view EXCEPT ![f.app] = f.val]
    <3>1. f.app \in Apps /\ f.val \in Content /\ InScope(f.app) /\ f.val \in recent[f.app]
      BY <2>1, <2>3 DEF RecentFrames
    <3>2. new \in [Apps -> Content] /\ Receive(new)
      BY <1>9, <2>3, <3>1 DEF WriteFrame, TypeOK
    <3>3. \A a \in Apps : new[a] # view[a] => InScope(a) /\ new[a] \in recent[a]
      BY <3>1 DEF TypeOK
    <3> HIDE DEF new
    <3> QED BY <1>9, <1>w, <3>2, <3>3 DEF WriteFrame, cluster
  <2> QED BY <2>2, <2>3
<1>10. CASE LinkBreaks
  BY <1>10 DEF LinkBreaks, cluster, outbound
<1>11. CASE ConnectionLost \/ RegisterFails \/ ListFails
  BY <1>11 DEF ConnectionLost, RegisterFails, ListFails, EndConnection, cluster, outbound
<1>12. CASE UNCHANGED vars
  BY <1>12 DEF vars
<1> QED
  BY <1>1, <1>2, <1>3, <1>4, <1>5, <1>6, <1>7, <1>8, <1>9, <1>10, <1>11, <1>12
  DEF Next, Informer, Connection

\* Nothing is on its way before the first connection (New).
LEMMA MirrorInit == Init => MirrorInv /\ Mirror!Init
<1> SUFFICES ASSUME Init PROVE MirrorInv /\ Mirror!Init
  OBVIOUS
<1>1. pending \in Seq(RecentNotes)
  BY EmptySeq DEF Init
<1>2. MirrorInv
  BY <1>1 DEF Init, MirrorInv, Registered, NoApps, InScope
<1>3. Mirror!Init
  BY DEF Init, Mirror!Init, Mirror!Content, Content
<1> QED
  BY <1>2, <1>3

\* The stream implements the safety part of the mirror, whatever the number of
\* Applications, contents, namespaces, chunks, lost connections and dropped
\* frames, if no callback outlives its handler (runOnce).
THEOREM StreamMirrors == "late" \notin Enabled => (Spec => Mirror!Spec)
<1> SUFFICES ASSUME "late" \notin Enabled PROVE Spec => Mirror!Spec
  OBVIOUS
<1>1. Init => MirrorInv /\ Mirror!Init
  BY MirrorInit
<1>2. TypeOK /\ TypeOK' /\ MirrorInv /\ [Next]_vars => MirrorInv'
  BY MirrorNext
<1>3. TypeOK /\ TypeOK' /\ MirrorInv /\ [Next]_vars => [Mirror!Next]_(Mirror!vars)
  BY MirrorStep
<1>4. Spec => []TypeOK
  BY StreamTypes
<1> QED
  BY <1>1, <1>2, <1>3, <1>4, PTL DEF Spec, Mirror!Spec

\* A removal at the hub is justified in every instance (sendSnapshot).
THEOREM RemovalsAreJustified == "late" \notin Enabled => (Spec => RemovalJustified)
<1> SUFFICES ASSUME "late" \notin Enabled PROVE Spec => RemovalJustified
  OBVIOUS
<1>1. Init => MirrorInv
  BY MirrorInit
<1>2. TypeOK /\ TypeOK' /\ MirrorInv /\ [Next]_vars => MirrorInv'
  BY MirrorNext
<1>3. TypeOK /\ TypeOK' /\ MirrorInv /\ [Next]_vars =>
        [\A a \in Apps : view[a] # Absent /\ view'[a] = Absent => Absent \in recent[a]]_view
  <2> SUFFICES ASSUME [Mirror!Next]_(Mirror!vars), view' # view
               PROVE  \A a \in Apps : view[a] # Absent /\ view'[a] = Absent
                                        => Absent \in recent[a]
    BY MirrorStep
  <2>1. \A a \in Apps : view'[a] # view[a] => view'[a] \in recent[a]
    BY DEF Mirror!Next, Mirror!vars, Mirror!Change, Mirror!Connect, Mirror!Deliver,
           Mirror!Drop
  <2> QED BY <2>1
<1>4. Spec => []TypeOK
  BY StreamTypes
<1> QED
  BY <1>1, <1>2, <1>3, <1>4, PTL DEF Spec, RemovalJustified

-----------------------------------------------------------------------------
(* What drains mirrors the cache *)

\* Of an Application, a queue of notes or frames says at last what it looks
\* like, or is silent.
About(n, a)  == n # Other /\ n.app = a
Silent(q, a) == \A i \in 1..Len(q) : ~About(q[i], a)
Says(q, a, v) ==
  \E i \in 1..Len(q) : /\ About(q[i], a) /\ q[i].val = v
                       /\ \A j \in 1..Len(q) : i < j => ~About(q[j], a)

\* A queue says of an Application what was appended about it (Append).
LEMMA AppendSays ==
  ASSUME NEW S, NEW q \in Seq(S), NEW n \in S, NEW a
  PROVE  /\ About(n, a) => Says(Append(q, n), a, n.val)
         /\ ~About(n, a) /\ Silent(q, a) => Silent(Append(q, n), a)
         /\ \A v : ~About(n, a) /\ Says(q, a, v) => Says(Append(q, n), a, v)
<1> DEFINE r == Append(q, n)
<1>1. /\ Len(q) \in Nat /\ Len(r) = Len(q) + 1 /\ r[Len(q) + 1] = n
      /\ \A i \in 1..Len(q) : r[i] = q[i]
  BY AppendProperties, LenProperties
<1> HIDE DEF r
<1>2. About(n, a) => Says(r, a, n.val)
  <2> SUFFICES ASSUME About(n, a) PROVE Says(r, a, n.val)
    OBVIOUS
  <2>1. Len(r) \in 1..Len(r) /\ r[Len(r)] = n
    BY <1>1
  <2>2. \A j \in 1..Len(r) : ~(Len(r) < j)
    BY <1>1
  <2> QED BY <2>1, <2>2 DEF Says
<1>3. \A i \in 1..Len(r) : r[i] = n \/ (i \in 1..Len(q) /\ r[i] = q[i])
  BY <1>1
<1>4. ~About(n, a) /\ Silent(q, a) => Silent(r, a)
  BY <1>3 DEF Silent
<1>5. ASSUME NEW v, ~About(n, a), Says(q, a, v) PROVE Says(r, a, v)
  <2>1. PICK i \in 1..Len(q) : /\ About(q[i], a) /\ q[i].val = v
                               /\ \A j \in 1..Len(q) : i < j => ~About(q[j], a)
    BY <1>5 DEF Says
  <2>2. i \in 1..Len(r) /\ r[i] = q[i]
    BY <1>1
  <2>3. \A j \in 1..Len(r) : i < j => ~About(r[j], a)
    BY <1>3, <1>5, <2>1
  <2> QED BY <2>1, <2>2, <2>3 DEF Says
<1> QED
  BY <1>2, <1>4, <1>5 DEF r

\* Without its head a queue says the same of all others, and of the head's
\* Application unless the head was its last word (Tail).
LEMMA TailSays ==
  ASSUME NEW S, NEW q \in Seq(S), q # <<>>, NEW a
  PROVE  /\ Silent(q, a) => Silent(Tail(q), a) /\ ~About(Head(q), a)
         /\ \A v : Says(q, a, v) =>
              \/ Says(Tail(q), a, v)
              \/ Silent(Tail(q), a) /\ About(Head(q), a) /\ Head(q).val = v
<1> DEFINE t == Tail(q)
<1>1. /\ Len(q) \in Nat \ {0} /\ Len(t) = Len(q) - 1 /\ Head(q) = q[1]
      /\ \A i \in 1..Len(t) : t[i] = q[i + 1]
  BY HeadTailProperties, LenProperties, EmptySeq
<1> HIDE DEF t
<1>2. \A i \in 1..Len(t) : i + 1 \in 1..Len(q) /\ t[i] = q[i + 1]
  BY <1>1
<1>3. Silent(q, a) => Silent(t, a) /\ ~About(Head(q), a)
  <2>1. 1 \in 1..Len(q)
    BY <1>1
  <2> QED BY <1>1, <1>2, <2>1 DEF Silent
<1>4. ASSUME NEW v, Says(q, a, v)
      PROVE  Says(t, a, v) \/ (Silent(t, a) /\ About(Head(q), a) /\ Head(q).val = v)
  <2>1. PICK i \in 1..Len(q) : /\ About(q[i], a) /\ q[i].val = v
                               /\ \A j \in 1..Len(q) : i < j => ~About(q[j], a)
    BY <1>4 DEF Says
  <2>2. CASE i = 1
    <3>1. \A j \in 1..Len(t) : 1 < j + 1
      OBVIOUS
    <3>2. Silent(t, a)
      BY <1>2, <2>1, <2>2, <3>1 DEF Silent
    <3> QED BY <1>1, <2>1, <2>2, <3>2
  <2>3. CASE i # 1
    <3>1. i - 1 \in 1..Len(t) /\ t[i - 1] = q[i]
      BY <1>1, <2>3
    <3>2. \A j \in 1..Len(t) : i - 1 < j => ~About(t[j], a)
      <4> SUFFICES ASSUME NEW j \in 1..Len(t), i - 1 < j PROVE ~About(t[j], a)
        OBVIOUS
      <4>1. i < j + 1
        OBVIOUS
      <4> QED BY <1>2, <2>1, <4>1
    <3> QED BY <2>1, <3>1, <3>2 DEF Says
  <2> QED BY <2>2, <2>3
<1> QED
  BY <1>3, <1>4 DEF t

\* The handlers replay each Application of the cache, as it is (AddEventHandler).
LEMMA ReplaySays ==
  ASSUME TypeOK, Replay, pending = <<>>, NEW a \in Apps
  PROVE  IF cache[a] = Absent THEN Silent(pending', a) ELSE Says(pending', a, cache[a])
<1> DEFINE n == Cardinality(Present)
<1>1. PICK s \in SetToSeqs(Present) : pending' =
        pending \o [i \in DOMAIN s |-> [app |-> s[i], val |-> cache[s[i]]]]
  BY DEF Replay
<1>2. IsFiniteSet(Present) /\ n \in Nat
  <2>1. IsFiniteSet(Present)
    BY FS_Subset, StreamAssumption DEF StreamAssumption, Present
  <2> QED BY <2>1, FS_CardinalityType
<1>3. s \in [1..n -> Present] /\ \A i, j \in 1..n : i # j => s[i] # s[j]
  BY <1>1 DEF SetToSeqs
<1> DEFINE r == [i \in 1..n |-> [app |-> s[i], val |-> cache[s[i]]]]
<1>4. r \in [1..n -> Note]
  BY <1>3 DEF Note, Present, TypeOK
<1>5. r \in Seq(Note) /\ Len(r) = n
  BY <1>2, <1>4, FunctionIsSeq
<1>6. pending' = r
  <2>1. pending' = <<>> \o r
    BY <1>1, <1>3
  <2> QED BY <1>5, <2>1, ConcatEmptySeq
<1>7. \A i \in 1..n : r[i] # Other /\ r[i].app = s[i] /\ r[i].val = cache[s[i]]
  <2> SUFFICES ASSUME NEW i \in 1..n
               PROVE  r[i] # Other /\ r[i].app = s[i] /\ r[i].val = cache[s[i]]
    OBVIOUS
  <2>1. r[i] \in Note
    BY <1>4
  <2>2. Other \notin Note
    BY StreamAssumption DEF StreamAssumption, Note, Content
  <2> QED BY <2>1, <2>2
<1> HIDE DEF r
<1>8. CASE cache[a] = Absent
  <2>1. \A i \in 1..n : s[i] # a
    BY <1>3, <1>8 DEF Present
  <2> QED BY <1>5, <1>6, <1>7, <1>8, <2>1 DEF Silent, About
<1>9. CASE cache[a] # Absent
  <2>1. a \in Present
    BY <1>9 DEF Present
  <2>2. PICK i \in 1..n : s[i] = a
    <3> SUFFICES ASSUME \A i \in 1..n : s[i] # a PROVE FALSE
      OBVIOUS
    <3> DEFINE T == Present \ {a}
               D == 1..n
    <3>1. s \in [D -> T]
      BY <1>3
    <3>2. IsFiniteSet(T) /\ Cardinality(T) = n - 1
      BY <1>2, <2>1, FS_RemoveElement
    <3>3. IsFiniteSet(D) /\ Cardinality(D) = n
      <4>1. 1 \in Int /\ n \in Int /\ (IF 1 > n THEN 0 ELSE n - 1 + 1) = n
        BY <1>2
      <4> QED BY <4>1, FS_Interval
    <3>4. Cardinality(T) < Cardinality(D)
      BY <1>2, <3>2, <3>3
    <3>5. \E x, y \in D : x # y /\ s[x] = s[y]
      <4> HIDE DEF T, D
      <4> QED BY <3>1, <3>2, <3>3, <3>4, FS_PigeonHole
    <3> QED BY <1>3, <3>5
  <2>3. \A j \in 1..n : j # i => s[j] # a
    BY <1>3, <2>2
  <2>4. About(r[i], a) /\ r[i].val = cache[a]
    BY <1>7, <2>2 DEF About
  <2>5. \A j \in 1..n : i < j => ~About(r[j], a)
    BY <1>7, <2>3 DEF About
  <2>6. Says(r, a, cache[a])
    BY <1>5, <2>4, <2>5 DEF Says
  <2> QED BY <1>6, <1>9, <2>6
<1> QED
  BY <1>8, <1>9

\* What has been said, or will be, is what the Application looks like; of an
\* Application about which nothing is under way, the hub has that already, or
\* will have it with the snapshot, which does not list it.
Informed(a) ==
  \/ Says(pending, a, cache[a])
  \/ Silent(pending, a) /\ Says(queue, a, cache[a])
  \/ /\ Silent(pending, a) /\ Silent(queue, a)
     /\ IF phase = "streaming" THEN view[a] = cache[a]
                               ELSE cache[a] = Absent /\ listed[a] = Absent

Intact == Registered /\ link = "up" /\ ~dropped

DrainInv ==
  /\ phase = "dialed" => \A a \in Apps : Silent(queue, a)
  /\ Intact => \A a \in Apps : InScope(a) => Informed(a)

\* A note or a frame is about one Application, other frames are about none.
LEMMA NotesAreAbout ==
  /\ \A n \in Note : \A a : About(n, a) <=> n.app = a
  /\ \A a : ~About(Other, a)
<1>1. Other \notin Note
  BY StreamAssumption DEF StreamAssumption, Note, Content
<1> QED
  BY <1>1 DEF About

\* An empty queue says nothing.
LEMMA EmptySays == \A a, v : Silent(<<>>, a) /\ ~Says(<<>>, a, v)
<1>1. Len(<<>>) = 0
  BY EmptySeq
<1> QED
  BY <1>1 DEF Silent, Says

\* A callback moves the last word about an Application into the queue, or
\* leaves it where it is (onApp, enqueue).
LEMMA CallbackInforms ==
  ASSUME TypeOK, Callback, UNCHANGED <<cache, phase, listed, view>>, ~dropped',
         NEW a \in Apps, InScope(a), Informed(a)
  PROVE  Informed(a)'
<1> DEFINE n == Head(pending)
<1>1. /\ pending \in Seq(Note) /\ pending # <<>> /\ n \in Note /\ pending' = Tail(pending)
      /\ queue \in Seq(Frame) /\ Other \in Frame /\ OnApp(n)
  BY HeadTail DEF Callback, TypeOK, Frame
<1>2. cache[a] \in Content /\ Tombstone \notin Content
  BY StreamAssumption DEF TypeOK, StreamAssumption, Content
<1>3. \/ queue' = queue /\ ~(n.val # Tombstone /\ InScope(n.app))
      \/ queue' = Append(queue, n) /\ n.val # Tombstone /\ n \in Frame
  BY <1>1 DEF OnApp, Enqueue, outbound, Frame, Note
<1>4. About(n, a) <=> n.app = a
  BY <1>1, NotesAreAbout
<1>5. /\ Silent(pending, a) => Silent(pending', a) /\ ~About(n, a)
      /\ Says(pending, a, cache[a]) =>
           \/ Says(pending', a, cache[a])
           \/ Silent(pending', a) /\ About(n, a) /\ n.val = cache[a]
  <2>1. /\ Silent(pending, a) => Silent(Tail(pending), a) /\ ~About(n, a)
        /\ \A v : Says(pending, a, v) =>
             \/ Says(Tail(pending), a, v)
             \/ Silent(Tail(pending), a) /\ About(n, a) /\ n.val = v
    BY <1>1, TailSays
  <2> QED BY <1>1, <2>1
<1>6. CASE queue' = queue /\ ~(n.val # Tombstone /\ InScope(n.app))
  <2>1. ~(About(n, a) /\ n.val = cache[a])
    BY <1>2, <1>4, <1>6
  <2> QED BY <1>5, <1>6, <2>1 DEF Informed
<1>7. CASE queue' = Append(queue, n) /\ n.val # Tombstone /\ n \in Frame
  <2>1. /\ About(n, a) => Says(queue', a, n.val)
        /\ ~About(n, a) /\ Silent(queue, a) => Silent(queue', a)
        /\ ~About(n, a) /\ Says(queue, a, cache[a]) => Says(queue', a, cache[a])
    BY <1>1, <1>7, AppendSays
  <2> QED BY <1>5, <2>1 DEF Informed
<1> QED
  BY <1>3, <1>6, <1>7

\* Every step of the cluster, of the informer and of the connection informs the
\* hub, or notes that it will be.
LEMMA DrainNext ==
  ASSUME {"late", "tombstone"} \cap Enabled = {}, TypeOK, TypeOK', MirrorInv,
         MirrorInv', DrainInv, [Next]_vars
  PROVE  DrainInv'
<1>t. pending \in Seq(Note) /\ queue \in Seq(Frame) /\ Other \in Frame
  BY DEF TypeOK, Frame
<1>1. ASSUME NEW a \in Apps, NEW v \in Content, AppChange(a, v) PROVE DrainInv'
  <2>1. /\ UNCHANGED <<queue, dropped, phase, link, listed, view>> /\ Notify(a, v)
        /\ cache' = [cache EXCEPT ![a] = v]
    BY <1>1 DEF AppChange, outbound, snapshot
  <2>2. ASSUME Intact, NEW b \in Apps, InScope(b) PROVE Informed(b)'
    <3> DEFINE n == [app |-> a, val |-> v]
    <3>1. n \in Note /\ pending' = Append(pending, n) /\ n.app = a /\ n.val = v
      BY <2>1, <2>2 DEF Notify, Intact, Note
    <3> HIDE DEF n
    <3>2. About(n, b) <=> b = a
      BY <3>1, NotesAreAbout
    <3>3. CASE b = a
      <4>1. Says(pending', a, v) /\ cache'[a] = v
        BY <1>t, <2>1, <3>1, <3>2, <3>3, AppendSays DEF TypeOK
      <4> QED BY <3>3, <4>1 DEF Informed
    <3>4. CASE b # a
      <4>1. cache'[b] = cache[b]
        BY <2>1, <3>4 DEF TypeOK
      <4>2. /\ Silent(pending, b) => Silent(pending', b)
            /\ Says(pending, b, cache[b]) => Says(pending', b, cache[b])
        BY <1>t, <3>1, <3>2, <3>4, AppendSays
      <4>3. Informed(b)
        BY <2>2 DEF DrainInv
      <4> QED BY <2>1, <4>1, <4>2, <4>3 DEF Informed
    <3> QED BY <3>3, <3>4
  <2> QED BY <2>1, <2>2 DEF DrainInv, Intact, Registered, InScope, Silent
<1>2. ASSUME NEW a \in Apps, MissedDelete(a) PROVE DrainInv'
  BY <1>2 DEF MissedDelete
<1>3. CASE Resync
  <2>1. /\ UNCHANGED <<cache, queue, dropped, phase, link, listed, view>>
        /\ pending = <<>> /\ Replay /\ phase = "streaming"
    BY <1>3 DEF Resync, cluster, outbound, snapshot
  <2>2. ASSUME Intact, NEW a \in Apps, InScope(a) PROVE Informed(a)'
    <3>1. IF cache[a] = Absent THEN Silent(pending', a) ELSE Says(pending', a, cache[a])
      BY <2>1, ReplaySays
    <3>2. Informed(a) /\ ~Says(pending, a, cache[a])
      BY <2>1, <2>2, EmptySays DEF DrainInv
    <3> QED BY <2>1, <3>1, <3>2 DEF Informed
  <2> QED BY <2>1, <2>2 DEF DrainInv, Intact, Registered, InScope
<1>4. CASE Callback
  <2>1. /\ UNCHANGED <<cache, phase, link, listed, view>> /\ pending # <<>>
        /\ (dropped => dropped')
    BY <1>4
    DEF Callback, OnApp, Enqueue, outbound, cluster, snapshot
  <2>2. Registered
    BY <2>1 DEF MirrorInv
  <2>3. ASSUME Intact', NEW a \in Apps, InScope(a) PROVE Informed(a)'
    <3>1. Intact /\ ~dropped'
      BY <2>1, <2>3 DEF Intact, Registered
    <3> QED BY <1>4, <2>1, <2>3, <3>1, CallbackInforms DEF DrainInv
  <2> QED BY <2>1, <2>2, <2>3 DEF DrainInv, Registered, InScope
<1>5. CASE LateCallback
  BY <1>5 DEF LateCallback, MirrorInv
<1>6. CASE OtherFrame
  <2>1. /\ UNCHANGED <<cache, pending, phase, link, listed, view>> /\ Enqueue(Other)
        /\ (dropped => dropped')
    BY <1>6 DEF OtherFrame, Enqueue, cluster, informer, snapshot
  <2>2. \A a : /\ Silent(queue, a) => Silent(queue', a)
               /\ \A v : Says(queue, a, v) => Says(queue', a, v)
    <3>1. CASE queue' = queue
      BY <3>1
    <3>2. CASE queue' = Append(queue, Other)
      BY <1>t, <3>2, NotesAreAbout, AppendSays
    <3> QED BY <2>1, <3>1, <3>2 DEF Enqueue
  <2>3. ASSUME Intact', NEW a \in Apps, InScope(a) PROVE Informed(a)'
    <3>1. Informed(a)
      BY <2>1, <2>3 DEF Intact, Registered, DrainInv
    <3> QED BY <2>1, <2>2, <3>1 DEF Informed
  <2> QED BY <2>1, <2>2, <2>3 DEF DrainInv, InScope
<1>7. CASE Dial
  <2>1. phase' = "dialed" /\ queue' = <<>>
    BY <1>7 DEF Dial
  <2> QED BY <2>1, EmptySays DEF DrainInv, Intact, Registered
<1>8. CASE RegisterHandlers
  <2>1. /\ UNCHANGED <<cache, queue, listed>> /\ Replay
        /\ phase = "dialed" /\ phase' = "registered"
    BY <1>8 DEF RegisterHandlers, cluster, outbound, snapshot
  <2>2. pending = <<>> /\ listed = NoApps
    BY <2>1 DEF MirrorInv, Registered
  <2>3. ASSUME NEW a \in Apps PROVE Informed(a)'
    <3>1. IF cache[a] = Absent THEN Silent(pending', a) ELSE Says(pending', a, cache[a])
      BY <2>1, <2>2, ReplaySays
    <3>2. Silent(queue, a)
      BY <2>1 DEF DrainInv
    <3> QED BY <2>1, <2>2, <3>1, <3>2 DEF Informed, NoApps
  <2> QED BY <2>1, <2>3 DEF DrainInv
<1>9. CASE SendHello
  <2>1. /\ UNCHANGED <<cache, pending, queue, dropped, link, view>>
        /\ phase = "registered" /\ phase' = "snapshot" /\ listed' = NoApps
    BY <1>9 DEF SendHello, cluster, informer, outbound
  <2>2. ASSUME Intact, NEW a \in Apps, InScope(a) PROVE Informed(a)'
    <3>1. Informed(a)
      BY <2>2 DEF DrainInv
    <3> QED BY <2>1, <3>1 DEF Informed, NoApps
  <2> QED BY <2>1, <2>2 DEF DrainInv, Intact, Registered, InScope
<1>10. ASSUME NEW l \in Lists, ListNamespace(l) PROVE DrainInv'
  <2>1. /\ UNCHANGED <<cache, pending, queue, dropped, phase, link, view>>
        /\ phase = "snapshot"
        /\ listed' = [a \in Apps |-> IF a \in l THEN cache[a] ELSE listed[a]]
    BY <1>10 DEF ListNamespace, cluster, informer, outbound
  <2>2. ASSUME Intact, NEW a \in Apps, InScope(a) PROVE Informed(a)'
    <3>1. Informed(a)
      BY <2>2 DEF DrainInv
    <3>2. listed'[a] \in {cache[a], listed[a]}
      BY <2>1
    <3> QED BY <2>1, <3>1, <3>2 DEF Informed
  <2> QED BY <2>1, <2>2 DEF DrainInv, Intact, Registered, InScope
<1>11. ASSUME NEW c \in SUBSET Apps, WriteChunk(c) PROVE DrainInv'
  <2>1. /\ UNCHANGED <<cache, pending, queue, dropped, phase, link, listed>>
        /\ phase = "snapshot"
    BY <1>11 DEF WriteChunk, cluster, informer, outbound
  <2>2. ASSUME Intact, NEW a \in Apps, InScope(a) PROVE Informed(a)'
    <3>1. Informed(a)
      BY <2>2 DEF DrainInv
    <3> QED BY <2>1, <3>1 DEF Informed
  <2> QED BY <2>1, <2>2 DEF DrainInv, Intact, Registered, InScope
<1>12. CASE WriteEnd
  <2>1. /\ UNCHANGED <<cache, pending, queue, dropped, link>>
        /\ phase = "snapshot" /\ phase' = "streaming"
        /\ Receive([a \in Apps |-> IF listed[a] = Absent THEN Absent ELSE view[a]])
    BY <1>12 DEF WriteEnd, cluster, informer, outbound
  <2>2. ASSUME Intact, NEW a \in Apps, InScope(a) PROVE Informed(a)'
    <3>1. Informed(a)
      BY <2>2 DEF DrainInv
    <3>2. listed[a] = Absent => view'[a] = Absent
      BY <2>1, <2>2 DEF Receive, Intact
    <3> QED BY <2>1, <3>1, <3>2 DEF Informed
  <2> QED BY <2>1, <2>2 DEF DrainInv, Intact, Registered, InScope
<1>13. CASE WriteFrame
  <2> DEFINE f == Head(queue)
  <2>1. /\ UNCHANGED <<cache, pending, dropped, phase, link, listed>>
        /\ phase = "streaming" /\ queue # <<>> /\ queue' = Tail(queue) /\ f \in Frame
        /\ Receive(IF f = Other THEN view ELSE [view EXCEPT ![f.app] = f.val])
    BY <1>13, <1>t, HeadTail DEF WriteFrame, cluster, informer, snapshot
  <2> HIDE DEF f
  <2>2. ASSUME Intact, NEW a \in Apps, InScope(a) PROVE Informed(a)'
    <3>1. Informed(a)
      BY <2>2 DEF DrainInv
    <3>2. /\ Silent(queue, a) => Silent(queue', a) /\ ~About(f, a)
          /\ Says(queue, a, cache[a]) =>
               \/ Says(queue', a, cache[a])
               \/ Silent(queue', a) /\ About(f, a) /\ f.val = cache[a]
      <4>1. /\ Silent(queue, a) => Silent(Tail(queue), a) /\ ~About(f, a)
            /\ \A v : Says(queue, a, v) =>
                 \/ Says(Tail(queue), a, v)
                 \/ Silent(Tail(queue), a) /\ About(f, a) /\ f.val = v
        BY <1>t, <2>1, TailSays DEF f
      <4> QED BY <2>1, <4>1
    <3>3. view'[a] = IF About(f, a) THEN f.val ELSE view[a]
      BY <2>1, <2>2 DEF Receive, Intact, About, TypeOK
    <3> QED BY <2>1, <3>1, <3>2, <3>3 DEF Informed
  <2> QED BY <2>1, <2>2 DEF DrainInv, Intact, Registered, InScope
<1>14. CASE LinkBreaks
  BY <1>14 DEF LinkBreaks, outbound, DrainInv, Intact, Silent
<1>15. CASE ConnectionLost \/ RegisterFails \/ ListFails
  <2>1. phase' = "down"
    BY <1>15 DEF ConnectionLost, RegisterFails, ListFails, EndConnection
  <2> QED BY <2>1 DEF DrainInv, Intact, Registered
<1>16. CASE UNCHANGED vars
  BY <1>16 DEF vars, DrainInv, Intact, Registered, InScope, Informed, Silent, Says
<1> QED
  BY <1>1, <1>2, <1>3, <1>4, <1>5, <1>6, <1>7, <1>8, <1>9, <1>10, <1>11, <1>12,
     <1>13, <1>14, <1>15, <1>16 DEF Next, Informer, Connection

\* Once a connection that dropped nothing has drained, the hub's inventory is
\* the cache's, in every instance without late callbacks and tombstones
\* (runOnce: handlers first, then the snapshot, then the queue).
THEOREM DrainsMirror ==
  {"late", "tombstone"} \cap Enabled = {} => (Spec => []DrainedMeansMirrored)
<1> SUFFICES ASSUME {"late", "tombstone"} \cap Enabled = {}
             PROVE  Spec => []DrainedMeansMirrored
  OBVIOUS
<1>1. Init => MirrorInv /\ DrainInv
  BY MirrorInit DEF Init, DrainInv, Intact, Registered
<1>2. TypeOK /\ TypeOK' /\ MirrorInv /\ [Next]_vars => MirrorInv'
  BY MirrorNext
<1>3. TypeOK /\ TypeOK' /\ MirrorInv /\ MirrorInv' /\ DrainInv /\ [Next]_vars => DrainInv'
  BY DrainNext
<1>4. MirrorInv /\ DrainInv => DrainedMeansMirrored
  <2> SUFFICES ASSUME MirrorInv, DrainInv, phase = "streaming", link = "up", ~dropped,
                      pending = <<>>, queue = <<>>, NEW a \in Apps
               PROVE  view[a] = Wanted(a)
    BY DEF DrainedMeansMirrored
  <2>1. CASE InScope(a)
    <3>1. Informed(a)
      BY <2>1 DEF DrainInv, Intact, Registered
    <3> QED BY <2>1, <3>1, EmptySays DEF Informed, Wanted, InScope
  <2>2. CASE ~InScope(a)
    BY <2>2 DEF MirrorInv, Wanted, InScope
  <2> QED BY <2>1, <2>2
<1>5. Spec => []TypeOK
  BY StreamTypes
<1> QED
  BY <1>1, <1>2, <1>3, <1>4, <1>5, PTL DEF Spec

=============================================================================
