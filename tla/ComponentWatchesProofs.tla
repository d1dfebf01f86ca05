----------------------- MODULE ComponentWatchesProofs -----------------------
(***************************************************************************)
(* Theorems about ComponentWatches, for any Applications, kinds,           *)
(* components, declarations, workers and numbers of changes and failures:  *)
(* a kind is watched once, the registry is faithful, and no Application    *)
(* that shares a watch is left unreported.                                 *)
(***************************************************************************)
EXTENDS ComponentWatches, TLAPS

-----------------------------------------------------------------------------
(* Type correctness *)

\* An event wakes Applications, and a List returns states.
LEMMA WokenType ==
  ASSUME TypeOK
  PROVE  /\ \A new \in Component, found \in BOOLEAN : WokenBy(new, found) \subseteq Apps
         /\ \A c \in Comps : comp[c] \in Component
         /\ \A a \in Apps : Matching(a) \in Listing
<1>1. \A new \in Component, found \in BOOLEAN : WokenBy(new, found) \subseteq Apps
  BY DEF WokenBy, Component
<1>2. \A c \in Comps : comp[c] \in Component
  BY DEF TypeOK
<1>3. \A a \in Apps : Matching(a) \in Listing
  BY <1>2 DEF Matching, Listing, Component
<1> QED
  BY <1>1, <1>2, <1>3

\* A delivery queues Applications and notes components that were missed; an
\* event queues every Application it matches, or it is one that was missed.
LEMMA Delivery ==
  ASSUME TypeOK, NEW objects \in SUBSET (Comps \X Component), Deliver(objects)
  PROVE  /\ queue \subseteq queue' /\ queue' \subseteq Apps
         /\ missed' \in [Apps -> SUBSET Comps] /\ faults' \in Nat
         /\ \A a \in Apps : missed[a] \subseteq missed'[a]
         /\ \A o \in objects, a \in Apps :
              o[2].state # Gone /\ a \in o[2].matches =>
                a \in queue' \/ o[1] \in missed'[a]
<1> DEFINE woken(lost) == UNION {WokenBy(o[2], o \notin lost) : o \in objects}
<1>1. PICK lost \in SUBSET {o \in objects : o[2].state # Gone} :
        /\ queue' = queue \cup woken(lost)
        /\ missed' = [a \in Apps |-> missed[a] \cup
                       {o[1] : o \in {x \in lost : a \in x[2].matches \ woken(lost)}}]
        /\ IF lost = {} THEN UNCHANGED faults ELSE Fault
  BY DEF Deliver
<1>2. \A o \in objects : o[1] \in Comps /\ o[2] \in Component
  OBVIOUS
<1>3. \A o \in objects : WokenBy(o[2], o \notin lost) \subseteq Apps
  BY <1>2, WokenType
<1>4. woken(lost) \subseteq Apps
  BY <1>3
<1>5. queue \subseteq queue' /\ queue' \subseteq Apps
  BY <1>1, <1>4 DEF TypeOK
<1>6. \A a \in Apps : missed'[a] = missed[a] \cup
        {o[1] : o \in {x \in lost : a \in x[2].matches \ woken(lost)}}
  BY <1>1
<1>7. ASSUME NEW o \in objects, NEW a \in Apps, o[2].state # Gone, a \in o[2].matches
      PROVE  a \in queue' \/ o[1] \in missed'[a]
  <2>1. CASE o \notin lost
    <3>1. WokenBy(o[2], o \notin lost) = o[2].matches
      BY <1>7, <2>1 DEF WokenBy
    <3>2. a \in woken(lost)
      BY <1>7, <3>1
    <3> QED BY <1>1, <3>2
  <2>2. CASE o \in lost /\ a \in woken(lost)
    BY <1>1, <2>2
  <2>3. CASE o \in lost /\ a \notin woken(lost)
    BY <1>6, <1>7, <2>3
  <2> QED BY <2>1, <2>2, <2>3
<1>8. missed' \in [Apps -> SUBSET Comps]
  <2>1. \A a \in Apps :
          {o[1] : o \in {x \in lost : a \in x[2].matches \ woken(lost)}} \subseteq Comps
    BY <1>2
  <2>2. \A a \in Apps : missed[a] \subseteq Comps
    BY DEF TypeOK
  <2> HIDE DEF woken
  <2> QED BY <1>1, <2>1, <2>2
<1>9. faults' \in Nat
  BY <1>1 DEF TypeOK, Fault
<1> QED
  BY <1>5, <1>6, <1>7, <1>8, <1>9

\* Reconciles, deliveries, changes and restarts keep the types.
LEMMA TypeNext == TypeOK /\ [Next]_vars => TypeOK'
<1> SUFFICES ASSUME TypeOK, [Next]_vars PROVE TypeOK'
  OBVIOUS
<1> USE DEF TypeOK
<1>a. \A a \in Apps : Declared[a] \subseteq Kinds
  BY WatchesAssumption DEF WatchesAssumption
<1>n. NoKind \notin Kinds
  BY WatchesAssumption DEF WatchesAssumption
<1>1. ASSUME NEW a \in Apps, Begin(a) PROVE TypeOK'
  <2>1. todo' \in [Apps -> SUBSET Kinds]
    BY <1>1, <1>a DEF Begin
  <2>2. \A b \in Apps : holding'[b] # NoKind => at'[b] = "ensure" /\ holding'[b] \in todo'[b]
    BY <1>1 DEF Begin
  <2> QED BY <1>1, <2>1, <2>2 DEF Begin, watches
<1>2. ASSUME NEW a \in Apps, NEW k \in Kinds, MappingFails(a, k) \/ AlreadyWatched(a, k)
      PROVE  TypeOK'
  <2>1. todo' = [todo EXCEPT ![a] = @ \ {k}] /\ holding[a] = NoKind
        /\ UNCHANGED <<at, holding>>
    BY <1>2 DEF MappingFails, AlreadyWatched, Looking, Done
  <2>2. todo' \in [Apps -> SUBSET Kinds]
    BY <2>1
  <2>3. \A b \in Apps : holding'[b] # NoKind => at'[b] = "ensure" /\ holding'[b] \in todo'[b]
    BY <2>1
  <2>4. lacking' \subseteq Kinds /\ faults' \in Nat
    BY <1>2 DEF MappingFails, AlreadyWatched, watches, Fault
  <2> QED
    BY <1>2, <2>1, <2>2, <2>3, <2>4 DEF MappingFails, AlreadyWatched, watches
<1>3. ASSUME NEW a \in Apps, NEW k \in Kinds, Claim(a, k) PROVE TypeOK'
  <2>1. \A b \in Apps : holding'[b] # NoKind => at'[b] = "ensure" /\ holding'[b] \in todo'[b]
    BY <1>3 DEF Claim, Looking
  <2> QED BY <1>3, <2>1 DEF Claim
<1>4. ASSUME NEW a \in Apps, WatchStarts(a) \/ WatchFails(a) PROVE TypeOK'
  <2>1. holding[a] \in Kinds /\ Release(a) /\ at' = at
    BY <1>4 DEF WatchStarts, WatchFails
  <2>2. /\ todo' \in [Apps -> SUBSET Kinds]
        /\ holding' \in [Apps -> Kinds \cup {NoKind}]
        /\ \A b \in Apps : holding'[b] # NoKind =>
             at'[b] = "ensure" /\ holding'[b] \in todo'[b]
    BY <2>1 DEF Release, Done
  <2>3. /\ registry' \subseteq Kinds /\ starting' \subseteq Kinds
        /\ lacking' \subseteq Kinds /\ starts' \in [Kinds -> Nat] /\ faults' \in Nat
    BY <1>4, <2>1 DEF WatchStarts, WatchFails, Fault
  <2> QED BY <1>4, <2>1, <2>2, <2>3 DEF WatchStarts, WatchFails
<1>5. ASSUME NEW a \in Apps, List(a) PROVE TypeOK'
  <2>1. listed' \in [Apps -> Listing] /\ missed' \in [Apps -> SUBSET Comps]
    BY <1>5, WokenType DEF List
  <2>2. \A b \in Apps : holding'[b] # NoKind => at'[b] = "ensure" /\ holding'[b] \in todo'[b]
    BY <1>5 DEF List
  <2> QED BY <1>5, <2>1, <2>2 DEF List, watches
<1>6. ASSUME NEW a \in Apps, Write(a) \/ WriteFails(a) PROVE TypeOK'
  <2>1. report' \in [Apps -> Listing] /\ queue' \subseteq Apps /\ faults' \in Nat
    BY <1>6 DEF Write, WriteFails, Fault
  <2>2. /\ at' \in [Apps -> {"idle", "ensure", "write"}]
        /\ \A b \in Apps : holding'[b] # NoKind =>
             at'[b] = "ensure" /\ holding'[b] \in todo'[b]
    BY <1>6 DEF Write, WriteFails, Finish
  <2> QED BY <1>6, <2>1, <2>2 DEF Write, WriteFails, watches
<1>7. ASSUME NEW k \in Kinds, Attach(k) PROVE TypeOK'
  <2> DEFINE objects == {<<c, comp[c]>> : c \in {d \in Comps : KindOf[d] = k}}
  <2>1. objects \in SUBSET (Comps \X Component)
    BY WokenType
  <2>2. Deliver(objects)
    BY <1>7 DEF Attach
  <2> HIDE DEF objects
  <2>3. queue' \subseteq Apps /\ missed' \in [Apps -> SUBSET Comps] /\ faults' \in Nat
    BY <2>1, <2>2, Delivery
  <2> QED BY <1>7, <2>3 DEF Attach, worker
<1>8. ASSUME NEW c \in Comps, NEW new \in Component, Change(c, new) PROVE TypeOK'
  <2> DEFINE objects == {<<c, comp[c]>>, <<c, new>>}
  <2>1. objects \in SUBSET (Comps \X Component)
    BY WokenType
  <2>2. Deliver(objects) \/ UNCHANGED <<queue, missed, faults>>
    BY <1>8 DEF Change
  <2> HIDE DEF objects
  <2>3. queue' \subseteq Apps /\ missed' \in [Apps -> SUBSET Comps] /\ faults' \in Nat
    BY <2>1, <2>2, Delivery
  <2> QED BY <1>8, <2>3 DEF Change, watches, worker
<1>9. CASE Restart
  BY <1>9 DEF Restart, Fault
<1>10. CASE Resync
  BY <1>10 DEF Resync, watches, worker
<1>11. CASE UNCHANGED vars
  BY <1>11 DEF vars
<1> QED
  BY <1>1, <1>2, <1>3, <1>4, <1>5, <1>6, <1>7, <1>8, <1>9, <1>10, <1>11
  DEF Next, Reconcile

\* The registry, the workers and the reports stay well typed, and the entry a
\* reconcile holds is of a kind it has still to look at
\* (ensureComponentWatches).
THEOREM WatchTypes == Spec => []TypeOK
<1>1. Init => TypeOK
  <2> SUFFICES ASSUME Init PROVE TypeOK
    OBVIOUS
  <2>1. Nothing \in Listing
    BY DEF Nothing, Listing
  <2> QED BY <2>1 DEF Init, TypeOK
<1> QED
  BY <1>1, TypeNext, PTL DEF Spec

-----------------------------------------------------------------------------
(* The registry *)

\* LoadOrStore is a lock: who holds a kind has its entry, holds it alone and
\* has not started a watch of it; a kind without an entry was not started.
RegistryInv ==
  /\ \A a \in Apps : holding[a] # NoKind =>
       holding[a] \in registry /\ starts[holding[a]] = 0
  /\ \A a, b \in Apps : a # b /\ holding[a] = holding[b] => holding[a] = NoKind
  /\ \A k \in Kinds : k \notin registry => starts[k] = 0
  /\ WatchedOnce
  /\ RegistryFaithful

\* Registering, rolling back, attaching and restarting keep the invariant.
LEMMA RegistryNext ==
  ASSUME TypeOK, RegistryInv, [Next]_vars PROVE RegistryInv'
<1>n. NoKind \notin Kinds
  BY WatchesAssumption DEF WatchesAssumption
<1>u. ASSUME UNCHANGED <<registry, starting, attached, starts, holding>>
      PROVE  RegistryInv'
  BY <1>u DEF RegistryInv, WatchedOnce, RegistryFaithful
<1>1. ASSUME NEW a \in Apps,
             \/ Begin(a) \/ List(a) \/ Write(a) \/ WriteFails(a)
             \/ \E k \in Kinds : MappingFails(a, k) \/ AlreadyWatched(a, k)
      PROVE  RegistryInv'
  BY <1>1, <1>u
  DEF Begin, List, Write, WriteFails, MappingFails, AlreadyWatched, watches
<1>2. ASSUME NEW a \in Apps, NEW k \in Kinds, Claim(a, k) PROVE RegistryInv'
  <2>1. /\ registry' = registry \cup {k} /\ k \notin registry /\ holding[a] = NoKind
        /\ UNCHANGED <<starting, attached, starts>>
    BY <1>2 DEF Claim, Looking
  <2>2. \A b \in Apps : holding'[b] = IF b = a THEN k ELSE holding[b]
    BY <1>2 DEF Claim, TypeOK
  <2>3. \A b \in Apps : holding[b] # k
    BY <2>1, <1>n DEF RegistryInv
  <2>4. starts[k] = 0
    BY <2>1 DEF RegistryInv
  <2>5. \A b \in Apps : holding'[b] # NoKind =>
          holding'[b] \in registry' /\ starts'[holding'[b]] = 0
    BY <2>1, <2>2, <2>4 DEF RegistryInv
  <2>6. \A b, d \in Apps : b # d /\ holding'[b] = holding'[d] => holding'[b] = NoKind
    BY <2>2, <2>3 DEF RegistryInv
  <2>7. RegistryFaithful'
    <3> SUFFICES ASSUME NEW h \in registry'
                 PROVE  h \in starting' \cup attached' \/ \E b \in Apps : holding'[b] = h
      BY DEF RegistryFaithful
    <3>1. CASE h = k
      BY <2>2, <3>1
    <3>2. CASE h # k /\ \E b \in Apps : holding[b] = h
      <4>1. PICK b \in Apps : holding[b] = h
        BY <3>2
      <4>2. h \in registry
        BY <2>1, <3>2
      <4>3. b # a
        BY <2>1, <4>1, <4>2, <1>n DEF TypeOK
      <4> QED BY <2>2, <4>1, <4>3
    <3> QED BY <2>1, <3>1, <3>2 DEF RegistryInv, RegistryFaithful
  <2> QED BY <2>1, <2>5, <2>6, <2>7 DEF RegistryInv, WatchedOnce
<1>3. ASSUME NEW a \in Apps, WatchStarts(a) PROVE RegistryInv'
  <2> DEFINE k == holding[a]
  <2>1. /\ k \in Kinds /\ k \in registry /\ starts[k] = 0
        /\ registry' = registry /\ attached' = attached /\ starting' = starting \cup {k}
    BY <1>3 DEF WatchStarts, RegistryInv, TypeOK
  <2>2. \A b \in Apps : holding'[b] = IF b = a THEN NoKind ELSE holding[b]
    BY <1>3 DEF WatchStarts, Release, TypeOK
  <2>3. \A h \in Kinds : starts'[h] = IF h = k THEN 1 ELSE starts[h]
    BY <1>3, <2>1 DEF WatchStarts, TypeOK
  <2>4. \A b \in Apps : b # a => holding[b] # k
    BY <2>1, <1>n DEF RegistryInv
  <2>5. \A b \in Apps : holding'[b] # NoKind =>
          holding'[b] \in registry' /\ starts'[holding'[b]] = 0
    BY <2>1, <2>2, <2>3, <2>4 DEF RegistryInv, TypeOK
  <2>6. \A b, d \in Apps : b # d /\ holding'[b] = holding'[d] => holding'[b] = NoKind
    BY <2>2 DEF RegistryInv
  <2>7. RegistryFaithful'
    <3> SUFFICES ASSUME NEW h \in registry'
                 PROVE  h \in starting' \cup attached' \/ \E b \in Apps : holding'[b] = h
      BY DEF RegistryFaithful
    <3>1. CASE h = k
      BY <2>1, <3>1
    <3>2. CASE h # k /\ \E b \in Apps : holding[b] = h
      BY <2>2, <3>2
    <3> QED BY <2>1, <3>1, <3>2 DEF RegistryInv, RegistryFaithful
  <2>8. (\A h \in Kinds : h \notin registry' => starts'[h] = 0) /\ WatchedOnce'
    BY <2>1, <2>3 DEF RegistryInv, WatchedOnce
  <2> QED BY <2>5, <2>6, <2>7, <2>8 DEF RegistryInv
<1>4. ASSUME NEW a \in Apps, WatchFails(a) PROVE RegistryInv'
  <2> DEFINE k == holding[a]
  <2>1. /\ k \in Kinds /\ starts[k] = 0 /\ registry' = registry \ {k}
        /\ UNCHANGED <<starting, attached, starts>>
    BY <1>4 DEF WatchFails, RegistryInv, TypeOK
  <2>2. \A b \in Apps : holding'[b] = IF b = a THEN NoKind ELSE holding[b]
    BY <1>4 DEF WatchFails, Release, TypeOK
  <2>3. \A b \in Apps : b # a => holding[b] # k
    BY <2>1, <1>n DEF RegistryInv
  <2>4. \A b \in Apps : holding'[b] # NoKind =>
          holding'[b] \in registry' /\ starts'[holding'[b]] = 0
    BY <2>1, <2>2, <2>3 DEF RegistryInv
  <2>5. \A b, d \in Apps : b # d /\ holding'[b] = holding'[d] => holding'[b] = NoKind
    BY <2>2 DEF RegistryInv
  <2>6. RegistryFaithful'
    <3> SUFFICES ASSUME NEW h \in registry'
                 PROVE  h \in starting' \cup attached' \/ \E b \in Apps : holding'[b] = h
      BY DEF RegistryFaithful
    <3>1. CASE \E b \in Apps : holding[b] = h
      BY <2>1, <2>2, <3>1
    <3> QED BY <2>1, <3>1 DEF RegistryInv, RegistryFaithful
  <2>7. (\A h \in Kinds : h \notin registry' => starts'[h] = 0) /\ WatchedOnce'
    BY <2>1 DEF RegistryInv, WatchedOnce
  <2> QED BY <2>4, <2>5, <2>6, <2>7 DEF RegistryInv
<1>5. ASSUME NEW k \in Kinds, Attach(k) PROVE RegistryInv'
  BY <1>5 DEF Attach, worker, RegistryInv, WatchedOnce, RegistryFaithful
<1>6. ASSUME NEW c \in Comps, NEW new \in Component, Change(c, new) PROVE RegistryInv'
  BY <1>6, <1>u DEF Change, watches, worker
<1>7. CASE Restart
  BY <1>7 DEF Restart, RegistryInv, WatchedOnce, RegistryFaithful
<1>8. CASE Resync
  BY <1>8, <1>u DEF Resync, watches, worker
<1>9. CASE UNCHANGED vars
  BY <1>9, <1>u DEF vars
<1> QED
  BY <1>1, <1>2, <1>3, <1>4, <1>5, <1>6, <1>7, <1>8, <1>9 DEF Next, Reconcile

\* The invariant of the registry holds from the start (SetupWithManager).
LEMMA RegistryInvariant == Spec => []RegistryInv
<1>1. Init => RegistryInv
  BY DEF Init, RegistryInv, WatchedOnce, RegistryFaithful
<1>2. TypeOK /\ RegistryInv /\ [Next]_vars => RegistryInv'
  BY RegistryNext
<1> QED
  BY <1>1, <1>2, WatchTypes, PTL DEF Spec

\* No kind is ever watched twice by a process, however many Applications
\* declare it and however many of them reconcile at once (LoadOrStore).
THEOREM WatchesAreUnique == Spec => []WatchedOnce
<1>1. RegistryInv => WatchedOnce
  BY DEF RegistryInv
<1> QED
  BY <1>1, RegistryInvariant, PTL

\* No entry of the registry is orphaned, whatever fails (the rollback after a
\* failed Watch()).
THEOREM RegistryIsFaithful == Spec => []RegistryFaithful
<1>1. RegistryInv => RegistryFaithful
  BY DEF RegistryInv
<1> QED
  BY <1>1, RegistryInvariant, PTL

-----------------------------------------------------------------------------
(* Reports at rest *)

\* What a reconcile has passed by was watched, was about to be, or failed.
Covered(a) ==
  a \in queue \/ \A k \in Declared[a] :
    k \in registry \cup lacking \/ (at[a] = "ensure" /\ k \in todo[a])

\* Where the answer of a's last List is, or the key of a waits for another.
Informed(a, c) ==
  \/ a \in queue \/ at[a] = "ensure"
  \/ at[a] = "write" /\ listed[a][c] = Matching(a)[c]
  \/ at[a] = "idle" /\ report[a][c] = Matching(a)[c]

\* Applications are covered, and of every component that an attached watch
\* reports on they are informed or will be, or its event was lost.
InformedInv ==
  /\ \A a \in Apps : Covered(a)
  /\ \A a \in Apps, c \in Comps :
       KindOf[c] \in attached /\ Matching(a)[c] # Gone =>
         Informed(a, c) \/ c \in missed[a]

\* Each step covers and informs the Applications, or queues them.
LEMMA InformedNext ==
  ASSUME TypeOK, TypeOK', InformedInv, [Next]_vars PROVE InformedInv'
<1>a. \A a \in Apps : Declared[a] \subseteq Kinds
  BY WatchesAssumption DEF WatchesAssumption
<1>u. ASSUME comp' = comp PROVE \A a \in Apps : Matching(a)' = Matching(a)
  BY <1>u DEF Matching
<1>q. ASSUME comp' = comp, attached' = attached, queue \subseteq queue',
             UNCHANGED <<at, listed, report, missed>>
      PROVE  \A a \in Apps, c \in Comps :
               KindOf[c] \in attached' /\ Matching(a)'[c] # Gone =>
                 Informed(a, c)' \/ c \in missed'[a]
  BY <1>q, <1>u DEF InformedInv, Informed
<1>1. ASSUME NEW a \in Apps, Begin(a) PROVE InformedInv'
  <2>1. /\ queue' = queue \ {a} /\ UNCHANGED <<comp, watches, listed, report, missed>>
        /\ \A b \in Apps : at'[b] = IF b = a THEN "ensure" ELSE at[b]
        /\ \A b \in Apps : todo'[b] = IF b = a THEN Declared[a] ELSE todo[b]
    BY <1>1 DEF Begin, TypeOK
  <2>2. \A b \in Apps : Covered(b)'
    BY <2>1 DEF InformedInv, Covered, watches
  <2>3. \A b \in Apps, c \in Comps :
          KindOf[c] \in attached' /\ Matching(b)'[c] # Gone =>
            Informed(b, c)' \/ c \in missed'[b]
    BY <2>1, <1>u DEF InformedInv, Informed, watches
  <2> QED BY <2>2, <2>3 DEF InformedInv
<1>2. ASSUME NEW a \in Apps, NEW k \in Kinds,
             MappingFails(a, k) \/ AlreadyWatched(a, k) \/ Claim(a, k)
      PROVE  InformedInv'
  <2>1. /\ registry \subseteq registry' /\ lacking \subseteq lacking'
        /\ UNCHANGED <<comp, attached, queue, at, listed, report, missed>>
    BY <1>2 DEF MappingFails, AlreadyWatched, Claim, watches
  <2>2. \A b \in Apps : todo'[b] = todo[b]
          \/ (b = a /\ todo'[b] = todo[b] \ {k} /\ k \in registry' \cup lacking')
    BY <1>2 DEF MappingFails, AlreadyWatched, Claim, Done, watches, TypeOK
  <2>3. \A b \in Apps : Covered(b)'
    BY <2>1, <2>2 DEF InformedInv, Covered
  <2> QED BY <2>1, <2>3, <1>q DEF InformedInv
<1>3. ASSUME NEW a \in Apps, WatchStarts(a) \/ WatchFails(a) PROVE InformedInv'
  <2> DEFINE k == holding[a]
  <2>1. /\ registry \cup lacking \cup {k} \subseteq registry' \cup lacking'
        /\ UNCHANGED <<comp, attached, queue, at, listed, report, missed>>
    BY <1>3 DEF WatchStarts, WatchFails
  <2>2. \A b \in Apps : todo'[b] = todo[b] \/ (b = a /\ todo'[b] = todo[b] \ {k})
    BY <1>3 DEF WatchStarts, WatchFails, Release, Done, TypeOK
  <2>3. \A b \in Apps : Covered(b)'
    BY <2>1, <2>2 DEF InformedInv, Covered
  <2> QED BY <2>1, <2>3, <1>q DEF InformedInv
<1>4. ASSUME NEW a \in Apps, List(a) PROVE InformedInv'
  <2>1. /\ todo[a] = {} /\ UNCHANGED <<comp, watches, queue, todo, report>>
        /\ \A b \in Apps : at'[b] = IF b = a THEN "write" ELSE at[b]
        /\ \A b \in Apps : listed'[b] = IF b = a THEN Matching(a) ELSE listed[b]
        /\ \A b \in Apps : b # a => missed'[b] = missed[b]
    BY <1>4 DEF List, TypeOK
  <2>2. \A b \in Apps : Covered(b)'
    BY <2>1 DEF InformedInv, Covered, watches
  <2>3. \A b \in Apps, c \in Comps :
          KindOf[c] \in attached' /\ Matching(b)'[c] # Gone =>
            Informed(b, c)' \/ c \in missed'[b]
    BY <2>1, <1>u DEF InformedInv, Informed, watches
  <2> QED BY <2>2, <2>3 DEF InformedInv
<1>5. ASSUME NEW a \in Apps, Write(a) \/ WriteFails(a) PROVE InformedInv'
  <2>1. /\ at[a] = "write" /\ UNCHANGED <<comp, watches, todo, listed, missed>>
        /\ \A b \in Apps : at'[b] = IF b = a THEN "idle" ELSE at[b]
        /\ queue \subseteq queue'
        /\ a \in queue' \/ report'[a] = listed[a]
        /\ \A b \in Apps : b # a => report'[b] = report[b]
    BY <1>5 DEF Write, WriteFails, Finish, TypeOK
  <2>2. \A b \in Apps : Covered(b)'
    BY <2>1 DEF InformedInv, Covered, watches
  <2>3. \A b \in Apps, c \in Comps :
          KindOf[c] \in attached' /\ Matching(b)'[c] # Gone =>
            Informed(b, c)' \/ c \in missed'[b]
    BY <2>1, <1>u DEF InformedInv, Informed, watches
  <2> QED BY <2>2, <2>3 DEF InformedInv
<1>6. ASSUME NEW k \in Kinds, Attach(k) PROVE InformedInv'
  <2> DEFINE objects == {<<c, comp[c]>> : c \in {d \in Comps : KindOf[d] = k}}
  <2>o. objects \in SUBSET (Comps \X Component)
    BY WokenType
  <2>d. Deliver(objects)
    BY <1>6 DEF Attach
  <2>m. \A c \in Comps : KindOf[c] = k => <<c, comp[c]>> \in objects
    OBVIOUS
  <2> HIDE DEF objects
  <2>1. /\ attached' = attached \cup {k}
        /\ UNCHANGED <<comp, registry, lacking, at, todo, listed, report>>
    BY <1>6 DEF Attach, worker
  <2>2. /\ queue \subseteq queue' /\ \A a \in Apps : missed[a] \subseteq missed'[a]
        /\ \A c \in Comps, a \in Apps :
             KindOf[c] = k /\ comp[c].state # Gone /\ a \in comp[c].matches =>
               a \in queue' \/ c \in missed'[a]
    BY <2>o, <2>d, <2>m, Delivery
  <2>3. \A a \in Apps : Covered(a)'
    BY <2>1, <2>2 DEF InformedInv, Covered
  <2>4. ASSUME NEW a \in Apps, NEW c \in Comps, KindOf[c] \in attached',
               Matching(a)'[c] # Gone
        PROVE  Informed(a, c)' \/ c \in missed'[a]
    <3>1. Matching(a)[c] # Gone /\ Matching(a)' = Matching(a)
      BY <2>1, <2>4, <1>u
    <3>2. CASE KindOf[c] = k
      <4>1. comp[c].state # Gone /\ a \in comp[c].matches
        BY <3>1 DEF Matching
      <4> QED BY <2>2, <3>2, <4>1 DEF Informed
    <3>3. CASE KindOf[c] \in attached
      BY <2>1, <2>2, <3>1, <3>3 DEF InformedInv, Informed
    <3> QED BY <2>1, <2>4, <3>2, <3>3
  <2> QED BY <2>3, <2>4 DEF InformedInv
<1>7. ASSUME NEW d \in Comps, NEW new \in Component, Change(d, new) PROVE InformedInv'
  <2> DEFINE objects == {<<d, comp[d]>>, <<d, new>>}
  <2>o. objects \in SUBSET (Comps \X Component)
    BY WokenType
  <2>d. IF KindOf[d] \in attached THEN Deliver(objects)
        ELSE UNCHANGED <<queue, missed, faults>>
    BY <1>7 DEF Change
  <2>m. <<d, new>> \in objects
    OBVIOUS
  <2> HIDE DEF objects
  <2>1. /\ UNCHANGED <<watches, worker, report>>
        /\ \A c \in Comps : comp'[c] = IF c = d THEN new ELSE comp[c]
    BY <1>7 DEF Change, TypeOK
  <2>2. queue \subseteq queue' /\ \A a \in Apps : missed[a] \subseteq missed'[a]
    BY <2>o, <2>d, Delivery
  <2>3. ASSUME NEW a \in Apps, KindOf[d] \in attached, new.state # Gone, a \in new.matches
        PROVE  a \in queue' \/ d \in missed'[a]
    BY <2>o, <2>d, <2>m, <2>3, Delivery
  <2>4. \A a \in Apps : Covered(a)'
    BY <2>1, <2>2 DEF InformedInv, Covered, watches, worker
  <2>5. ASSUME NEW a \in Apps, NEW c \in Comps, KindOf[c] \in attached',
               Matching(a)'[c] # Gone
        PROVE  Informed(a, c)' \/ c \in missed'[a]
    <3>1. CASE c = d
      <4>1. new.state # Gone /\ a \in new.matches
        BY <2>1, <2>5, <3>1 DEF Matching
      <4> QED BY <2>1, <2>3, <2>5, <3>1, <4>1 DEF Informed, watches
    <3>2. CASE c # d
      <4>1. Matching(a)'[c] = Matching(a)[c]
        BY <2>1, <3>2 DEF Matching
      <4> QED BY <2>1, <2>2, <2>5, <4>1 DEF InformedInv, Informed, watches, worker
    <3> QED BY <3>1, <3>2
  <2> QED BY <2>4, <2>5 DEF InformedInv
<1>8. CASE Restart
  BY <1>8 DEF Restart, InformedInv, Covered, Informed
<1>9. CASE Resync
  BY <1>9 DEF Resync, InformedInv, Covered, Informed
<1>10. CASE UNCHANGED vars
  BY <1>10, <1>u DEF vars, InformedInv, Covered, Informed
<1> QED
  BY <1>1, <1>2, <1>3, <1>4, <1>5, <1>6, <1>7, <1>8, <1>9, <1>10
  DEF Next, Reconcile

\* An Application at rest has reported what its watched kinds look like, also
\* if another one started the watch (ensureComponentWatches: one watch per
\* kind serves every Application that uses it), but for components whose event
\* was dropped since it last listed because applicationsForComponent could not
\* list the Applications.
THEOREM RestIsReported == Spec => []WatchedIsReported
<1>1. Init => InformedInv
  BY DEF Init, InformedInv, Covered
<1>2. TypeOK /\ TypeOK' /\ InformedInv /\ [Next]_vars => InformedInv'
  BY InformedNext
<1>3. TypeOK /\ RegistryInv /\ InformedInv => WatchedIsReported
  <2> SUFFICES ASSUME TypeOK, RegistryInv, InformedInv, AtRest, NEW a \in Apps
               PROVE  /\ Declared[a] \subseteq attached \cup lacking
                      /\ \A c \in Comps \ missed[a] :
                           KindOf[c] \in attached /\ Matching(a)[c] # Gone =>
                             report[a][c] = Matching(a)[c]
    BY DEF WatchedIsReported
  <2>1. a \notin queue /\ starting = {} /\ \A b \in Apps : at[b] = "idle"
    BY DEF AtRest, Busy
  <2>2. \A b \in Apps : holding[b] = NoKind
    BY <2>1 DEF TypeOK
  <2>3. registry \subseteq attached
    BY <2>1, <2>2, WatchesAssumption
    DEF RegistryInv, RegistryFaithful, TypeOK, WatchesAssumption
  <2>4. Declared[a] \subseteq attached \cup lacking
    BY <2>1, <2>3 DEF InformedInv, Covered
  <2>5. ASSUME NEW c \in Comps \ missed[a], KindOf[c] \in attached, Matching(a)[c] # Gone
        PROVE  report[a][c] = Matching(a)[c]
    BY <2>1, <2>5 DEF InformedInv, Informed
  <2> QED BY <2>4, <2>5
<1> QED
  BY <1>1, <1>2, <1>3, WatchTypes, RegistryInvariant, PTL DEF Spec

=============================================================================
