------------------------ MODULE PushConnectionProofs ------------------------
(***************************************************************************)
(* Theorems about PushConnection, for any heartbeat, backoff cap, snapshot *)
(* time, pong delay and number of failures: what a rejection, a heartbeat  *)
(* and a shutdown are promised.                                            *)
(***************************************************************************)
EXTENDS PushConnection, TLAPS

-----------------------------------------------------------------------------
(* Type correctness *)

\* The wait after a connection and its doubling stay within the cap.
LEMMA WaitType ==
  ASSUME TypeOK, NEW connected \in BOOLEAN
  PROVE  /\ NextWait(connected) \in 1..MaxBackoff
         /\ Doubled(NextWait(connected)) \in 1..MaxBackoff
<1>1. NextWait(connected) \in 1..MaxBackoff
  BY ConnectionAssumption DEF ConnectionAssumption, NextWait, TypeOK
<1> QED
  BY <1>1, ConnectionAssumption DEF ConnectionAssumption, Doubled, Least

\* The read deadline is a number of ticks (three heartbeats).
LEMMA Constants ==
  /\ Heartbeat \in Nat \ {0} /\ MaxBackoff \in Nat \ {0} /\ MaxSetup \in Nat
  /\ Delay \in Nat /\ ReadTimeout \in Nat /\ ReadTimeout = 3 * Heartbeat
  /\ 0 \in 0..ReadTimeout /\ ReadTimeout \in 0..ReadTimeout /\ Delay \in 0..Delay
  BY ConnectionAssumption DEF ConnectionAssumption, ReadTimeout

\* The types after the end of a connection or of an attempt at one (runOnce).
LEMMA ReturnType ==
  ASSUME TypeOK, NEW connected \in BOOLEAN, Return(connected), faults' \in Nat
  PROVE  TypeOK'
<1>1. /\ reader' = "none" /\ cancelled' = FALSE /\ deadline' \in 0..ReadTimeout
      /\ link' = "up" /\ closing' = FALSE /\ pong' = NoPong
      /\ UNCHANGED <<hub, turns, stop, calm, overtime>>
  BY Constants DEF Return, hubside, history
<1>2. /\ phase' \in {"stopped", "sleeping"} /\ rejected' \in BOOLEAN
      /\ timer' \in Nat /\ backoff' \in 1..MaxBackoff
  <2>1. /\ NextWait(connected) \in Nat
        /\ Doubled(NextWait(connected)) \in 1..MaxBackoff
    BY WaitType, Constants
  <2>2. timer \in Nat /\ backoff \in 1..MaxBackoff /\ rejected \in BOOLEAN
    BY DEF TypeOK
  <2>3. CASE stop
    BY <2>2, <2>3 DEF Return
  <2>4. CASE ~stop
    BY <2>1, <2>4 DEF Return
  <2> QED BY <2>3, <2>4
<1> QED
  BY <1>1, <1>2 DEF TypeOK

\* Every step of the program and of its surroundings keeps the types.
LEMMA TypeNext == TypeOK /\ [Next]_vars => TypeOK'
<1> SUFFICES ASSUME TypeOK, [Next]_vars PROVE TypeOK'
  OBVIOUS
<1>f. ASSUME Fault PROVE faults' \in Nat
  BY <1>f DEF Fault, TypeOK
<1>1. CASE CachesSynced \/ Wake
  <2>1. /\ phase' \in {"stopped", "dialing"} /\ UNCHANGED <<timer, backoff, rejected>>
        /\ UNCHANGED <<reader, cancelled, deadline, link, closing, pong>>
        /\ UNCHANGED <<hub, turns, stop, calm, overtime, faults>>
    BY <1>1 DEF CachesSynced, Wake, reading, network, hubside, history
  <2> QED BY <2>1 DEF TypeOK
<1>2. CASE DialFails \/ RegisterFails \/ Join
  <2>1. faults' \in Nat
    BY <1>2, <1>f DEF DialFails, RegisterFails, Join, TypeOK
  <2>2. Return(TRUE) \/ Return(FALSE)
    BY <1>2 DEF DialFails, RegisterFails, Join
  <2> QED BY <2>1, <2>2, ReturnType
<1>3. CASE Dial
  <2>1. /\ phase' = "registering" /\ deadline' \in 0..ReadTimeout
        /\ link' = "up" /\ closing' = FALSE /\ pong' = NoPong
        /\ UNCHANGED <<timer, backoff, rejected, reader, cancelled>>
        /\ UNCHANGED <<hub, turns, stop, calm, overtime, faults>>
    BY <1>3, Constants DEF Dial, hubside, history
  <2> QED BY <2>1 DEF TypeOK, Connected
<1>4. CASE Register \/ WriteHello \/ WriteSnapshot
  <2>1. /\ phase' \in Connected /\ reader' \in {reader, "reading"}
        /\ timer' \in Nat /\ cancelled' \in BOOLEAN
        /\ UNCHANGED <<backoff, rejected, deadline, link, closing, pong>>
        /\ UNCHANGED <<hub, turns, stop, calm, overtime, faults>>
    <3>0. timer \in Nat /\ cancelled \in BOOLEAN
      BY DEF TypeOK
    <3>1. CASE Register
      BY <3>0, <3>1 DEF Register, network, hubside, history, Connected
    <3>2. CASE WriteHello /\ link = "cut"
      BY <3>0, <3>2 DEF WriteHello, Cancel, network, hubside, history, Connected
    <3>3. CASE WriteHello /\ link # "cut"
      <4>1. timer' \in 0..MaxSetup
        BY <3>3 DEF WriteHello
      <4>2. timer' \in Nat
        BY <4>1, Constants
      <4> QED BY <3>0, <3>3, <4>2 DEF WriteHello, network, hubside, history, Connected
    <3>4. CASE WriteSnapshot
      BY <3>0, <3>4, Constants
      DEF WriteSnapshot, reading, network, hubside, history, Connected
    <3> QED BY <1>4, <3>1, <3>2, <3>3, <3>4
  <2> QED BY <2>1 DEF TypeOK
<1>5. CASE SnapshotFails \/ WriteLoopEnds
  <2>1. faults' \in Nat
    BY <1>5, <1>f DEF SnapshotFails, WriteLoopEnds, TypeOK
  <2>2. /\ phase' = "joining" /\ timer' = 0 /\ cancelled' = TRUE
        /\ UNCHANGED <<backoff, rejected, reader, deadline, link, closing, pong>>
        /\ UNCHANGED <<hub, turns, stop, calm, overtime>>
    BY <1>5 DEF SnapshotFails, WriteLoopEnds, Cancel, network, hubside, history
  <2> QED BY <2>1, <2>2 DEF TypeOK, Connected
<1>6. CASE SendHeartbeat
  <2>1. /\ timer' \in Nat /\ pong' \in (0..Delay) \cup {NoPong}
        /\ UNCHANGED <<phase, backoff, rejected, reader, cancelled, deadline, link>>
        /\ UNCHANGED <<closing, hub, turns, stop, calm, overtime, faults>>
    BY <1>6, Constants DEF SendHeartbeat, TypeOK, reading, hubside, history
  <2> QED BY <2>1 DEF TypeOK
<1>7. CASE ReadLoop
  <2>1. /\ reader' \in {reader, "exited"} /\ cancelled' \in BOOLEAN
        /\ rejected' \in BOOLEAN /\ closing' \in BOOLEAN
        /\ deadline' \in 0..ReadTimeout /\ pong' \in {pong, NoPong}
        /\ UNCHANGED <<phase, timer, backoff, link>>
        /\ UNCHANGED <<hub, turns, stop, calm, overtime, faults>>
    <3>0. /\ cancelled \in BOOLEAN /\ rejected \in BOOLEAN /\ closing \in BOOLEAN
          /\ deadline \in 0..ReadTimeout
      BY DEF TypeOK
    <3>1. CASE ReadPong
      BY <3>0, <3>1, Constants DEF ReadPong, main, hubside, history
    <3>2. CASE ReadPolicyViolation
      BY <3>0, <3>2 DEF ReadPolicyViolation, ReaderExits, hubside, history
    <3>3. CASE ReadError
      BY <3>0, <3>3 DEF ReadError, ReaderExits, main, network, hubside, history
    <3> QED BY <1>7, <3>1, <3>2, <3>3 DEF ReadLoop
  <2> QED BY <2>1 DEF TypeOK
<1>8. CASE HubRejects
  <2>1. calm' \in 0..MaxBackoff /\ closing' \in BOOLEAN
    <3>1. calm' \in {0, calm}
      BY <1>8 DEF HubRejects
    <3>2. 0 \in 0..MaxBackoff /\ calm \in 0..MaxBackoff
      BY Constants DEF TypeOK
    <3>3. closing' = (reader = "reading") \/ closing' = FALSE
      BY <1>8 DEF HubRejects
    <3> QED BY <3>1, <3>2, <3>3
  <2>2. /\ link' = "cut" /\ pong' = NoPong
        /\ UNCHANGED <<phase, timer, backoff, rejected, reader, cancelled, deadline>>
        /\ UNCHANGED <<hub, turns, stop, overtime, faults>>
    BY <1>8 DEF HubRejects, main, reading, hubside
  <2> QED BY <2>1, <2>2 DEF TypeOK
<1>9. CASE LinkFails \/ HubTurns \/ ShutDown
  <2>1. faults' \in Nat /\ turns' \in Nat
    BY <1>9, <1>f DEF LinkFails, HubTurns, ShutDown, TypeOK, hubside
  <2>2. /\ link' \in {link, "silent", "cut"} /\ pong' \in {pong, NoPong}
        /\ hub' \in {"accepts", "rejects", "away"} /\ stop' \in BOOLEAN
        /\ UNCHANGED <<phase, timer, backoff, rejected, reader, cancelled, deadline>>
        /\ UNCHANGED <<closing, calm, overtime>>
    BY <1>9
    DEF LinkFails, HubTurns, ShutDown, TypeOK, main, reading, network, hubside, history
  <2> QED BY <2>1, <2>2 DEF TypeOK
<1>10. CASE Tick
  <2>1. timer' \in Nat /\ deadline' \in 0..ReadTimeout
    BY <1>10, Constants DEF Tick, Down, TypeOK
  <2>2. pong' \in (0..Delay) \cup {NoPong}
    BY <1>10, Constants DEF Tick, Down, TypeOK, NoPong
  <2>3. calm' \in 0..MaxBackoff /\ overtime' \in Nat
    BY <1>10, Constants DEF Tick, Least, TypeOK
  <2>4. /\ UNCHANGED <<phase, backoff, rejected, reader, cancelled, link, closing>>
        /\ UNCHANGED <<hub, turns, stop, faults>>
    BY <1>10 DEF Tick, hubside
  <2> QED BY <2>1, <2>2, <2>3, <2>4 DEF TypeOK
<1>11. CASE UNCHANGED vars
  BY <1>11 DEF TypeOK, vars
<1> QED
  BY <1>1, <1>2, <1>3, <1>4, <1>5, <1>6, <1>7, <1>8, <1>9, <1>10, <1>11
  DEF Next, StartLoop, Stream, World

\* Backoff, deadline and pong stay in their ranges (Start, runOnce, readLoop).
THEOREM ConnectionTypes == Spec => []TypeOK
<1>1. Init => TypeOK
  <2> SUFFICES ASSUME Init PROVE TypeOK
    OBVIOUS
  <2>1. /\ phase = "syncing" /\ timer = 0 /\ backoff = 1 /\ rejected = FALSE
        /\ reader = "none" /\ cancelled = FALSE /\ deadline = 0
    BY DEF Init
  <2>2. /\ link = "up" /\ closing = FALSE /\ pong = NoPong /\ stop = FALSE
        /\ hub \in {"accepts", "rejects", "away"}
        /\ calm = MaxBackoff /\ overtime = 0 /\ faults = 0 /\ turns = 0
    BY DEF Init
  <2>3. 1 \in 1..MaxBackoff /\ MaxBackoff \in 0..MaxBackoff
    BY Constants
  <2> QED BY <2>1, <2>2, <2>3, Constants DEF TypeOK
<1> QED
  BY <1>1, TypeNext, PTL DEF Spec

-----------------------------------------------------------------------------
(* A rejection backs off *)

\* A rejection not yet slept off is on its way to Start: the close frame waits
\* for the read loop, the flag is set, or the sleep is long enough.
RejectionInv ==
  /\ phase \in Connected /\ calm < MaxBackoff =>
       rejected \/ (closing /\ reader = "reading")
  /\ phase = "sleeping" => timer + calm >= MaxBackoff
  /\ phase \in {"syncing", "dialing", "registering"} => calm >= MaxBackoff
  /\ closing => link = "cut"

\* Where a connection ends, the reader has delivered the rejection.
LEMMA ReturnBacksOff ==
  ASSUME TypeOK, NEW connected \in BOOLEAN, Return(connected),
         calm < MaxBackoff => rejected
  PROVE  RejectionInv'
<1>c. MaxBackoff \in Nat /\ calm \in 0..MaxBackoff /\ calm' = calm
  BY ConnectionAssumption DEF TypeOK, ConnectionAssumption, Return, history
<1>1. CASE stop
  BY <1>1 DEF Return, RejectionInv, Connected
<1>2. CASE ~stop
  <2>1. timer' = NextWait(connected) /\ NextWait(connected) \in 1..MaxBackoff
    BY <1>2, WaitType DEF Return
  <2>2. timer' + calm' >= MaxBackoff
    <3>1. CASE calm < MaxBackoff
      BY <2>1, <3>1, <1>c DEF NextWait
    <3>2. CASE calm >= MaxBackoff
      BY <2>1, <3>2, <1>c
    <3> QED BY <3>1, <3>2, <1>c
  <2> QED BY <1>2, <2>2 DEF Return, RejectionInv, Connected
<1> QED
  BY <1>1, <1>2

\* No step loses a rejection.
LEMMA RejectionNext ==
  ASSUME TypeOK, RejectionInv, [Next]_vars PROVE RejectionInv'
<1>c. MaxBackoff \in Nat /\ calm \in 0..MaxBackoff /\ timer \in Nat
  BY ConnectionAssumption DEF TypeOK, ConnectionAssumption
<1>1. CASE CachesSynced
  BY <1>1 DEF CachesSynced, RejectionInv, network, history, Connected
<1>2. CASE Wake
  BY <1>2, <1>c DEF Wake, RejectionInv, network, history, Connected
<1>3. CASE DialFails \/ RegisterFails \/ Join
  <2>1. calm < MaxBackoff => rejected
    <3>1. CASE phase \in {"dialing", "registering"}
      BY <3>1, <1>c DEF RejectionInv
    <3>2. CASE phase = "joining" /\ reader = "exited"
      BY <3>2 DEF RejectionInv, Connected
    <3> QED BY <1>3, <3>1, <3>2 DEF DialFails, RegisterFails, Join
  <2>2. Return(TRUE) \/ Return(FALSE)
    BY <1>3 DEF DialFails, RegisterFails, Join
  <2>3. TRUE \in BOOLEAN /\ FALSE \in BOOLEAN
    OBVIOUS
  <2>4. CASE Return(TRUE)
    BY <2>1, <2>3, <2>4, ReturnBacksOff
  <2>5. CASE Return(FALSE)
    BY <2>1, <2>3, <2>5, ReturnBacksOff
  <2> QED BY <2>2, <2>4, <2>5
<1>4. CASE Dial
  <2>1. /\ phase = "dialing" /\ phase' = "registering" /\ calm' = calm
        /\ closing' = FALSE
    BY <1>4 DEF Dial, history
  <2>2. calm' >= MaxBackoff
    BY <2>1 DEF RejectionInv
  <2> QED BY <2>1, <2>2, <1>c DEF RejectionInv
<1>5. CASE Register \/ WriteHello \/ WriteSnapshot \/ SnapshotFails \/ WriteLoopEnds
  <2>1. /\ phase' \in Connected \ {"registering"} /\ phase \in Connected
        /\ UNCHANGED <<calm, rejected, closing, link>>
        /\ reader' \in {reader, "reading"}
    BY <1>5
    DEF Register, WriteHello, WriteSnapshot, SnapshotFails, WriteLoopEnds, Cancel,
        reading, network, history, Connected
  <2> QED BY <2>1 DEF RejectionInv, Connected
<1>6. CASE SendHeartbeat
  BY <1>6 DEF SendHeartbeat, RejectionInv, reading, history, Connected
<1>7. CASE ReadPong
  BY <1>7 DEF ReadPong, RejectionInv, main, history
<1>8. CASE ReadPolicyViolation
  BY <1>8 DEF ReadPolicyViolation, RejectionInv, ReaderExits, history
<1>9. CASE ReadError
  BY <1>9 DEF ReadError, RejectionInv, ReaderExits, main, network, history
<1>10. CASE HubRejects
  <2>1. /\ phase \in Connected \ {"registering"} /\ phase' = phase
        /\ UNCHANGED <<rejected, reader>> /\ link = "up" /\ link' = "cut"
    BY <1>10 DEF HubRejects, main, reading, Connected
  <2>2. \/ closing' /\ reader = "reading"
        \/ ~closing' /\ calm' = calm
    <3>1. closing' = FALSE \/ closing' = (reader = "reading")
      BY <1>10 DEF HubRejects
    <3>2. calm' = IF closing' THEN 0 ELSE calm
      BY <1>10 DEF HubRejects
    <3> QED BY <3>1, <3>2
  <2>3. ~closing
    BY <2>1 DEF RejectionInv
  <2> QED BY <2>1, <2>2, <2>3 DEF RejectionInv, Connected
<1>11. CASE LinkFails
  <2>1. /\ link = "up" /\ phase' = phase
        /\ UNCHANGED <<closing, rejected, reader, calm, timer>>
    BY <1>11 DEF LinkFails, main, reading, history
  <2> QED BY <2>1 DEF RejectionInv, Connected
<1>12. CASE HubTurns \/ ShutDown \/ UNCHANGED vars
  <2>1. UNCHANGED <<phase, timer, rejected, reader, closing, link, calm>>
    BY <1>12 DEF HubTurns, ShutDown, vars, main, reading, network, history
  <2> QED BY <2>1 DEF RejectionInv, Connected
<1>13. CASE Tick
  <2>1. /\ UNCHANGED <<phase, rejected, reader, closing, link>>
        /\ phase \in {"sleeping", "snapshot", "streaming", "joining"}
    BY <1>13 DEF Tick, Waiting
  <2>2. calm' = Least(calm + 1, MaxBackoff) /\ timer' = Down(timer)
    BY <1>13 DEF Tick
  <2>3. phase = "sleeping" => timer > 0
    BY <1>13 DEF Tick, Waiting
  <2>4. calm' < MaxBackoff => calm < MaxBackoff
    BY <2>2, <1>c DEF Least
  <2>5. phase = "sleeping" => timer' + calm' >= MaxBackoff
    BY <2>2, <2>3, <1>c DEF RejectionInv, Least, Down
  <2> QED BY <2>1, <2>4, <2>5 DEF RejectionInv, Connected
<1> QED
  BY <1>1, <1>2, <1>3, <1>4, <1>5, <1>6, <1>7, <1>8, <1>9, <1>10, <1>11, <1>12, <1>13
  DEF Next, StartLoop, Stream, ReadLoop, World

\* After a rejection the hub is left alone for the longest backoff (Start,
\* runOnce), whatever the three goroutines were doing when it came.
THEOREM RejectionsBackOff == Spec => RejectionBacksOff
<1>1. Init => RejectionInv
  <2> SUFFICES ASSUME Init PROVE RejectionInv
    OBVIOUS
  <2>1. phase = "syncing" /\ closing = FALSE /\ calm = MaxBackoff
    BY DEF Init
  <2> QED BY <2>1, Constants DEF RejectionInv, Connected
<1>2. TypeOK /\ RejectionInv /\ [Next]_vars => RejectionInv'
  BY RejectionNext
<1>3. TypeOK /\ RejectionInv /\ [Next]_vars
        => [phase' = "dialing" /\ phase # "dialing" => calm >= MaxBackoff]_phase
  <2> SUFFICES ASSUME TypeOK, RejectionInv, [Next]_vars, phase' = "dialing",
                      phase # "dialing"
               PROVE  calm >= MaxBackoff
    OBVIOUS
  <2>1. CachesSynced \/ Wake
    <3>1. ~(DialFails \/ RegisterFails \/ Join)
      BY DEF DialFails, RegisterFails, Join, Return
    <3>2. ~(Dial \/ Stream)
      BY DEF Dial, Stream, Register, WriteHello, WriteSnapshot, SnapshotFails,
         SendHeartbeat, WriteLoopEnds, Cancel
    <3>3. ~(ReadLoop \/ World \/ Tick \/ UNCHANGED vars)
      BY DEF ReadLoop, ReadPong, ReadPolicyViolation, ReadError, World, HubRejects,
         LinkFails, HubTurns, ShutDown, Tick, vars, main
    <3> QED BY <3>1, <3>2, <3>3 DEF Next, StartLoop
  <2>2. CASE CachesSynced
    BY <2>2 DEF CachesSynced, RejectionInv
  <2>3. CASE Wake
    <3>1. phase = "sleeping" /\ timer = 0
      BY <2>3 DEF Wake
    <3> QED BY <3>1, Constants DEF RejectionInv, TypeOK
  <2> QED BY <2>1, <2>2, <2>3
<1> QED
  BY <1>1, <1>2, <1>3, ConnectionTypes, PTL DEF Spec, RejectionBacksOff

-----------------------------------------------------------------------------
(* A shutdown is bounded *)

\* After a stop time passes only while a snapshot is written and while runOnce
\* waits for the read loop, which ends by its deadline; a pong that is still on
\* its way can move that deadline once.
OvertimeInv ==
  /\ overtime <= ReadTimeout + Delay
  /\ ~stop => overtime = 0
  /\ phase \in {"syncing", "dialing", "sleeping", "registering", "greeting"} =>
       overtime = 0
  /\ phase = "snapshot" => timer <= MaxSetup
  /\ stop /\ phase = "snapshot" => overtime + timer <= MaxSetup
  /\ stop /\ phase = "streaming" => overtime = 0 \/ timer > 0
  /\ reader = "reading" /\ pong = NoPong => overtime + deadline <= ReadTimeout + Delay
  /\ reader = "reading" /\ pong # NoPong => overtime + pong <= Delay

\* The types that the bounds are about.
LEMMA OvertimeTypes ==
  ASSUME TypeOK
  PROVE  /\ timer \in Nat /\ overtime \in Nat /\ deadline \in Nat
         /\ deadline <= ReadTimeout /\ stop \in BOOLEAN
         /\ pong \in Int /\ pong <= Delay /\ (pong # NoPong => pong >= 0)
         /\ NoPong = -1
<1>1. pong \in (0..Delay) \cup {NoPong} /\ deadline \in 0..ReadTimeout
  BY DEF TypeOK
<1> QED
  BY <1>1, Constants DEF TypeOK, NoPong

\* Nothing is overdue as long as no time has passed.
LEMMA NoOvertime ==
  ASSUME TypeOK', overtime' = 0,
         phase' = "snapshot" => timer' <= MaxSetup
  PROVE  OvertimeInv'
<1>1. \A d \in 0..ReadTimeout : 0 + d <= ReadTimeout + Delay
  BY Constants
<1>2. \A p \in (0..Delay) \cup {NoPong} : p # NoPong => 0 + p <= Delay
  BY Constants
<1>3. \A t \in Nat : 0 + t = t
  OBVIOUS
<1>4. /\ deadline' \in 0..ReadTimeout /\ pong' \in (0..Delay) \cup {NoPong}
      /\ timer' \in Nat
  BY DEF TypeOK
<1>5. /\ 0 + deadline' <= ReadTimeout + Delay
      /\ (pong' # NoPong => 0 + pong' <= Delay) /\ 0 + timer' = timer'
  BY <1>1, <1>2, <1>3, <1>4
<1>6. 0 <= ReadTimeout + Delay
  BY Constants
<1> QED
  BY <1>5, <1>6 DEF OvertimeInv

\* No step takes more time after a stop than the bounds leave.
LEMMA OvertimeNext ==
  ASSUME MaxSetup <= ReadTimeout + Delay, TypeOK, TypeOK', OvertimeInv, [Next]_vars
  PROVE  OvertimeInv'
<1>t. /\ timer \in Nat /\ overtime \in Nat /\ deadline \in Nat
      /\ deadline <= ReadTimeout /\ stop \in BOOLEAN
      /\ pong \in Int /\ pong <= Delay /\ (pong # NoPong => pong >= 0)
      /\ NoPong = -1
  BY OvertimeTypes
<1>1. CASE CachesSynced \/ Wake
  <2>1. /\ phase' \in {"stopped", "dialing"} /\ overtime = 0 /\ overtime' = overtime
    BY <1>1 DEF CachesSynced, Wake, OvertimeInv, history
  <2> QED BY <2>1, NoOvertime
<1>2. CASE DialFails \/ RegisterFails \/ Join
  <2>1. Return(TRUE) \/ Return(FALSE)
    BY <1>2 DEF DialFails, RegisterFails, Join
  <2>2. /\ reader' = "none" /\ stop' = stop /\ overtime' = overtime
        /\ phase' \in {"stopped", "sleeping"} /\ (~stop => overtime = 0)
        /\ (stop => phase' = "stopped") /\ overtime <= ReadTimeout + Delay
    BY <2>1 DEF Return, OvertimeInv, history
  <2>3. stop => phase' # "sleeping" /\ stop'
    BY <2>2
  <2>4. overtime' <= ReadTimeout' + Delay
    BY <2>2 DEF ReadTimeout
  <2> QED BY <2>2, <2>3, <2>4, <1>t DEF OvertimeInv
<1>3. CASE Dial \/ Register
  <2>1. overtime = 0 /\ overtime' = overtime /\ phase' \in {"registering", "greeting"}
    BY <1>3 DEF Dial, Register, OvertimeInv, history
  <2> QED BY <2>1, NoOvertime
<1>4. CASE WriteHello
  <2>1. /\ overtime = 0 /\ overtime' = overtime
        /\ phase' = "joining" \/ (phase' = "snapshot" /\ timer' \in 0..MaxSetup)
    BY <1>4 DEF WriteHello, Cancel, OvertimeInv, history
  <2>2. phase' = "snapshot" => timer' <= MaxSetup
    BY <2>1, Constants
  <2> QED BY <2>1, <2>2, NoOvertime
<1>5. CASE WriteSnapshot
  <2>1. /\ phase' = "streaming" /\ timer' = Heartbeat
        /\ UNCHANGED <<reader, deadline, pong, stop, overtime>>
    BY <1>5 DEF WriteSnapshot, reading, network, history
  <2>2. timer' > 0
    BY <2>1, Constants
  <2> QED BY <2>1, <2>2 DEF OvertimeInv
<1>6. CASE SnapshotFails \/ WriteLoopEnds
  <2>1. /\ phase' = "joining"
        /\ UNCHANGED <<reader, deadline, pong, stop, overtime>>
    BY <1>6 DEF SnapshotFails, WriteLoopEnds, Cancel, network, history
  <2> QED BY <2>1 DEF OvertimeInv
<1>7. CASE SendHeartbeat
  <2>1. /\ phase = "streaming" /\ phase' = phase /\ timer = 0 /\ overtime' = overtime
    BY <1>7 DEF SendHeartbeat, history
  <2>2. overtime = 0
    BY <2>1, <1>t DEF OvertimeInv
  <2> QED BY <2>1, <2>2, NoOvertime
<1>8. CASE ReadPong
  <2>1. /\ reader = "reading" /\ pong # NoPong /\ pong' = NoPong
        /\ deadline' = ReadTimeout
        /\ UNCHANGED <<phase, timer, reader, stop, overtime>>
    BY <1>8 DEF ReadPong, main, history
  <2>2. overtime + deadline' <= ReadTimeout + Delay
    <3>1. overtime + pong <= Delay /\ pong >= 0
      BY <2>1, <1>t DEF OvertimeInv
    <3> QED BY <2>1, <3>1, <1>t, Constants
  <2> QED BY <2>1, <2>2 DEF OvertimeInv
<1>9. CASE ReadPolicyViolation \/ ReadError
  <2>1. reader' = "exited" /\ UNCHANGED <<phase, timer, stop, overtime>>
    BY <1>9 DEF ReadPolicyViolation, ReadError, ReaderExits, main, history
  <2> QED BY <2>1 DEF OvertimeInv
<1>10. CASE HubRejects \/ LinkFails
  <2>1. /\ pong' = NoPong
        /\ UNCHANGED <<phase, timer, reader, deadline, stop, overtime>>
    BY <1>10 DEF HubRejects, LinkFails, main, reading, history
  <2>2. reader = "reading" => overtime + deadline <= ReadTimeout + Delay
    <3>1. CASE reader = "reading" /\ pong # NoPong
      <4>1. overtime + pong <= Delay
        BY <3>1 DEF OvertimeInv
      <4> QED BY <3>1, <4>1, <1>t, Constants
    <3> QED BY <3>1 DEF OvertimeInv
  <2> QED BY <2>1, <2>2 DEF OvertimeInv
<1>11. CASE HubTurns \/ UNCHANGED vars
  <2>1. UNCHANGED <<phase, timer, reader, deadline, pong, stop, overtime>>
    BY <1>11 DEF HubTurns, vars, main, reading, network, history
  <2> QED BY <2>1 DEF OvertimeInv
<1>12. CASE ShutDown
  <2>1. /\ ~stop /\ UNCHANGED <<phase, timer, overtime>>
    BY <1>12 DEF ShutDown, main, history
  <2>2. overtime = 0 /\ (phase = "snapshot" => timer <= MaxSetup)
    BY <2>1 DEF OvertimeInv
  <2> QED BY <2>1, <2>2, NoOvertime
<1>13. CASE Tick /\ ~stop
  <2>1. overtime' = 0 /\ phase' = phase /\ timer' = Down(timer)
    BY <1>13 DEF Tick
  <2>2. phase' = "snapshot" => timer' <= MaxSetup
    BY <2>1, <1>t, Constants DEF OvertimeInv, Down
  <2> QED BY <2>1, <2>2, NoOvertime
<1>14. CASE Tick /\ stop
  <2>1. /\ overtime' = overtime + 1 /\ UNCHANGED <<phase, reader, stop>>
        /\ timer' = Down(timer) /\ deadline' = Down(deadline) /\ pong' = Down(pong)
    BY <1>14 DEF Tick
  <2>2. /\ pong # 0 /\ (reader = "reading" => deadline > 0)
        /\ \/ phase = "snapshot" /\ timer > 0
           \/ phase = "joining" /\ reader = "reading"
    BY <1>14 DEF Tick, Waiting
  <2>3. /\ reader = "reading" /\ pong = NoPong =>
             overtime + 1 <= ReadTimeout + Delay
               /\ overtime' + deadline' <= ReadTimeout + Delay
    <3> SUFFICES ASSUME reader = "reading", pong = NoPong
                 PROVE  /\ overtime + 1 <= ReadTimeout + Delay
                        /\ overtime' + deadline' <= ReadTimeout + Delay
      OBVIOUS
    <3>1. overtime + deadline <= ReadTimeout + Delay /\ deadline > 0
      BY <2>2 DEF OvertimeInv
    <3>2. deadline' = deadline - 1
      BY <2>1, <3>1 DEF Down
    <3> QED BY <2>1, <3>1, <3>2, <1>t, Constants
  <2>4. /\ reader = "reading" /\ pong # NoPong =>
             overtime + 1 <= ReadTimeout + Delay /\ overtime' + pong' <= Delay
    <3> SUFFICES ASSUME reader = "reading", pong # NoPong
                 PROVE  /\ overtime + 1 <= ReadTimeout + Delay
                        /\ overtime' + pong' <= Delay
      OBVIOUS
    <3>1. overtime + pong <= Delay /\ pong > 0
      BY <2>2, <1>t DEF OvertimeInv
    <3>2. pong' = pong - 1
      BY <2>1, <3>1 DEF Down
    <3> QED BY <2>1, <3>1, <3>2, <1>t, Constants
  <2>5. pong' = NoPong <=> pong = NoPong
    BY <2>1, <2>2, <1>t DEF Down
  <2>6. phase = "snapshot" =>
          /\ timer' <= MaxSetup /\ overtime' + timer' <= MaxSetup
          /\ overtime + 1 <= ReadTimeout + Delay
    <3> SUFFICES ASSUME phase = "snapshot"
                 PROVE  /\ timer' <= MaxSetup /\ overtime' + timer' <= MaxSetup
                        /\ overtime + 1 <= ReadTimeout + Delay
      OBVIOUS
    <3>1. timer > 0 /\ timer <= MaxSetup /\ overtime + timer <= MaxSetup
      BY <1>14, <2>2 DEF OvertimeInv
    <3>2. timer' = timer - 1
      BY <2>1, <3>1 DEF Down
    <3> QED BY <2>1, <3>1, <3>2, <1>t, Constants
  <2>7. overtime' <= ReadTimeout + Delay
    BY <2>1, <2>2, <2>3, <2>4, <2>6
  <2> QED BY <1>14, <2>1, <2>2, <2>3, <2>4, <2>5, <2>6, <2>7 DEF OvertimeInv
<1> QED
  BY <1>1, <1>2, <1>3, <1>4, <1>5, <1>6, <1>7, <1>8, <1>9, <1>10, <1>11, <1>12,
     <1>13, <1>14
  DEF Next, StartLoop, Stream, ReadLoop, World

\* A shutdown takes at most the read deadline and a pong on its way (runOnce
\* waits for a read loop that its context does not wake), when no snapshot
\* takes longer than that.
THEOREM ShutdownsAreBounded ==
  MaxSetup <= ReadTimeout + Delay => (Spec => []ShutdownBounded)
<1> SUFFICES ASSUME MaxSetup <= ReadTimeout + Delay PROVE Spec => []ShutdownBounded
  OBVIOUS
<1>1. Init => OvertimeInv
  BY Constants DEF Init, OvertimeInv
<1>2. TypeOK /\ TypeOK' /\ OvertimeInv /\ [Next]_vars => OvertimeInv'
  BY OvertimeNext
<1>3. OvertimeInv => ShutdownBounded
  BY DEF OvertimeInv, ShutdownBounded
<1> QED
  BY <1>1, <1>2, <1>3, ConnectionTypes, PTL DEF Spec

-----------------------------------------------------------------------------
(* A hub that answers is not given up *)

\* While the link is up and the loops run, the read deadline lies behind the
\* next pong: the one that is on its way, or that of the next heartbeat.
InTime ==
  /\ phase \in {"registering", "greeting"} => pong = NoPong /\ deadline = ReadTimeout
  /\ phase = "snapshot" => pong = NoPong /\ timer + ReadTimeout <= deadline + MaxSetup
  /\ phase = "streaming" => timer <= Heartbeat
  /\ phase = "streaming" /\ pong = NoPong => timer + Delay < deadline
  /\ phase = "streaming" /\ pong # NoPong => pong < deadline

LiveInv ==
  /\ reader # "none" => phase \in {"greeting", "snapshot", "streaming", "joining"}
  /\ phase = "joining" => cancelled
  /\ closing => link = "cut"
  /\ Tight /\ link = "up" /\ ~cancelled => InTime

\* Where the loops do not run, nothing can be late.
LEMMA NotRunning ==
  ASSUME phase \notin {"registering", "greeting", "snapshot", "streaming"}
  PROVE  InTime
  BY DEF InTime

\* The deadline, in a tight setup, leaves room for a pong after the snapshot and
\* after each pong.
LEMMA TightDeadlines ==
  ASSUME Tight, NEW t \in Nat, NEW d \in Nat
  PROVE  /\ t + ReadTimeout <= d + MaxSetup => d > 0 /\ (t = 0 => Heartbeat + Delay < d)
         /\ t <= Heartbeat => t + Delay < ReadTimeout
         /\ t <= MaxSetup => t + ReadTimeout <= ReadTimeout + MaxSetup
  BY Constants DEF Tight

\* Every step of a running connection leaves the deadline behind the next pong.
LEMMA LiveNext ==
  ASSUME TypeOK, TypeOK', LiveInv, [Next]_vars PROVE LiveInv'
<1>t. /\ timer \in Nat /\ deadline \in Nat /\ deadline <= ReadTimeout
      /\ pong \in Int /\ pong <= Delay /\ (pong # NoPong => pong >= 0)
      /\ NoPong = -1
  BY OvertimeTypes
<1>1. CASE CachesSynced \/ Wake
  <2>1. /\ phase \in {"syncing", "sleeping"} /\ phase' \in {"stopped", "dialing"}
        /\ reader' = reader /\ closing' = closing /\ link' = link
    BY <1>1 DEF CachesSynced, Wake, reading, network
  <2> QED BY <2>1 DEF LiveInv, InTime
<1>2. CASE DialFails \/ RegisterFails \/ Join
  <2>1. Return(TRUE) \/ Return(FALSE)
    BY <1>2 DEF DialFails, RegisterFails, Join
  <2>2. reader' = "none" /\ closing' = FALSE /\ phase' \in {"stopped", "sleeping"}
    BY <2>1 DEF Return
  <2> QED BY <2>2 DEF LiveInv, InTime
<1>3. CASE Dial
  <2>1. /\ phase = "dialing" /\ phase' = "registering" /\ closing' = FALSE
        /\ pong' = NoPong /\ deadline' = ReadTimeout /\ reader' = reader
    BY <1>3 DEF Dial
  <2> QED BY <2>1 DEF LiveInv, InTime
<1>4. CASE Register
  <2>1. /\ phase = "registering" /\ phase' = "greeting" /\ reader' = "reading"
        /\ UNCHANGED <<cancelled, deadline, pong, link, closing>>
    BY <1>4 DEF Register, network
  <2> QED BY <2>1 DEF LiveInv, InTime
<1>5. CASE WriteHello
  <2>1. /\ phase = "greeting" /\ UNCHANGED <<reader, deadline, pong, link, closing>>
    BY <1>5 DEF WriteHello, network
  <2>2. \/ phase' = "joining" /\ cancelled'
        \/ phase' = "snapshot" /\ timer' \in 0..MaxSetup /\ cancelled' = cancelled
    BY <1>5 DEF WriteHello, Cancel
  <2>3. CASE phase' = "joining" /\ cancelled'
    BY <2>1, <2>3 DEF LiveInv
  <2>4. CASE phase' = "snapshot" /\ timer' \in 0..MaxSetup /\ cancelled' = cancelled
    <3>1. \A t \in 0..MaxSetup : t + ReadTimeout <= ReadTimeout + MaxSetup
      BY Constants
    <3>2. timer' + ReadTimeout <= ReadTimeout + MaxSetup
      BY <2>4, <3>1
    <3> QED BY <2>1, <2>4, <3>2 DEF LiveInv, InTime
  <2> QED BY <2>2, <2>3, <2>4
<1>6. CASE WriteSnapshot
  <2>1. /\ phase = "snapshot" /\ phase' = "streaming" /\ timer = 0 /\ timer' = Heartbeat
        /\ UNCHANGED <<reader, cancelled, deadline, pong, link, closing>>
    BY <1>6 DEF WriteSnapshot, reading, network
  <2>2. ASSUME Tight, link = "up", ~cancelled
        PROVE  pong = NoPong /\ Heartbeat + Delay < deadline
    <3>1. pong = NoPong /\ timer + ReadTimeout <= deadline + MaxSetup
      BY <2>1, <2>2 DEF LiveInv, InTime
    <3> QED BY <2>1, <2>2, <3>1, <1>t, TightDeadlines
  <2>3. Heartbeat <= Heartbeat
    BY Constants
  <2> QED BY <2>1, <2>2, <2>3 DEF LiveInv, InTime
<1>7. CASE SnapshotFails \/ WriteLoopEnds
  <2>1. /\ phase \in {"snapshot", "streaming"} /\ phase' = "joining" /\ cancelled'
        /\ UNCHANGED <<reader, closing, link>>
    BY <1>7 DEF SnapshotFails, WriteLoopEnds, Cancel, network
  <2> QED BY <2>1 DEF LiveInv
<1>8. CASE SendHeartbeat
  <2>1. /\ phase = "streaming" /\ phase' = phase /\ timer = 0 /\ timer' = Heartbeat
        /\ UNCHANGED <<reader, cancelled, deadline, link, closing>>
    BY <1>8 DEF SendHeartbeat, reading
  <2>2. pong' = IF link = "up" /\ pong = NoPong THEN Delay ELSE pong
    BY <1>8 DEF SendHeartbeat
  <2>3. ASSUME Tight, link = "up", ~cancelled
        PROVE  pong' # NoPong /\ pong' < deadline
    <3>1. CASE pong = NoPong
      <4>1. timer + Delay < deadline
        BY <2>1, <2>3, <3>1 DEF LiveInv, InTime
      <4>2. Delay < deadline /\ Delay # NoPong
        BY <2>1, <4>1, <1>t, Constants
      <4> QED BY <2>2, <2>3, <3>1, <4>2
    <3>2. CASE pong # NoPong
      BY <2>1, <2>2, <2>3, <3>2 DEF LiveInv, InTime
    <3> QED BY <3>1, <3>2
  <2>4. Heartbeat <= Heartbeat
    BY Constants
  <2> QED BY <2>1, <2>3, <2>4 DEF LiveInv, InTime
<1>9. CASE ReadPong
  <2>1. /\ reader = "reading" /\ pong # NoPong /\ pong' = NoPong /\ link = "up"
        /\ deadline' = ReadTimeout
        /\ UNCHANGED <<phase, timer, reader, cancelled, link, closing>>
    BY <1>9 DEF ReadPong, main
  <2>2. ASSUME Tight, ~cancelled
        PROVE  phase = "streaming" /\ timer <= Heartbeat
    BY <2>1, <2>2 DEF LiveInv, InTime
  <2>3. ASSUME Tight, ~cancelled PROVE timer + Delay < ReadTimeout
    BY <2>2, <2>3, <1>t, TightDeadlines
  <2> QED BY <2>1, <2>2, <2>3 DEF LiveInv, InTime
<1>10. CASE ReadPolicyViolation \/ ReadError
  <2>1. /\ reader = "reading" /\ reader' = "exited" /\ cancelled'
        /\ (closing' => closing) /\ UNCHANGED <<phase, link>>
    BY <1>10 DEF ReadPolicyViolation, ReadError, ReaderExits, main, network
  <2> QED BY <2>1 DEF LiveInv
<1>11. CASE HubRejects
  <2>1. link' = "cut" /\ UNCHANGED <<phase, reader, cancelled>>
    BY <1>11 DEF HubRejects, main, reading
  <2> QED BY <2>1 DEF LiveInv
<1>12. CASE LinkFails
  <2>1. /\ link = "up" /\ link' \in {"silent", "cut"}
        /\ UNCHANGED <<phase, reader, cancelled, closing>>
    BY <1>12 DEF LinkFails, main, reading
  <2> QED BY <2>1 DEF LiveInv
<1>13. CASE HubTurns \/ ShutDown \/ UNCHANGED vars
  <2>1. UNCHANGED <<phase, timer, reader, cancelled, deadline, closing, pong, link>>
    BY <1>13 DEF HubTurns, ShutDown, vars, main, reading, network
  <2> QED BY <2>1 DEF LiveInv, InTime
<1>14. CASE Tick
  <2>1. /\ UNCHANGED <<phase, reader, cancelled, link, closing>>
        /\ timer' = Down(timer) /\ deadline' = Down(deadline) /\ pong' = Down(pong)
        /\ pong # 0
    BY <1>14 DEF Tick, Waiting
  <2>2. \/ phase \in {"sleeping", "joining"}
        \/ phase \in {"snapshot", "streaming"} /\ timer > 0
    BY <1>14 DEF Tick, Waiting
  <2>3. CASE phase \in {"sleeping", "joining"}
    BY <2>1, <2>3 DEF LiveInv, InTime
  <2>4. CASE phase \in {"snapshot", "streaming"} /\ timer > 0
    <3>1. ASSUME Tight, link = "up", ~cancelled PROVE InTime'
      <4>1. InTime
        BY <3>1 DEF LiveInv
      <4>2. timer' = timer - 1
        BY <2>1, <2>4 DEF Down
      <4>3. CASE phase = "snapshot"
        <5>1. pong = NoPong /\ timer + ReadTimeout <= deadline + MaxSetup
          BY <4>1, <4>3 DEF InTime
        <5>2. deadline > 0
          BY <5>1, <3>1, <1>t, TightDeadlines
        <5>3. deadline' = deadline - 1 /\ pong' = pong
          BY <2>1, <5>1, <5>2, <1>t DEF Down
        <5>4. (timer - 1) + ReadTimeout <= (deadline - 1) + MaxSetup
          BY <5>1, <1>t, Constants
        <5> QED BY <2>1, <4>2, <4>3, <5>1, <5>3, <5>4 DEF InTime
      <4>4. CASE phase = "streaming" /\ pong = NoPong
        <5>1. timer <= Heartbeat /\ timer + Delay < deadline
          BY <4>1, <4>4 DEF InTime
        <5>2. deadline > 0 /\ timer - 1 <= Heartbeat /\ (timer - 1) + Delay < deadline - 1
          BY <5>1, <1>t, Constants
        <5>3. deadline' = deadline - 1 /\ pong' = pong
          BY <2>1, <4>4, <5>2, <1>t DEF Down
        <5> QED BY <2>1, <4>2, <4>4, <5>2, <5>3 DEF InTime
      <4>5. CASE phase = "streaming" /\ pong # NoPong
        <5>1. timer <= Heartbeat /\ pong < deadline
          BY <4>1, <4>5 DEF InTime
        <5>2. pong > 0
          BY <4>5, <2>1, <1>t
        <5>3. /\ deadline > 0 /\ timer - 1 <= Heartbeat /\ pong - 1 < deadline - 1
              /\ pong - 1 # NoPong
          BY <5>1, <5>2, <1>t, Constants
        <5>4. deadline' = deadline - 1 /\ pong' = pong - 1
          BY <2>1, <5>2, <5>3 DEF Down
        <5> QED BY <2>1, <4>2, <4>5, <5>3, <5>4 DEF InTime
      <4> QED BY <2>4, <4>3, <4>4, <4>5
    <3> QED BY <2>1, <3>1 DEF LiveInv
  <2> QED BY <2>2, <2>3, <2>4
<1> QED
  BY <1>1, <1>2, <1>3, <1>4, <1>5, <1>6, <1>7, <1>8, <1>9, <1>10, <1>11, <1>12,
     <1>13, <1>14
  DEF Next, StartLoop, Stream, ReadLoop, World

\* The read loop gives up no connection whose hub answers (readLoop, and the
\* deadline that runOnce primes), if the setup fits into the deadline.
THEOREM LivePeersAreKept == Spec => LivePeerKept
<1>1. Init => LiveInv
  BY DEF Init, LiveInv, InTime
<1>2. TypeOK /\ TypeOK' /\ LiveInv /\ [Next]_vars => LiveInv'
  BY LiveNext
<1>3. TypeOK /\ LiveInv /\ [Next]_vars
        => [reader = "reading" /\ reader' = "exited" /\ ~cancelled
              => ~Tight \/ link # "up"]_reader
  <2> SUFFICES ASSUME TypeOK, LiveInv, [Next]_vars, reader = "reading",
                      reader' = "exited", ~cancelled, Tight, link = "up"
               PROVE  FALSE
    OBVIOUS
  <2>1. deadline > 0
    <3>t. timer \in Nat /\ deadline \in Nat /\ pong \in Int
          /\ (pong # NoPong => pong >= 0)
      BY OvertimeTypes
    <3>1. phase \in {"greeting", "snapshot", "streaming"} /\ InTime
      BY DEF LiveInv
    <3>2. CASE phase = "greeting"
      BY <3>1, <3>2, Constants DEF InTime
    <3>3. CASE phase = "snapshot"
      <4>1. timer + ReadTimeout <= deadline + MaxSetup
        BY <3>1, <3>3 DEF InTime
      <4> QED BY <3>t, <4>1, TightDeadlines
    <3>4. CASE phase = "streaming"
      BY <3>1, <3>4, <3>t, Constants DEF InTime
    <3> QED BY <3>1, <3>2, <3>3, <3>4
  <2>2. ~(ReadPolicyViolation \/ ReadError)
    BY <2>1, OvertimeTypes DEF ReadPolicyViolation, ReadError, LiveInv
  <2>3. ~(StartLoop \/ Stream)
    BY DEF StartLoop, CachesSynced, DialFails, Dial, RegisterFails, Join, Wake, Return,
       Stream, Register, WriteHello, WriteSnapshot, SnapshotFails, SendHeartbeat,
       WriteLoopEnds, Cancel, reading
  <2>4. ~(ReadPong \/ World \/ Tick \/ UNCHANGED vars)
    BY DEF ReadPong, World, HubRejects, LinkFails, HubTurns, ShutDown, Tick, vars,
       reading
  <2> QED BY <2>2, <2>3, <2>4 DEF Next, ReadLoop
<1> QED
  BY <1>1, <1>2, <1>3, ConnectionTypes, PTL DEF Spec, LivePeerKept
=============================================================================
