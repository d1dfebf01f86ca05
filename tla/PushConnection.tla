--------------------------- MODULE PushConnection ---------------------------
(***************************************************************************)
(* The life of the Pusher's connections (push/pusher.go): the loop of      *)
(* Start with its backoff, runOnce, the write loop with its heartbeats and *)
(* the read loop with its deadline, against a hub that answers, rejects,   *)
(* falls silent or goes away, and a shutdown at any time.                  *)
(*                                                                         *)
(* Abstractions: what is sent is left to PushStream; a write into a silent *)
(* link succeeds.  Time passes in ticks, and only while every goroutine    *)
(* waits: the steps of the program take none, except that the snapshot     *)
(* takes up to MaxSetup.  The hub sends nothing but a pong for each        *)
(* heartbeat, at most Delay later, and its close frame.                    *)
(***************************************************************************)
EXTENDS Integers

CONSTANTS
  Heartbeat,   \* opts.Heartbeat, in ticks
  MaxBackoff,  \* maxBackoff, in ticks; the first backoff is one tick
  MaxSetup,    \* the longest time a snapshot takes to write
  Delay,       \* the longest time a pong takes
  MaxFaults,   \* bound on broken links and failing calls
  MaxTurns     \* bound on the changes of the hub's mood

ASSUME ConnectionAssumption ==
  /\ Heartbeat \in Nat \ {0} /\ MaxBackoff \in Nat \ {0}
  /\ MaxSetup \in Nat /\ Delay \in Nat
  /\ MaxFaults \in Nat /\ MaxTurns \in Nat

VARIABLES
  phase,      \* where Start and runOnce are
  timer,      \* what the phase waits for: backoff, snapshot or heartbeat
  backoff,    \* the backoff of Start
  rejected,   \* p.rejected
  reader,     \* the goroutine of readLoop
  cancelled,  \* connCtx is cancelled
  deadline,   \* time left until the read deadline
  link,       \* "up"; "silent": nothing arrives; "cut": reads, writes fail
  closing,    \* a policy-violation close frame waits to be read
  pong,       \* time a pong still takes, or NoPong
  hub,        \* what the hub does with a connection
  stop,       \* the context of the manager is done
  calm,       \* history: time since a rejection arrived, up to MaxBackoff
  overtime,   \* history: time since stop
  faults, turns

main    == <<phase, timer, backoff, rejected>>
reading == <<reader, cancelled, deadline>>
network == <<link, closing, pong>>
hubside == <<hub, turns>>
history == <<calm, overtime>>
vars == <<phase, timer, backoff, rejected, reader, cancelled, deadline, link,
          closing, pong, hub, stop, calm, overtime, faults, turns>>

NoPong      == -1
ReadTimeout == 3 * Heartbeat
Connected   == {"registering", "greeting", "snapshot", "streaming", "joining"}

Least(a, b) == IF a < b THEN a ELSE b
Fault == faults < MaxFaults /\ faults' = faults + 1

-----------------------------------------------------------------------------
(* Start and runOnce *)

\* Seeded fault: a rejection is looked at before the reset of the backoff.
NextWaitReset(connected) ==
  IF connected THEN 1 ELSE IF rejected THEN MaxBackoff ELSE backoff

\* The wait that follows a connection, or an attempt at one.
NextWait(connected) ==
  IF rejected THEN MaxBackoff ELSE IF connected THEN 1 ELSE backoff

\* Seeded fault: the backoff is doubled without a cap.
DoubledUncapped(n) == 2 * n

Doubled(n) == Least(2 * n, MaxBackoff)

\* runOnce has returned: the connection is closed, Start sleeps or stops.
Return(connected) ==
  /\ IF stop
       THEN phase' = "stopped" /\ UNCHANGED <<timer, backoff, rejected>>
       ELSE /\ phase' = "sleeping" /\ rejected' = FALSE
            /\ timer' = NextWait(connected)
            /\ backoff' = Doubled(NextWait(connected))
  /\ reader' = "none" /\ cancelled' = FALSE /\ deadline' = 0
  /\ link' = "up" /\ closing' = FALSE /\ pong' = NoPong
  /\ UNCHANGED <<hubside, stop, history>>

\* The caches never sync when the context ends first.
CachesSynced ==
  /\ phase = "syncing"
  /\ phase' = IF stop THEN "stopped" ELSE "dialing"
  /\ UNCHANGED <<timer, backoff, rejected, reading, network, hubside, stop,
                 history, faults>>

\* The context is done, the hub cannot be reached, or the token not be read.
DialFails ==
  /\ phase = "dialing"
  /\ \/ (stop \/ hub = "away") /\ UNCHANGED faults
     \/ Fault
  /\ Return(FALSE)

\* Seeded fault: the read deadline is set by the first pong only.
DialUnprimed ==
  /\ phase = "dialing" /\ ~stop /\ hub # "away"
  /\ phase' = "registering" /\ deadline' = 100
  /\ link' = "up" /\ closing' = FALSE /\ pong' = NoPong
  /\ UNCHANGED <<timer, backoff, rejected, reader, cancelled, hubside, stop,
                 history, faults>>

\* The upgrade succeeds, and the read deadline is primed.
Dial ==
  /\ phase = "dialing" /\ ~stop /\ hub # "away"
  /\ phase' = "registering" /\ deadline' = ReadTimeout
  /\ link' = "up" /\ closing' = FALSE /\ pong' = NoPong
  /\ UNCHANGED <<timer, backoff, rejected, reader, cancelled, hubside, stop,
                 history, faults>>

\* The handlers are registered and the read loop is started.
Register ==
  /\ phase = "registering"
  /\ phase' = "greeting" /\ reader' = "reading"
  /\ UNCHANGED <<timer, backoff, rejected, cancelled, deadline, network,
                 hubside, stop, history, faults>>

RegisterFails == phase = "registering" /\ Fault /\ Return(TRUE)

\* cancel(), and then wg.Wait() for the read loop.
Cancel == phase' = "joining" /\ cancelled' = TRUE /\ timer' = 0

WriteHello ==
  /\ phase = "greeting"
  /\ IF link = "cut" THEN Cancel
     ELSE /\ phase' = "snapshot" /\ timer' \in 0..MaxSetup
          /\ UNCHANGED cancelled
  /\ UNCHANGED <<backoff, rejected, reader, deadline, network, hubside, stop,
                 history, faults>>

\* The last frame of the snapshot: a heartbeat later the first ping is due.
WriteSnapshot ==
  /\ phase = "snapshot" /\ timer = 0 /\ link # "cut"
  /\ phase' = "streaming" /\ timer' = Heartbeat
  /\ UNCHANGED <<backoff, rejected, reading, network, hubside, stop, history,
                 faults>>

SnapshotFails ==
  /\ phase = "snapshot"
  /\ \/ link = "cut" /\ UNCHANGED faults
     \/ Fault
  /\ Cancel
  /\ UNCHANGED <<backoff, rejected, reader, deadline, network, hubside, stop,
                 history>>

\* Ping and heartbeat frame; a hub that hears them answers.
SendHeartbeat ==
  /\ phase = "streaming" /\ timer = 0 /\ link # "cut"
  /\ timer' = Heartbeat
  /\ pong' = IF link = "up" /\ pong = NoPong THEN Delay ELSE pong
  /\ UNCHANGED <<phase, backoff, rejected, reading, link, closing, hubside,
                 stop, history, faults>>

\* Seeded fault: the write loop does not watch its context.
WriteLoopEndsOnError ==
  /\ phase = "streaming" /\ link = "cut"
  /\ Cancel
  /\ UNCHANGED <<backoff, rejected, reader, deadline, network, hubside, stop,
                 history, faults>>

\* writeLoop returns: a write fails, or a context is done.
WriteLoopEnds ==
  /\ phase = "streaming" /\ (link = "cut" \/ cancelled \/ stop)
  /\ Cancel
  /\ UNCHANGED <<backoff, rejected, reader, deadline, network, hubside, stop,
                 history, faults>>

\* Seeded fault: runOnce does not wait for the read loop.
JoinAtOnce == phase = "joining" /\ Return(TRUE) /\ UNCHANGED faults

\* The connection is only closed now: conn.Close is deferred.
Join ==
  phase = "joining" /\ reader = "exited" /\ Return(TRUE) /\ UNCHANGED faults

Wake ==
  /\ phase = "sleeping" /\ (stop \/ timer = 0)
  /\ phase' = IF stop THEN "stopped" ELSE "dialing"
  /\ UNCHANGED <<timer, backoff, rejected, reading, network, hubside, stop,
                 history, faults>>

-----------------------------------------------------------------------------
(* readLoop *)

\* Seeded fault: a pong does not move the read deadline.
ReadPongOnly ==
  /\ reader = "reading" /\ pong # NoPong /\ link = "up"
  /\ pong' = NoPong
  /\ UNCHANGED <<main, reading, link, closing, hubside, stop, history, faults>>

\* A pong, as control frame or as text, moves the read deadline.
ReadPong ==
  /\ reader = "reading" /\ pong # NoPong /\ link = "up"
  /\ pong' = NoPong /\ deadline' = ReadTimeout
  /\ UNCHANGED <<main, reader, cancelled, link, closing, hubside, stop,
                 history, faults>>

ReaderExits == reader' = "exited" /\ cancelled' = TRUE

\* A close frame that has arrived is read: a reset of the connection that
\* discards it first looks to the program like one that never came, which
\* HubRejects admits.
ReadPolicyViolation ==
  /\ reader = "reading" /\ closing
  /\ ReaderExits /\ rejected' = TRUE
  /\ closing' = FALSE
  /\ UNCHANGED <<phase, timer, backoff, deadline, link, pong, hubside, stop,
                 history, faults>>

\* Seeded fault: the read loop ends without a word to the write loop.
ReadErrorUnnoticed ==
  /\ reader = "reading" /\ ~closing /\ (link = "cut" \/ deadline = 0)
  /\ reader' = "exited"
  /\ UNCHANGED <<main, cancelled, deadline, network, hubside, stop, history,
                 faults>>

\* The connection is cut, or the read deadline has passed.
ReadError ==
  /\ reader = "reading" /\ ~closing /\ (link = "cut" \/ deadline = 0)
  /\ ReaderExits
  /\ UNCHANGED <<main, deadline, network, hubside, stop, history, faults>>

-----------------------------------------------------------------------------
(* The hub, the network, the process and time *)

\* The hub has seen the hello, does not like it, and closes; its close frame
\* may get lost with the connection.
HubRejects ==
  /\ hub = "rejects" /\ link = "up" /\ phase \in {"snapshot", "streaming"}
  /\ link' = "cut" /\ closing' \in {reader = "reading", FALSE} /\ pong' = NoPong
  /\ calm' = IF closing' THEN 0 ELSE calm
  /\ UNCHANGED <<main, reading, hubside, stop, overtime, faults>>

LinkFails ==
  /\ phase \in Connected /\ link = "up" /\ Fault
  /\ link' \in {"silent", "cut"} /\ pong' = NoPong
  /\ UNCHANGED <<main, reading, closing, hubside, stop, history>>

HubTurns ==
  /\ turns < MaxTurns /\ turns' = turns + 1
  /\ hub' \in {"accepts", "rejects", "away"} \ {hub}
  /\ UNCHANGED <<main, reading, network, stop, history, faults>>

ShutDown ==
  /\ ~stop /\ stop' = TRUE
  /\ UNCHANGED <<main, reading, network, hubside, history, faults>>

\* Nothing but time can move the program on.
Waiting ==
  /\ \/ phase = "sleeping" /\ timer > 0 /\ ~stop
     \/ phase = "snapshot" /\ timer > 0 /\ link # "cut"
     \/ phase = "streaming" /\ timer > 0 /\ link # "cut" /\ ~cancelled /\ ~stop
     \/ phase = "joining" /\ reader = "reading"
  /\ reader = "reading" => deadline > 0 /\ link # "cut" /\ ~closing
  /\ pong # 0

Down(n) == IF n > 0 THEN n - 1 ELSE n

Tick ==
  /\ Waiting
  /\ timer' = Down(timer) /\ deadline' = Down(deadline) /\ pong' = Down(pong)
  /\ calm' = Least(calm + 1, MaxBackoff)
  /\ overtime' = IF stop THEN overtime + 1 ELSE 0
  /\ UNCHANGED <<phase, backoff, rejected, reader, cancelled, link, closing,
                 hubside, stop, faults>>

-----------------------------------------------------------------------------
Init ==
  /\ phase = "syncing" /\ timer = 0 /\ backoff = 1 /\ rejected = FALSE
  /\ reader = "none" /\ cancelled = FALSE /\ deadline = 0
  /\ link = "up" /\ closing = FALSE /\ pong = NoPong
  /\ hub \in {"accepts", "rejects", "away"} /\ stop = FALSE
  /\ calm = MaxBackoff /\ overtime = 0
  /\ faults = 0 /\ turns = 0

StartLoop == CachesSynced \/ DialFails \/ Dial \/ RegisterFails \/ Join \/ Wake

Stream == Register \/ WriteHello \/ WriteSnapshot \/ SnapshotFails
            \/ SendHeartbeat \/ WriteLoopEnds

ReadLoop == ReadPong \/ ReadPolicyViolation \/ ReadError

World == HubRejects \/ LinkFails \/ HubTurns \/ ShutDown

Next == StartLoop \/ Stream \/ ReadLoop \/ World \/ Tick

\* The goroutines run, and so does time; a hub that rejects closes the
\* connection.  Failures, changes of the hub and a shutdown need not happen.
Fairness ==
  /\ WF_vars(CachesSynced) /\ WF_vars(DialFails /\ faults' = faults)
  /\ WF_vars(Dial) /\ WF_vars(Register) /\ WF_vars(WriteHello)
  /\ WF_vars(WriteSnapshot) /\ WF_vars(SnapshotFails /\ faults' = faults)
  /\ WF_vars(SendHeartbeat) /\ WF_vars(WriteLoopEnds) /\ WF_vars(Join)
  /\ WF_vars(Wake) /\ WF_vars(ReadLoop) /\ WF_vars(HubRejects) /\ WF_vars(Tick)

Spec     == Init /\ [][Next]_vars
FairSpec == Spec /\ Fairness

-----------------------------------------------------------------------------
(* Properties *)

TypeOK ==
  /\ phase \in {"syncing", "dialing", "sleeping", "stopped"} \cup Connected
  /\ timer \in Nat /\ backoff \in 1..MaxBackoff /\ rejected \in BOOLEAN
  /\ reader \in {"none", "reading", "exited"} /\ cancelled \in BOOLEAN
  /\ deadline \in 0..ReadTimeout
  /\ link \in {"up", "silent", "cut"} /\ closing \in BOOLEAN
  /\ pong \in (0..Delay) \cup {NoPong}
  /\ hub \in {"accepts", "rejects", "away"} /\ stop \in BOOLEAN
  /\ calm \in 0..MaxBackoff /\ overtime \in Nat
  /\ faults \in Nat /\ turns \in Nat

\* After a rejection the hub is left alone for the longest backoff, however
\* the write loop, the read loop and the close frame race (Start, and
\* runOnce's wait for the read loop).
RejectionBacksOff ==
  [][phase' = "dialing" /\ phase # "dialing" => calm >= MaxBackoff]_phase

\* The setup fits into the read deadline, which no heartbeat moves before it.
Tight == MaxSetup + Delay < 2 * Heartbeat /\ Delay < Heartbeat

\* The read loop gives up no connection whose hub answers (the deadline of
\* three heartbeats, primed in runOnce before the first can be sent).
LivePeerKept ==
  [][reader = "reading" /\ reader' = "exited" /\ ~cancelled
       => ~Tight \/ link # "up"]_reader

\* A shutdown takes at most the read deadline and a pong on its way: the read
\* loop is not woken by the context (Start, runOnce).
ShutdownBounded == overtime <= ReadTimeout + Delay

\* A shutdown completes at any point of a connection or between two.
ShutdownCompletes == stop ~> phase = "stopped"

\* When the hub accepts for good, the Pusher ends up with a stream over a
\* link that works, whatever was refused, cut or silent before.
EventuallyStreaming ==
  <>[](hub = "accepts" /\ ~stop)
    => <>[](phase = "streaming" /\ link = "up" /\ reader = "reading")
=============================================================================
