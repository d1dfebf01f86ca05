----------------------------- MODULE LogMetrics -----------------------------
(***************************************************************************)
(* The log metrics collector (logmetrics/): Fluent Bit pods count log      *)
(* lines, the collector scrapes them once per interval, keeps a baseline   *)
(* per endpoint, adds up the deltas and sends what crosses a threshold.    *)
(*                                                                         *)
(* Abstractions: a series is a service and a metric that the gate looks at *)
(* (the total is carried the same way but gates nothing); the namespace is *)
(* part of the service; counters are natural numbers; a missing baseline   *)
(* and a baseline of 0 are the same (Go's zero value).  Whether a frame    *)
(* gets to the hub is the Pusher's business (PushStream): here any of its  *)
(* services may be lost, as frames are cut in chunks.                      *)
(***************************************************************************)
EXTENDS Integers, FiniteSets

CONSTANTS
  Addrs,         \* addresses the exporter pods may have
  Services,      \* services that log lines are attributed to
  Unattributed,  \* the empty service name of pods without a service label
  Metrics,       \* error and warn
  Threshold,     \* ErrorThreshold
  MaxLines,      \* bound on the log lines counted
  MaxFaults,     \* bound on failures, restarts and departures
  Enabled        \* which of them this instance admits

ASSUME CollectorAssumption ==
  /\ Threshold \in Nat \ {0} /\ MaxLines \in Nat /\ MaxFaults \in Nat
  /\ Unattributed \notin Services /\ IsFiniteSet(Addrs)
  /\ Enabled \subseteq {"scrape", "reset", "leave", "drop", "crash"}

VARIABLES
  counter,   \* the cumulative counters of the pod at each address
  ready,     \* ready addresses of the Endpoints object
  prev,      \* the collector's baseline of each address
  pc,        \* "idle" or "scraping"
  todo,      \* targets of this run not scraped yet
  totals,    \* sums of the deltas of this run
  reported,  \* what the hub has been told, added up
  logged,    \* history: the lines counted
  lines, faults

exporters == <<counter, ready>>
vars == <<counter, ready, prev, pc, todo, totals, reported, logged,
          lines, faults>>

-----------------------------------------------------------------------------
(* Data *)

Series == (Services \cup {Unattributed}) \X Metrics
Zero   == [x \in Series |-> 0]

\* Seeded fault: a counter that was reset yields a negative delta.
CounterDeltaRaw(old, cur) == cur - old

\* counterDelta: a counter below its baseline was reset.
CounterDelta(old, cur) == IF cur < old THEN cur ELSE cur - old

\* computeDeltas, per series of one endpoint.
Deltas(a) == [x \in Series |-> CounterDelta(prev[a][x], counter[a][x])]

\* Seeded fault: the highest value seen is kept as the baseline.
HighestBaseline(a) ==
  [prev EXCEPT ![a] = [x \in Series |->
     IF counter[a][x] > prev[a][x] THEN counter[a][x] ELSE prev[a][x]]]

\* The scraped values become the baseline, whatever becomes of the deltas.
Baseline(a) == [prev EXCEPT ![a] = counter[a]]

\* Seeded fault: only errors open the gate.
QualifiesOnErrors(s) == totals[<<s, "error">>] >= Threshold

\* The gate: either metric crosses the threshold.
Qualifies(s) == \E m \in Metrics : totals[<<s, m>>] >= Threshold

Fault(f) == f \in Enabled /\ faults < MaxFaults /\ faults' = faults + 1

-----------------------------------------------------------------------------
(* The Fluent Bit pods *)

LogLine(a, x) ==
  /\ lines < MaxLines /\ lines' = lines + 1
  /\ counter' = [counter EXCEPT ![a][x] = @ + 1]
  /\ logged' = [logged EXCEPT ![x] = @ + 1]
  /\ UNCHANGED <<ready, prev, pc, todo, totals, reported, faults>>

\* The pod restarts, or another pod takes the address.
ResetCounters(a) ==
  /\ Fault("reset") /\ counter[a] # Zero
  /\ counter' = [counter EXCEPT ![a] = Zero]
  /\ UNCHANGED <<ready, prev, pc, todo, totals, reported, logged, lines>>

Leave(a) ==
  /\ Fault("leave") /\ a \in ready
  /\ ready' = ready \ {a}
  /\ UNCHANGED <<counter, prev, pc, todo, totals, reported, logged, lines>>

Join(a) ==
  /\ a \notin ready
  /\ ready' = ready \cup {a}
  /\ UNCHANGED <<counter, prev, pc, todo, totals, reported, logged, lines,
                 faults>>

-----------------------------------------------------------------------------
(* The collector *)

\* The ticker fires and the endpoints are read; without endpoints the run ends.
StartRun ==
  /\ pc = "idle" /\ ready # {}
  /\ pc' = "scraping" /\ todo' = ready
  /\ totals' = Zero
  /\ UNCHANGED <<exporters, prev, reported, logged, lines, faults>>

\* One endpoint is scraped and its deltas are added.
ScrapeEndpoint(a) ==
  /\ pc = "scraping" /\ a \in todo
  /\ todo' = todo \ {a}
  /\ totals' = [x \in Series |-> totals[x] + Deltas(a)[x]]
  /\ prev' = Baseline(a)
  /\ UNCHANGED <<exporters, pc, reported, logged, lines, faults>>

\* Seeded fault: a scrape that fails half-way leaves its values as baseline.
ScrapeFailsCounted(a) ==
  /\ pc = "scraping" /\ a \in todo
  /\ (a \notin ready /\ UNCHANGED faults) \/ Fault("scrape")
  /\ todo' = todo \ {a} /\ prev' = Baseline(a)
  /\ UNCHANGED <<exporters, pc, totals, reported, logged, lines>>

\* A scrape that fails is skipped: the baseline stays.
ScrapeFails(a) ==
  /\ pc = "scraping" /\ a \in todo
  /\ (a \notin ready /\ UNCHANGED faults) \/ Fault("scrape")
  /\ todo' = todo \ {a}
  /\ UNCHANGED <<exporters, prev, pc, totals, reported, logged, lines>>

\* The gate, then SendLogMetrics; of what is sent, a part may be lost.
Send ==
  /\ pc = "scraping" /\ todo = {}
  /\ \E got \in SUBSET {s \in Services : Qualifies(s)} :
       /\ IF got = {s \in Services : Qualifies(s)} THEN UNCHANGED faults
                                                   ELSE Fault("drop")
       /\ reported' = [x \in Series |->
            IF x[1] \in got THEN reported[x] + totals[x] ELSE reported[x]]
  /\ pc' = "idle" /\ totals' = Zero
  /\ UNCHANGED <<exporters, prev, todo, logged, lines>>

\* The process restarts or another replica becomes the leader.
Crash ==
  /\ Fault("crash")
  /\ prev' = [a \in Addrs |-> Zero]
  /\ pc' = "idle" /\ todo' = {} /\ totals' = Zero
  /\ UNCHANGED <<exporters, reported, logged, lines>>

-----------------------------------------------------------------------------
Init ==
  /\ counter = [a \in Addrs |-> Zero] /\ ready \in SUBSET Addrs
  /\ prev = [a \in Addrs |-> Zero]
  /\ pc = "idle" /\ todo = {} /\ totals = Zero
  /\ reported = Zero /\ logged = Zero
  /\ lines = 0 /\ faults = 0

Exporter(a) ==
  (\E x \in Series : LogLine(a, x)) \/ ResetCounters(a) \/ Leave(a) \/ Join(a)

Next ==
  \/ \E a \in Addrs : Exporter(a) \/ ScrapeEndpoint(a) \/ ScrapeFails(a)
  \/ StartRun \/ Send \/ Crash

\* The ticker keeps firing and every target of a run is tried; a DaemonSet's
\* pods come back.
Fairness ==
  /\ WF_vars(StartRun) /\ WF_vars(Send)
  /\ \A a \in Addrs : WF_vars(Join(a)) /\ WF_vars(ScrapeEndpoint(a))

Spec     == Init /\ [][Next]_vars
FairSpec == Spec /\ Fairness

-----------------------------------------------------------------------------
(* Properties *)

TypeOK ==
  /\ counter \in [Addrs -> [Series -> Nat]] /\ prev \in [Addrs -> [Series -> Nat]]
  /\ ready \subseteq Addrs /\ todo \subseteq Addrs
  /\ pc \in {"idle", "scraping"}
  /\ totals \in [Series -> Nat] /\ reported \in [Series -> Nat]
  /\ logged \in [Series -> Nat]
  /\ lines \in Nat /\ faults \in Nat

\* No line is counted twice: over any number of scrapes, counter resets,
\* addresses taken over, failed scrapes and lost frames, the hub has not been
\* told of more lines than there were (computeDeltas).
NeverOverreported == \A x \in Series : reported[x] <= logged[x]

\* No line is missed: between two runs, what the baselines cover the hub has
\* been told of, whatever scrapes failed, addresses went away and collectors
\* restarted before (for a threshold of 1 and pods that do not restart; the
\* next successful scrape's delta covers the gap, computeDeltas, runOnce).
NoneMissed ==
  pc = "idle" /\ prev = counter =>
    \A s \in Services, m \in Metrics : reported[<<s, m>>] >= logged[<<s, m>>]

\* Every line of a service is reported in the end (for a threshold of 1 and
\* pods that do not restart): the next scrape's delta picks up what an earlier
\* one missed (SendLogMetrics, ADR-0006).  A collector that restarts may
\* report lines again.
EveryLineReported ==
  <>[](\A s \in Services, m \in Metrics :
         reported[<<s, m>>] >= logged[<<s, m>>])
=============================================================================
