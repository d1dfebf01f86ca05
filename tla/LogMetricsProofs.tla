-------------------------- MODULE LogMetricsProofs --------------------------
(***************************************************************************)
(* Theorems about LogMetrics, for any number of exporter pods, services,   *)
(* log lines and failures: the hub is never told of more lines than there  *)
(* were, and of no fewer than the baselines cover.                         *)
(*                                                                         *)
(* What is not scraped yet is a sum over all addresses.  It is represented *)
(* by its partial sums along an enumeration of the addresses: a step that  *)
(* changes one address changes the partial sums from there on, which takes *)
(* no induction.                                                           *)
(***************************************************************************)
EXTENDS LogMetrics, FiniteSetTheorems, WellFoundedInduction, TLAPS

-----------------------------------------------------------------------------
(* Type correctness *)

\* The delta of a counter is a natural number, reset or not (counterDelta).
LEMMA CounterDeltaType ==
  ASSUME NEW old \in Nat, NEW cur \in Nat
  PROVE  /\ CounterDelta(old, cur) \in Nat
         /\ CounterDelta(cur, cur) = 0 /\ CounterDelta(old, 0) = 0
         /\ CounterDelta(old, cur + 1) <= CounterDelta(old, cur) + 1
  BY DEF CounterDelta

\* Every step of the pods and of the collector keeps the types.
LEMMA TypeNext == TypeOK /\ [Next]_vars => TypeOK'
<1> SUFFICES ASSUME TypeOK, [Next]_vars PROVE TypeOK'
  OBVIOUS
<1>z. Zero \in [Series -> Nat]
  BY DEF Zero
<1>f. ASSUME NEW f, Fault(f) PROVE faults' \in Nat
  BY <1>f DEF Fault, TypeOK
<1>1. ASSUME NEW a \in Addrs, Exporter(a) PROVE TypeOK'
  <2>1. ASSUME NEW x \in Series, LogLine(a, x) PROVE TypeOK'
    <3>1. /\ counter' \in [Addrs -> [Series -> Nat]] /\ logged' \in [Series -> Nat]
          /\ lines' \in Nat
      BY <2>1 DEF LogLine, TypeOK
    <3> QED BY <2>1, <3>1 DEF LogLine, TypeOK
  <2>2. CASE ResetCounters(a)
    BY <2>2, <1>z, <1>f DEF ResetCounters, TypeOK
  <2>3. CASE Leave(a)
    BY <2>3, <1>f DEF Leave, TypeOK
  <2>4. CASE Join(a)
    BY <2>4 DEF Join, TypeOK
  <2> QED BY <1>1, <2>1, <2>2, <2>3, <2>4 DEF Exporter
<1>2. ASSUME NEW a \in Addrs, ScrapeEndpoint(a) PROVE TypeOK'
  <2>1. totals' \in [Series -> Nat]
    <3>1. \A x \in Series : Deltas(a)[x] \in Nat
      BY CounterDeltaType DEF Deltas, TypeOK
    <3> QED BY <1>2, <3>1 DEF ScrapeEndpoint, TypeOK
  <2>2. prev' \in [Addrs -> [Series -> Nat]]
    BY <1>2 DEF ScrapeEndpoint, Baseline, TypeOK
  <2> QED BY <1>2, <2>1, <2>2 DEF ScrapeEndpoint, exporters, TypeOK
<1>3. ASSUME NEW a \in Addrs, ScrapeFails(a) PROVE TypeOK'
  BY <1>3, <1>f DEF ScrapeFails, exporters, TypeOK
<1>4. CASE StartRun
  BY <1>4, <1>z DEF StartRun, exporters, TypeOK
<1>5. CASE Send
  <2>1. faults' \in Nat
    BY <1>5, <1>f DEF Send, TypeOK
  <2>2. reported' \in [Series -> Nat]
    BY <1>5 DEF Send, TypeOK
  <2> QED BY <1>5, <1>z, <2>1, <2>2 DEF Send, exporters, TypeOK
<1>6. CASE Crash
  BY <1>6, <1>z, <1>f DEF Crash, exporters, TypeOK
<1>7. CASE UNCHANGED vars
  BY <1>7 DEF vars, TypeOK
<1> QED
  BY <1>1, <1>2, <1>3, <1>4, <1>5, <1>6, <1>7 DEF Next

\* Counters, baselines, sums and reports are natural numbers: no counter reset
\* ever yields a negative delta (computeDeltas).
THEOREM CollectorTypes == Spec => []TypeOK
<1>1. Init => TypeOK
  BY CollectorAssumption DEF Init, TypeOK, Zero
<1> QED
  BY <1>1, TypeNext, PTL DEF Spec

-----------------------------------------------------------------------------
(* Partial sums along an enumeration of the addresses *)

Enumeration(n, e) ==
  /\ e \in [1..n -> Addrs]
  /\ \A a \in Addrs : \E i \in 1..n : e[i] = a
  /\ \A i, j \in 1..n : e[i] = e[j] => i = j

PartialSums(n, e, d, s) ==
  /\ s \in [0..n -> Nat] /\ s[0] = 0
  /\ \A i \in 1..n : s[i] = s[i - 1] + d[e[i]]
  /\ \A i, j \in 0..n : i <= j => s[i] <= s[j]

\* The finitely many addresses can be enumerated.
LEMMA EnumerationExists == \E n \in Nat : \E e : Enumeration(n, e)
<1>1. PICK n \in Nat : ExistsBijection(1..n, Addrs)
  BY CollectorAssumption, FS_NatBijection DEF CollectorAssumption
<1>2. PICK e : e \in Bijection(1..n, Addrs)
  BY <1>1 DEF ExistsBijection
<1>3. e \in [1..n -> Addrs]
  BY <1>2 DEF Bijection, Injection
<1>4. \A a \in Addrs : \E i \in 1..n : e[i] = a
  BY <1>2 DEF Bijection, Surjection
<1>5. \A i, j \in 1..n : e[i] = e[j] => i = j
  BY <1>2, <1>3 DEF Bijection, Injection, IsInjective
<1> QED
  BY <1>3, <1>4, <1>5 DEF Enumeration

\* When one address changes, the sum changes by as much.
LEMMA OneEntryChanges ==
  ASSUME NEW n \in Nat, NEW e, Enumeration(n, e),
         NEW d \in [Addrs -> Nat], NEW s, PartialSums(n, e, d, s),
         NEW a \in Addrs, NEW new \in [Addrs -> Nat],
         \A b \in Addrs \ {a} : new[b] = d[b]
  PROVE  \E t : PartialSums(n, e, new, t) /\ t[n] = s[n] - d[a] + new[a]
<1>1. PICK k \in 1..n : e[k] = a
  BY DEF Enumeration
<1> DEFINE v == new[a]
<1> DEFINE t == [i \in 0..n |-> IF i < k THEN s[i] ELSE s[i] - d[a] + v]
<1>s. /\ s \in [0..n -> Nat] /\ s[0] = 0
      /\ \A i \in 1..n : s[i] = s[i - 1] + d[e[i]]
      /\ \A i, j \in 0..n : i <= j => s[i] <= s[j]
  BY DEF PartialSums
<1>d. d[a] \in Nat /\ v \in Nat /\ k - 1 \in 0..n /\ k \in 0..n /\ s[k - 1] \in Nat
  BY <1>1, <1>s
<1>2. s[k] = s[k - 1] + d[a]
  BY <1>1, <1>s
<1>3. \A i \in 0..n : i >= k => s[i] \in Nat /\ s[i] - d[a] >= s[k - 1]
  <2> TAKE i \in 0..n
  <2> HAVE i >= k
  <2>1. s[k] <= s[i] /\ s[i] \in Nat /\ s[k] \in Nat
    BY <1>s, <1>d
  <2> QED BY <2>1, <1>2, <1>d
<1>4. t \in [0..n -> Nat]
  <2> SUFFICES ASSUME NEW i \in 0..n
               PROVE (IF i < k THEN s[i] ELSE s[i] - d[a] + v) \in Nat
    OBVIOUS
  <2>1. CASE i < k
    BY <2>1, <1>s
  <2>2. CASE i >= k
    BY <2>2, <1>3, <1>d
  <2> QED BY <2>1, <2>2, <1>1
<1>5. \A i \in 1..n : t[i] = t[i - 1] + new[e[i]]
  <2> TAKE i \in 1..n
  <2>0. /\ i \in 0..n /\ i - 1 \in 0..n /\ e[i] \in Addrs
        /\ s[i] \in Nat /\ s[i - 1] \in Nat /\ d[e[i]] \in Nat
        /\ s[i] = s[i - 1] + d[e[i]]
    BY <1>s, SMTT(60) DEF Enumeration
  <2>1. CASE i < k
    <3>1. e[i] # a
      BY <2>1, <1>1 DEF Enumeration
    <3> QED BY <2>0, <2>1, <3>1, <1>1
  <2>2. CASE i = k
    <3>1. new[e[i]] = v /\ t[i] = s[i] - d[a] + v /\ t[i - 1] = s[i - 1]
      BY <2>0, <2>2, <1>1
    <3> QED BY <2>0, <2>2, <3>1, <1>1, <1>2, <1>d
  <2>3. CASE i > k
    <3>1. e[i] # a
      BY <2>3, <1>1 DEF Enumeration
    <3>2. /\ new[e[i]] = d[e[i]] /\ t[i] = s[i] - d[a] + v
          /\ t[i - 1] = s[i - 1] - d[a] + v
      BY <2>0, <2>3, <3>1, <1>1
    <3> QED BY <2>0, <3>2, <1>d
  <2> QED BY <2>1, <2>2, <2>3, <1>1
<1>6. \A i, j \in 0..n : i <= j => t[i] <= t[j]
  <2> TAKE i, j \in 0..n
  <2> HAVE i <= j
  <2>0. s[i] \in Nat /\ s[j] \in Nat /\ s[i] <= s[j]
    BY <1>s
  <2>1. CASE j < k
    BY <2>0, <2>1, <1>1
  <2>2. CASE i >= k
    BY <2>0, <2>2, <1>1, <1>d
  <2>3. CASE i < k /\ j >= k
    <3>1. i <= k - 1 /\ s[i] <= s[k - 1]
      BY <2>3, <1>1, <1>d, <1>s
    <3>2. s[j] - d[a] >= s[k - 1]
      BY <2>3, <1>3
    <3>3. t[i] = s[i] /\ t[j] = s[j] - d[a] + v
      BY <2>3, <1>1
    <3> QED BY <2>0, <3>1, <3>2, <3>3, <1>d
  <2> QED BY <2>1, <2>2, <2>3, <1>1
<1>7. t[n] = s[n] - d[a] + v /\ t[0] = 0
  BY <1>1, <1>s
<1> HIDE DEF t
<1>8. PartialSums(n, e, new, t)
  BY <1>4, <1>5, <1>6, <1>7 DEF PartialSums
<1> QED
  BY <1>7, <1>8

\* Induction on the natural numbers, for a set instead of a formula.
LEMMA Induction ==
  ASSUME NEW S, 0 \in S, \A n \in Nat : n \in S => n + 1 \in S
  PROVE  Nat \subseteq S
<1> DEFINE T == Nat \ S
<1> DEFINE R == OpToRel(<, Nat)
<1> SUFFICES ASSUME T # {} PROVE FALSE
  OBVIOUS
<1>1. IsWellFoundedOn(R, Nat)
  BY NatLessThanWellFounded
<1>2. \A x, y \in Nat : <<y, x>> \in R <=> y < x
  BY DEF OpToRel
<1> HIDE DEF R
<1>3. PICK x \in T : \A y \in T : ~(<<y, x>> \in R)
  BY <1>1, WFMin
<1>4. x \in Nat /\ x # 0 /\ x - 1 \in Nat /\ x - 1 \notin T
  <2>1. x \in Nat /\ x # 0 /\ x - 1 \in Nat
    OBVIOUS
  <2>2. x - 1 < x
    BY <2>1
  <2> QED BY <1>2, <1>3, <2>1, <2>2
<1> QED BY <1>4

\* The sum of zeros is zero.
LEMMA ZeroSum ==
  ASSUME NEW n \in Nat, NEW e, Enumeration(n, e), NEW d, NEW s,
         PartialSums(n, e, d, s), \A a \in Addrs : d[a] = 0
  PROVE  s[n] = 0
<1> DEFINE T == {i \in Nat : i <= n => s[i] = 0}
<1>1. 0 \in T
  BY DEF PartialSums
<1>2. ASSUME NEW i \in Nat, i \in T PROVE i + 1 \in T
  <2> SUFFICES ASSUME i + 1 <= n PROVE s[i + 1] = 0
    OBVIOUS
  <2>1. i + 1 \in 1..n /\ e[i + 1] \in Addrs /\ s[i] = 0
    BY <1>2 DEF Enumeration
  <2>2. s[i + 1] = s[(i + 1) - 1] + d[e[i + 1]]
    BY <2>1 DEF PartialSums
  <2>3. (i + 1) - 1 = i /\ d[e[i + 1]] = 0
    BY <2>1
  <2> QED BY <2>1, <2>2, <2>3
<1>3. Nat \subseteq T
  <2> HIDE DEF T
  <2> QED BY <1>1, <1>2, Induction
<1> QED BY <1>3

-----------------------------------------------------------------------------
(* No line is counted twice *)

\* What each address would add to a series if it were scraped now.
Unscraped(x) == [a \in Addrs |-> CounterDelta(prev[a][x], counter[a][x])]

\* Reported, summed up and not yet scraped lines together are at most the lines
\* logged.
Accounted(n, e) ==
  \A x \in Series : \E s : /\ PartialSums(n, e, Unscraped(x), s)
                           /\ reported[x] + totals[x] + s[n] <= logged[x]

\* A step at one address keeps the account of a series if it does not owe more.
LEMMA AccountStep ==
  ASSUME NEW n \in Nat, NEW e, Enumeration(n, e), TypeOK, TypeOK', Accounted(n, e),
         NEW x \in Series, NEW a \in Addrs, NEW v \in Nat,
         Unscraped(x)' = [Unscraped(x) EXCEPT ![a] = v],
         reported'[x] + totals'[x] + v - logged'[x]
           <= reported[x] + totals[x] + Unscraped(x)[a] - logged[x]
  PROVE  \E s : /\ PartialSums(n, e, Unscraped(x)', s)
                /\ reported'[x] + totals'[x] + s[n] <= logged'[x]
<1>1. PICK s : /\ PartialSums(n, e, Unscraped(x), s)
               /\ reported[x] + totals[x] + s[n] <= logged[x]
  BY DEF Accounted
<1>2. Unscraped(x) \in [Addrs -> Nat]
  <2>1. \A b \in Addrs : prev[b][x] \in Nat /\ counter[b][x] \in Nat
    BY DEF TypeOK
  <2>2. \A b \in Addrs : CounterDelta(prev[b][x], counter[b][x]) \in Nat
    BY <2>1, CounterDeltaType
  <2> QED BY <2>2 DEF Unscraped
<1>3. PICK t : /\ PartialSums(n, e, Unscraped(x)', t)
               /\ t[n] = s[n] - Unscraped(x)[a] + v
  <2> DEFINE d == Unscraped(x)
  <2> DEFINE new == Unscraped(x)'
  <2>1. /\ d \in [Addrs -> Nat] /\ PartialSums(n, e, d, s)
        /\ new \in [Addrs -> Nat] /\ new[a] = v
        /\ \A b \in Addrs \ {a} : new[b] = d[b]
    BY <1>1, <1>2
  <2> HIDE DEF d, new
  <2>2. \E t : PartialSums(n, e, new, t) /\ t[n] = s[n] - d[a] + new[a]
    BY <2>1, OneEntryChanges, SMTT(60)
  <2> QED BY <2>1, <2>2 DEF d, new
<1>4. /\ reported[x] \in Nat /\ totals[x] \in Nat /\ logged[x] \in Nat
      /\ reported'[x] \in Nat /\ totals'[x] \in Nat /\ logged'[x] \in Nat
      /\ Unscraped(x)[a] \in Nat /\ s[n] \in Nat /\ t[n] \in Nat
  <2>1. /\ reported[x] \in Nat /\ totals[x] \in Nat /\ logged[x] \in Nat
    BY DEF TypeOK
  <2>2. /\ reported'[x] \in Nat /\ totals'[x] \in Nat /\ logged'[x] \in Nat
    BY DEF TypeOK
  <2>3. Unscraped(x)[a] \in Nat /\ n \in 0..n
    BY <1>2
  <2>4. s \in [0..n -> Nat] /\ t \in [0..n -> Nat]
    BY <1>1, <1>3 DEF PartialSums
  <2> QED BY <2>1, <2>2, <2>3, <2>4
<1>5. reported'[x] + totals'[x] + t[n] <= logged'[x]
  BY <1>1, <1>3, <1>4
<1> QED
  BY <1>3, <1>5

\* A step that changes neither what is unscraped nor the account's total.
LEMMA QuietStep ==
  ASSUME NEW n \in Nat, NEW e, Accounted(n, e), TypeOK, TypeOK', NEW x \in Series,
         Unscraped(x)' = Unscraped(x),
         reported'[x] + totals'[x] <= reported[x] + totals[x],
         logged'[x] = logged[x]
  PROVE  \E s : /\ PartialSums(n, e, Unscraped(x)', s)
                /\ reported'[x] + totals'[x] + s[n] <= logged'[x]
<1>1. PICK s : /\ PartialSums(n, e, Unscraped(x), s)
               /\ reported[x] + totals[x] + s[n] <= logged[x]
  BY DEF Accounted
<1>2. /\ reported[x] \in Nat /\ totals[x] \in Nat /\ logged[x] \in Nat
  BY DEF TypeOK
<1>3. /\ reported'[x] \in Nat /\ totals'[x] \in Nat /\ logged'[x] \in Nat
  BY DEF TypeOK
<1>4. s \in [0..n -> Nat] /\ n \in 0..n
  BY <1>1 DEF PartialSums
<1>5. reported'[x] + totals'[x] + s[n] <= logged'[x]
  BY <1>1, <1>2, <1>3, <1>4
<1> QED
  BY <1>1, <1>5

\* As long as the collector does not restart, no step breaks the account.
LEMMA AccountedNext ==
  ASSUME NEW n \in Nat, NEW e, Enumeration(n, e), "crash" \notin Enabled,
         TypeOK, TypeOK', Accounted(n, e), [Next]_vars
  PROVE  Accounted(n, e)'
<1> SUFFICES ASSUME NEW x \in Series
             PROVE  \E s : /\ PartialSums(n, e, Unscraped(x)', s)
                           /\ reported'[x] + totals'[x] + s[n] <= logged'[x]
  BY DEF Accounted
<1>t. /\ reported[x] \in Nat /\ totals[x] \in Nat /\ logged[x] \in Nat
      /\ counter \in [Addrs -> [Series -> Nat]] /\ prev \in [Addrs -> [Series -> Nat]]
      /\ reported \in [Series -> Nat] /\ totals \in [Series -> Nat]
      /\ logged \in [Series -> Nat]
  BY DEF TypeOK
<1>q. ASSUME UNCHANGED <<counter, prev, logged>>,
             reported'[x] + totals'[x] <= reported[x] + totals[x]
      PROVE  \E s : /\ PartialSums(n, e, Unscraped(x)', s)
                    /\ reported'[x] + totals'[x] + s[n] <= logged'[x]
  <2>1. Unscraped(x)' = Unscraped(x)
    BY <1>q DEF Unscraped
  <2> QED BY <1>q, <2>1, QuietStep
<1>1. ASSUME NEW a \in Addrs, NEW y \in Series, LogLine(a, y)
      PROVE  \E s : /\ PartialSums(n, e, Unscraped(x)', s)
                    /\ reported'[x] + totals'[x] + s[n] <= logged'[x]
  <2>1. /\ counter' = [counter EXCEPT ![a][y] = @ + 1]
        /\ logged' = [logged EXCEPT ![y] = @ + 1]
        /\ UNCHANGED <<prev, reported, totals>>
    BY <1>1 DEF LogLine
  <2>2. CASE x = y
    <3> DEFINE v == CounterDelta(prev[a][x], counter[a][x] + 1)
    <3>1. Unscraped(x)' = [Unscraped(x) EXCEPT ![a] = v]
      BY <1>t, <2>1, <2>2 DEF Unscraped
    <3>2. Unscraped(x)[a] = CounterDelta(prev[a][x], counter[a][x])
      BY DEF Unscraped
    <3>3. prev[a][x] \in Nat /\ counter[a][x] \in Nat
      BY <1>t
    <3>4. v \in Nat /\ Unscraped(x)[a] \in Nat /\ v <= Unscraped(x)[a] + 1
      <4>1. /\ v \in Nat /\ CounterDelta(prev[a][x], counter[a][x]) \in Nat
            /\ v <= CounterDelta(prev[a][x], counter[a][x]) + 1
        BY <3>3 DEF CounterDelta
      <4> QED BY <3>2, <4>1
    <3>5. logged'[x] = logged[x] + 1
      BY <1>t, <2>1, <2>2
    <3> HIDE DEF v
    <3>6. reported'[x] + totals'[x] + v - logged'[x]
            <= reported[x] + totals[x] + Unscraped(x)[a] - logged[x]
      BY <1>t, <2>1, <3>4, <3>5
    <3> QED BY <3>1, <3>4, <3>6, AccountStep
  <2>3. CASE x # y
    <3>1. Unscraped(x)' = Unscraped(x)
      BY <1>t, <2>1, <2>3 DEF Unscraped
    <3>2. logged'[x] = logged[x]
      BY <1>t, <2>1, <2>3
    <3> QED BY <1>t, <2>1, <3>1, <3>2, QuietStep
  <2> QED BY <2>2, <2>3
<1>2. ASSUME NEW a \in Addrs, ResetCounters(a)
      PROVE  \E s : /\ PartialSums(n, e, Unscraped(x)', s)
                    /\ reported'[x] + totals'[x] + s[n] <= logged'[x]
  <2>1. /\ counter' = [counter EXCEPT ![a] = Zero] /\ Zero[x] = 0
        /\ UNCHANGED <<prev, reported, totals, logged>>
    BY <1>2 DEF ResetCounters, Zero
  <2>2. /\ prev[a][x] \in Nat /\ counter[a][x] \in Nat
        /\ CounterDelta(prev[a][x], 0) = 0
    BY <1>t, CounterDeltaType
  <2>3. Unscraped(x)' = [Unscraped(x) EXCEPT ![a] = 0]
    BY <1>t, <2>1, <2>2 DEF Unscraped
  <2>4. Unscraped(x)[a] \in Nat
    BY <2>2, CounterDeltaType DEF Unscraped
  <2>5. reported'[x] + totals'[x] + 0 - logged'[x]
          <= reported[x] + totals[x] + Unscraped(x)[a] - logged[x]
    BY <1>t, <2>1, <2>4
  <2> QED BY <2>3, <2>5, AccountStep
<1>3. ASSUME NEW a \in Addrs, ScrapeEndpoint(a)
      PROVE  \E s : /\ PartialSums(n, e, Unscraped(x)', s)
                    /\ reported'[x] + totals'[x] + s[n] <= logged'[x]
  <2>1. /\ prev' = [prev EXCEPT ![a] = counter[a]]
        /\ totals'[x] = totals[x] + Unscraped(x)[a]
        /\ UNCHANGED <<counter, reported, logged>>
    BY <1>3 DEF ScrapeEndpoint, Baseline, Deltas, Unscraped, exporters
  <2>2. /\ prev[a][x] \in Nat /\ counter[a][x] \in Nat
        /\ CounterDelta(counter[a][x], counter[a][x]) = 0
    BY <1>t, CounterDeltaType
  <2>3. Unscraped(x)' = [Unscraped(x) EXCEPT ![a] = 0]
    BY <1>t, <2>1, <2>2 DEF Unscraped
  <2>4. Unscraped(x)[a] \in Nat
    BY <2>2, CounterDeltaType DEF Unscraped
  <2>5. reported'[x] + totals'[x] + 0 - logged'[x]
          <= reported[x] + totals[x] + Unscraped(x)[a] - logged[x]
    BY <1>t, <2>1, <2>4
  <2> QED BY <2>3, <2>5, AccountStep
<1>4. ASSUME NEW a \in Addrs, Leave(a) \/ Join(a) \/ ScrapeFails(a)
      PROVE  UNCHANGED <<counter, prev, logged, reported, totals>>
  BY <1>4 DEF Leave, Join, ScrapeFails, exporters
<1>5. CASE StartRun
  <2>1. UNCHANGED <<counter, prev, logged, reported>> /\ totals'[x] = 0
    BY <1>5 DEF StartRun, exporters, Zero
  <2> QED BY <1>q, <1>t, <2>1
<1>6. CASE Send
  <2>1. UNCHANGED <<counter, prev, logged>> /\ totals'[x] = 0
    BY <1>6 DEF Send, exporters, Zero
  <2>2. reported'[x] \in {reported[x], reported[x] + totals[x]}
    BY <1>6 DEF Send
  <2> QED BY <1>q, <1>t, <2>1, <2>2
<1>7. CASE UNCHANGED vars
  BY <1>7, <1>q, <1>t DEF vars
<1>8. ~Crash
  BY DEF Crash, Fault
<1> QED
  <2>1. CASE \E a \in Addrs : Leave(a) \/ Join(a) \/ ScrapeFails(a)
    BY <2>1, <1>4, <1>q, <1>t
  <2> QED
    BY <1>1, <1>2, <1>3, <1>5, <1>6, <1>7, <1>8, <2>1 DEF Next, Exporter

\* Without restarts of the collector no line is counted twice, whatever number
\* of pods restart, come and go, and whatever scrapes and frames are lost
\* (computeDeltas): each is reported, summed up, unscraped, or gone.
THEOREM NothingIsOverreported ==
  "crash" \notin Enabled => (Spec => []NeverOverreported)
<1> SUFFICES ASSUME "crash" \notin Enabled PROVE Spec => []NeverOverreported
  OBVIOUS
<1>1. PICK n \in Nat : \E e : Enumeration(n, e)
  BY EnumerationExists
<1>2. PICK e : Enumeration(n, e)
  BY <1>1
<1>3. Init => Accounted(n, e)
  <2> SUFFICES ASSUME Init, NEW x \in Series
               PROVE  \E s : /\ PartialSums(n, e, Unscraped(x), s)
                             /\ reported[x] + totals[x] + s[n] <= logged[x]
    BY DEF Accounted
  <2> DEFINE s == [i \in 0..n |-> 0]
  <2>1. \A a \in Addrs : Unscraped(x)[a] = 0
    BY DEF Init, Zero, Unscraped, CounterDelta
  <2>2. \A i \in 1..n : e[i] \in Addrs /\ i \in 0..n /\ i - 1 \in 0..n
    BY <1>2 DEF Enumeration
  <2>3. PartialSums(n, e, Unscraped(x), s)
    BY <2>1, <2>2 DEF PartialSums
  <2>4. reported[x] + totals[x] + s[n] <= logged[x]
    BY DEF Init, Zero
  <2> QED BY <2>3, <2>4
<1>4. TypeOK /\ TypeOK' /\ Accounted(n, e) /\ [Next]_vars => Accounted(n, e)'
  BY <1>2, AccountedNext
<1>5. TypeOK /\ Accounted(n, e) => NeverOverreported
  <2> SUFFICES ASSUME TypeOK, Accounted(n, e), NEW x \in Series
               PROVE  reported[x] <= logged[x]
    BY DEF NeverOverreported
  <2>1. PICK s : /\ PartialSums(n, e, Unscraped(x), s)
                 /\ reported[x] + totals[x] + s[n] <= logged[x]
    BY DEF Accounted
  <2>2. s \in [0..n -> Nat] /\ n \in 0..n
    BY <2>1 DEF PartialSums
  <2>3. reported[x] \in Nat /\ totals[x] \in Nat /\ logged[x] \in Nat
    BY DEF TypeOK
  <2> QED BY <2>1, <2>2, <2>3
<1> QED
  BY <1>3, <1>4, <1>5, CollectorTypes, PTL DEF Spec
-----------------------------------------------------------------------------
(* No line is missed *)

\* What each address has counted of a series.
Counted(x) == [a \in Addrs |-> counter[a][x]]

Attributed == Services \X Metrics

\* No pod restarts, no frame is lost, and every line opens the gate.
Kept == Threshold = 1 /\ "reset" \notin Enabled /\ "drop" \notin Enabled

\* Reported, summed up and not yet scraped lines together are at least the
\* lines logged, and the counters add up to the lines logged: so a collector
\* that restarts, and forgets the rest, starts again from what covers them.
Owed(n, e, x) ==
  \E s, c : /\ PartialSums(n, e, Unscraped(x), s)
            /\ reported[x] + totals[x] + s[n] >= logged[x]
            /\ PartialSums(n, e, Counted(x), c) /\ c[n] = logged[x]

Baselines ==
  /\ \A a \in Addrs, x \in Series : prev[a][x] <= counter[a][x]
  /\ pc = "idle" => totals = Zero

KeptInv(n, e) == Baselines /\ \A x \in Attributed : Owed(n, e, x)

\* Of a counter that is not reset, every line is in the delta.
LEMMA DeltaOfGrown ==
  ASSUME NEW old \in Nat, NEW cur \in Nat, old <= cur
  PROVE  CounterDelta(old, cur) = cur - old /\ CounterDelta(0, cur) = cur
  BY DEF CounterDelta

\* A sum is a natural number.
LEMMA SumType ==
  ASSUME NEW n \in Nat, NEW e, NEW d, NEW s, PartialSums(n, e, d, s)
  PROVE  s[n] \in Nat
  BY DEF PartialSums

\* The types of what one series is made of.
LEMMA SeriesTypes ==
  ASSUME TypeOK, NEW x \in Series
  PROVE  /\ reported[x] \in Nat /\ totals[x] \in Nat /\ logged[x] \in Nat
         /\ \A a \in Addrs : counter[a][x] \in Nat /\ prev[a][x] \in Nat
         /\ Unscraped(x) \in [Addrs -> Nat] /\ Counted(x) \in [Addrs -> Nat]
<1>1. /\ reported[x] \in Nat /\ totals[x] \in Nat /\ logged[x] \in Nat
      /\ \A a \in Addrs : counter[a][x] \in Nat /\ prev[a][x] \in Nat
  BY DEF TypeOK
<1>2. \A a \in Addrs : CounterDelta(prev[a][x], counter[a][x]) \in Nat
  BY <1>1, CounterDeltaType
<1> QED BY <1>1, <1>2 DEF Unscraped, Counted

\* A step that leaves the counters, the baselines and the account alone.
LEMMA OwedStays ==
  ASSUME NEW n \in Nat, NEW e, NEW x, Owed(n, e, x),
         UNCHANGED <<counter, prev, logged>>,
         reported'[x] + totals'[x] = reported[x] + totals[x]
  PROVE  Owed(n, e, x)'
<1>1. PICK s, c : /\ PartialSums(n, e, Unscraped(x), s)
                  /\ reported[x] + totals[x] + s[n] >= logged[x]
                  /\ PartialSums(n, e, Counted(x), c) /\ c[n] = logged[x]
  BY DEF Owed
<1>2. Unscraped(x)' = Unscraped(x) /\ Counted(x)' = Counted(x)
  BY DEF Unscraped, Counted
<1>3. reported'[x] + totals'[x] + s[n] >= logged'[x]
  BY <1>1
<1> QED BY <1>1, <1>2, <1>3 DEF Owed

\* Every step keeps the account, a restart of the collector included.
LEMMA KeptNext ==
  ASSUME NEW n \in Nat, NEW e, Enumeration(n, e), Kept,
         TypeOK, TypeOK', KeptInv(n, e), [Next]_vars
  PROVE  KeptInv(n, e)'
<1>a. Attributed \subseteq Series
  BY DEF Attributed, Series
<1>b. Baselines /\ \A x \in Attributed : Owed(n, e, x)
  BY DEF KeptInv
<1>1. ASSUME NEW a \in Addrs, NEW y \in Series, LogLine(a, y) PROVE KeptInv(n, e)'
  <2>1. /\ counter' = [counter EXCEPT ![a][y] = @ + 1]
        /\ logged' = [logged EXCEPT ![y] = @ + 1]
        /\ UNCHANGED <<prev, reported, totals, pc>>
    BY <1>1 DEF LogLine
  <2>2. Baselines'
    <3>1. ASSUME NEW b \in Addrs, NEW x \in Series PROVE prev[b][x] <= counter'[b][x]
      <4>1. /\ prev[b][x] \in Nat /\ counter[b][x] \in Nat
            /\ prev[b][x] <= counter[b][x]
        BY <1>b, SeriesTypes DEF Baselines
      <4>2. counter'[b][x] \in {counter[b][x], counter[b][x] + 1}
        BY <2>1 DEF TypeOK
      <4> QED BY <4>1, <4>2
    <3> QED BY <1>b, <2>1, <3>1 DEF Baselines
  <2>3. ASSUME NEW x \in Attributed PROVE Owed(n, e, x)'
    <3>1. PICK s, c : /\ PartialSums(n, e, Unscraped(x), s)
                      /\ reported[x] + totals[x] + s[n] >= logged[x]
                      /\ PartialSums(n, e, Counted(x), c) /\ c[n] = logged[x]
      BY <1>b, <2>3 DEF Owed
    <3>2. /\ x \in Series /\ reported[x] \in Nat /\ totals[x] \in Nat
          /\ logged[x] \in Nat /\ counter[a][x] \in Nat /\ prev[a][x] \in Nat
          /\ Unscraped(x) \in [Addrs -> Nat] /\ Counted(x) \in [Addrs -> Nat]
      BY <1>a, SeriesTypes
    <3>3. s[n] \in Nat /\ c[n] \in Nat
      BY <3>1, SumType
    <3>4. CASE x # y
      <4>1. Unscraped(x)' = Unscraped(x) /\ Counted(x)' = Counted(x)
        BY <2>1, <3>4 DEF Unscraped, Counted, TypeOK
      <4>2. logged'[x] = logged[x]
        BY <2>1, <3>2, <3>4 DEF TypeOK
      <4>3. reported'[x] + totals'[x] + s[n] >= logged'[x]
        BY <2>1, <3>1, <4>2
      <4> QED BY <3>1, <4>1, <4>2, <4>3 DEF Owed
    <3>5. CASE x = y
      <4> DEFINE v == counter[a][x] + 1
      <4>1. Counted(x)' = [Counted(x) EXCEPT ![a] = v]
        BY <2>1, <3>2, <3>5, ZenonT(60) DEF Counted, TypeOK
      <4>2. /\ prev[a][x] <= counter[a][x] /\ prev[a][x] <= v /\ v \in Nat
            /\ v - prev[a][x] \in Nat
        BY <1>b, <3>2 DEF Baselines
      <4>3. /\ CounterDelta(prev[a][x], v) = v - prev[a][x]
            /\ Unscraped(x)[a] = counter[a][x] - prev[a][x]
        BY <3>2, <4>2, DeltaOfGrown DEF Unscraped
      <4>4. Unscraped(x)' = [Unscraped(x) EXCEPT ![a] = v - prev[a][x]]
        <5>1. Unscraped(x)' = [Unscraped(x) EXCEPT ![a] = CounterDelta(prev[a][x], v)]
          BY <2>1, <3>2, <3>5 DEF Unscraped, TypeOK
        <5> QED BY <4>3, <5>1
      <4>5. Counted(x)[a] = counter[a][x]
        BY DEF Counted
      <4>6. logged'[x] = logged[x] + 1
        BY <2>1, <3>2, <3>5 DEF TypeOK
      <4>7. PICK t : /\ PartialSums(n, e, Unscraped(x)', t)
                     /\ t[n] = s[n] - Unscraped(x)[a] + (v - prev[a][x])
        <5> DEFINE d == Unscraped(x)
        <5> DEFINE new == Unscraped(x)'
        <5> DEFINE w == v - prev[a][x]
        <5>1. /\ d \in [Addrs -> Nat] /\ PartialSums(n, e, d, s) /\ w \in Nat
              /\ new \in [Addrs -> Nat] /\ new[a] = w
              /\ \A b \in Addrs \ {a} : new[b] = d[b]
          BY <3>1, <3>2, <4>2, <4>4
        <5> HIDE DEF d, w, new
        <5>2. \E t : PartialSums(n, e, new, t) /\ t[n] = s[n] - d[a] + new[a]
          BY <5>1, OneEntryChanges, SMTT(60)
        <5> QED BY <5>1, <5>2 DEF d, w, new
      <4>8. PICK k : /\ PartialSums(n, e, Counted(x)', k)
                     /\ k[n] = c[n] - Counted(x)[a] + v
        <5> DEFINE d == Counted(x)
        <5> DEFINE new == Counted(x)'
        <5>1. /\ d \in [Addrs -> Nat] /\ PartialSums(n, e, d, c) /\ v \in Nat
              /\ new \in [Addrs -> Nat] /\ new[a] = v
              /\ \A b \in Addrs \ {a} : new[b] = d[b]
          BY <3>1, <3>2, <4>1, <4>2
        <5> HIDE DEF d, v, new
        <5>2. \E k : PartialSums(n, e, new, k) /\ k[n] = c[n] - d[a] + new[a]
          BY <5>1, OneEntryChanges, SMTT(60)
        <5> QED BY <5>1, <5>2 DEF d, new
      <4>9. t[n] = s[n] + 1 /\ k[n] = logged'[x]
        BY <3>1, <3>2, <3>3, <4>3, <4>5, <4>6, <4>7, <4>8
      <4>10. reported'[x] + totals'[x] + t[n] >= logged'[x]
        BY <2>1, <3>1, <3>2, <3>3, <4>6, <4>9
      <4> QED BY <4>7, <4>8, <4>9, <4>10 DEF Owed
    <3> QED BY <3>4, <3>5
  <2> QED BY <2>2, <2>3 DEF KeptInv
<1>2. ASSUME NEW a \in Addrs, ScrapeEndpoint(a) PROVE KeptInv(n, e)'
  <2>1. /\ prev' = [prev EXCEPT ![a] = counter[a]] /\ pc' = "scraping"
        /\ totals' = [x \in Series |-> totals[x] + Unscraped(x)[a]]
        /\ UNCHANGED <<counter, reported, logged>>
    BY <1>2 DEF ScrapeEndpoint, Baseline, Deltas, Unscraped, exporters
  <2>2. Baselines'
    <3>1. ASSUME NEW b \in Addrs, NEW x \in Series PROVE prev'[b][x] <= counter[b][x]
      <4>1. /\ counter[b][x] \in Nat /\ prev[b][x] <= counter[b][x]
        BY <1>b, SeriesTypes DEF Baselines
      <4>2. prev'[b][x] \in {prev[b][x], counter[b][x]}
        BY <2>1 DEF TypeOK
      <4> QED BY <4>1, <4>2
    <3> QED BY <2>1, <3>1 DEF Baselines
  <2>3. ASSUME NEW x \in Attributed PROVE Owed(n, e, x)'
    <3>1. PICK s, c : /\ PartialSums(n, e, Unscraped(x), s)
                      /\ reported[x] + totals[x] + s[n] >= logged[x]
                      /\ PartialSums(n, e, Counted(x), c) /\ c[n] = logged[x]
      BY <1>b, <2>3 DEF Owed
    <3>2. /\ x \in Series /\ reported[x] \in Nat /\ totals[x] \in Nat
          /\ logged[x] \in Nat /\ counter[a][x] \in Nat
          /\ Unscraped(x) \in [Addrs -> Nat] /\ Unscraped(x)[a] \in Nat
      BY <1>a, SeriesTypes
    <3>3. CounterDelta(counter[a][x], counter[a][x]) = 0
      BY <3>2, CounterDeltaType
    <3>4. Unscraped(x)' = [Unscraped(x) EXCEPT ![a] = 0]
      BY <2>1, <3>2, <3>3 DEF Unscraped, TypeOK
    <3>5. PICK t : /\ PartialSums(n, e, Unscraped(x)', t)
                   /\ t[n] = s[n] - Unscraped(x)[a] + 0
      <4> DEFINE d == Unscraped(x)
      <4> DEFINE new == Unscraped(x)'
      <4>1. /\ d \in [Addrs -> Nat] /\ PartialSums(n, e, d, s)
            /\ new \in [Addrs -> Nat] /\ new[a] = 0
            /\ \A b \in Addrs \ {a} : new[b] = d[b]
        BY <3>1, <3>2, <3>4
      <4> HIDE DEF d, new
      <4>2. \E t : PartialSums(n, e, new, t) /\ t[n] = s[n] - d[a] + new[a]
        BY <4>1, OneEntryChanges, SMTT(60)
      <4> QED BY <4>1, <4>2 DEF d, new
    <3>6. s[n] \in Nat /\ totals'[x] = totals[x] + Unscraped(x)[a]
      BY <2>1, <3>1, <3>2, SumType
    <3>7. reported'[x] + totals'[x] + t[n] >= logged'[x]
      BY <2>1, <3>1, <3>2, <3>5, <3>6
    <3>8. Counted(x)' = Counted(x)
      BY <2>1 DEF Counted
    <3> QED BY <2>1, <3>1, <3>5, <3>7, <3>8 DEF Owed
  <2> QED BY <2>2, <2>3 DEF KeptInv
<1>3. ASSUME UNCHANGED <<counter, prev, logged>>, pc' = "idle" => totals' = Zero,
             \A x \in Attributed : reported'[x] + totals'[x] = reported[x] + totals[x]
      PROVE  KeptInv(n, e)'
  <2>1. Baselines'
    BY <1>3, <1>b DEF Baselines
  <2> QED BY <1>3, <1>b, <2>1, OwedStays DEF KeptInv
<1>4. ASSUME NEW a \in Addrs, Leave(a) \/ Join(a) \/ ScrapeFails(a) PROVE KeptInv(n, e)'
  BY <1>3, <1>4, <1>b DEF Leave, Join, ScrapeFails, exporters, Baselines
<1>5. ASSUME StartRun PROVE KeptInv(n, e)'
  <2>1. /\ UNCHANGED <<counter, prev, logged, reported>> /\ totals' = Zero
        /\ totals = Zero
    BY <1>5, <1>b DEF StartRun, exporters, Baselines
  <2> QED BY <1>3, <2>1
<1>6. ASSUME Send PROVE KeptInv(n, e)'
  <2>1. UNCHANGED <<counter, prev, logged>> /\ totals' = Zero
    BY <1>6 DEF Send, exporters
  <2>2. ~Fault("drop")
    BY DEF Fault, Kept
  <2>3. reported' = [x \in Series |-> IF x[1] \in {s \in Services : Qualifies(s)}
                                        THEN reported[x] + totals[x] ELSE reported[x]]
    BY <1>6, <2>2 DEF Send
  <2>4. ASSUME NEW x \in Attributed
        PROVE  reported'[x] + totals'[x] = reported[x] + totals[x]
    <3>1. /\ x \in Series /\ reported[x] \in Nat /\ totals[x] \in Nat
          /\ totals'[x] = 0
      BY <1>a, <2>1, SeriesTypes DEF Zero
    <3>2. PICK s \in Services, m \in Metrics : x = <<s, m>>
      BY DEF Attributed
    <3>3. CASE Qualifies(s)
      <4>1. reported'[x] = reported[x] + totals[x]
        BY <2>3, <3>1, <3>2, <3>3
      <4> QED BY <3>1, <4>1
    <3>4. CASE ~Qualifies(s)
      <4>1. reported'[x] = reported[x]
        BY <2>3, <3>1, <3>2, <3>4
      <4>2. totals[x] = 0
        BY <3>1, <3>2, <3>4 DEF Qualifies, Kept
      <4> QED BY <3>1, <4>1, <4>2
    <3> QED BY <3>3, <3>4
  <2> QED BY <1>3, <2>1, <2>4
<1>7. ASSUME Crash PROVE KeptInv(n, e)'
  <2>1. /\ prev' = [a \in Addrs |-> Zero] /\ totals' = Zero
        /\ UNCHANGED <<counter, reported, logged>>
    BY <1>7 DEF Crash, exporters
  <2>2. Baselines'
    BY <2>1, SeriesTypes DEF Baselines, Zero
  <2>3. ASSUME NEW x \in Attributed PROVE Owed(n, e, x)'
    <3>1. PICK c : PartialSums(n, e, Counted(x), c) /\ c[n] = logged[x]
      BY <1>b, <2>3 DEF Owed
    <3>2. /\ x \in Series /\ reported[x] \in Nat /\ logged[x] \in Nat
          /\ totals'[x] = 0
      BY <1>a, <2>1, SeriesTypes DEF Zero
    <3>3. Counted(x)' = Counted(x)
      BY <2>1 DEF Counted
    <3>4. Unscraped(x)' = Counted(x)
      <4>1. \A a \in Addrs : CounterDelta(prev'[a][x], counter'[a][x]) = counter[a][x]
        <5> TAKE a \in Addrs
        <5>1. prev'[a][x] = 0 /\ counter'[a][x] = counter[a][x] /\ counter[a][x] \in Nat
          BY <2>1, <3>2, SeriesTypes DEF Zero
        <5> QED BY <5>1, DeltaOfGrown
      <4> QED BY <4>1 DEF Unscraped, Counted
    <3>5. reported'[x] + totals'[x] + c[n] >= logged'[x]
      BY <2>1, <3>1, <3>2
    <3> QED BY <2>1, <3>1, <3>3, <3>4, <3>5 DEF Owed
  <2> QED BY <2>2, <2>3 DEF KeptInv
<1>8. ASSUME UNCHANGED vars PROVE KeptInv(n, e)'
  BY <1>3, <1>8, <1>b DEF vars, Baselines
<1>9. ASSUME NEW a \in Addrs PROVE ~ResetCounters(a)
  BY DEF ResetCounters, Fault, Kept
<1> QED
  BY <1>1, <1>2, <1>4, <1>5, <1>6, <1>7, <1>8, <1>9 DEF Next, Exporter

\* For a threshold of 1, pods that do not restart and frames that get through,
\* the hub has been told of every line that the baselines cover, for any number
\* of pods, lines, failed scrapes, absences and restarts of the collector
\* (computeDeltas, runOnce): a line that a scrape missed is in a later delta.
THEOREM NothingIsMissed == Kept => (Spec => []NoneMissed)
<1> SUFFICES ASSUME Kept PROVE Spec => []NoneMissed
  OBVIOUS
<1>1. PICK n \in Nat : \E e : Enumeration(n, e)
  BY EnumerationExists
<1>2. PICK e : Enumeration(n, e)
  BY <1>1
<1>3. Init => KeptInv(n, e)
  <2> SUFFICES ASSUME Init PROVE KeptInv(n, e)
    OBVIOUS
  <2>1. \A x \in Series : /\ reported[x] = 0 /\ totals[x] = 0 /\ logged[x] = 0
                           /\ \A a \in Addrs : prev[a][x] = 0 /\ counter[a][x] = 0
    BY DEF Init, Zero
  <2>2. Baselines
    BY <2>1 DEF Baselines, Init
  <2>3. ASSUME NEW x \in Attributed PROVE Owed(n, e, x)
    <3> DEFINE z == [i \in 0..n |-> 0]
    <3>1. x \in Series
      BY DEF Attributed, Series
    <3>2. \A a \in Addrs : Unscraped(x)[a] = 0 /\ Counted(x)[a] = 0
      BY <2>1, <3>1 DEF Unscraped, Counted, CounterDelta
    <3>3. \A i \in 1..n : e[i] \in Addrs /\ i \in 0..n /\ i - 1 \in 0..n
      BY <1>2 DEF Enumeration
    <3>4. PartialSums(n, e, Unscraped(x), z) /\ PartialSums(n, e, Counted(x), z)
      BY <3>2, <3>3 DEF PartialSums
    <3>5. z[n] = logged[x] /\ reported[x] + totals[x] + z[n] >= logged[x]
      BY <2>1, <3>1
    <3> HIDE DEF z
    <3> QED BY <3>4, <3>5 DEF Owed
  <2> QED BY <2>2, <2>3 DEF KeptInv
<1>4. TypeOK /\ TypeOK' /\ KeptInv(n, e) /\ [Next]_vars => KeptInv(n, e)'
  BY <1>2, KeptNext
<1>5. TypeOK /\ KeptInv(n, e) => NoneMissed
  <2> SUFFICES ASSUME TypeOK, KeptInv(n, e), pc = "idle", prev = counter,
                      NEW svc \in Services, NEW m \in Metrics
               PROVE  reported[<<svc, m>>] >= logged[<<svc, m>>]
    BY DEF NoneMissed
  <2> DEFINE x == <<svc, m>>
  <2>0. x \in Attributed /\ x \in Series
    BY DEF Attributed, Series
  <2> HIDE DEF x
  <2>1. PICK s : /\ PartialSums(n, e, Unscraped(x), s)
                 /\ reported[x] + totals[x] + s[n] >= logged[x]
    BY <2>0 DEF KeptInv, Owed
  <2>2. \A a \in Addrs : Unscraped(x)[a] = 0
    BY <2>0, SeriesTypes, CounterDeltaType DEF Unscraped
  <2>3. s[n] = 0
    BY <1>2, <2>1, <2>2, ZeroSum
  <2>4. /\ totals[x] = 0 /\ reported[x] \in Nat /\ logged[x] \in Nat
    BY <2>0, SeriesTypes DEF KeptInv, Baselines, Zero
  <2>5. reported[x] >= logged[x]
    BY <2>1, <2>3, <2>4
  <2> QED BY <2>5 DEF x
<1> QED
  BY <1>3, <1>4, <1>5, CollectorTypes, PTL DEF Spec
=============================================================================
