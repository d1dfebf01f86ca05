------------------------- MODULE MCComponentWatches -------------------------
(***************************************************************************)
(* A small instance of ComponentWatches for TLC: two Applications that     *)
(* share a kind and reconcile at the same time, and a kind of one alone.   *)
(***************************************************************************)
EXTENDS ComponentWatches

CONSTANTS a1, a2, k1, k2, c1

Declares == [a \in Apps |-> IF a = a2 THEN {k1, k2} ELSE {k1}]
KindsOf  == [c \in Comps |-> k1]

=============================================================================
