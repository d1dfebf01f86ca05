---------------------- MODULE MCApplicationController ----------------------
(***************************************************************************)
(* Small instances of ApplicationController for TLC: the kinds are model   *)
(* values, w1 a workload kind, s1 an infrastructure kind.            *)
(***************************************************************************)
EXTENDS ApplicationController

CONSTANTS w1, s1
=============================================================================
