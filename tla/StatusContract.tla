--------------------------- MODULE StatusContract ---------------------------
(***************************************************************************)
(* What the controller promises to whoever reads an Application's status   *)
(* (controllers/application_controller.go): each report is made from one   *)
(* look at each component, taken one after the other since the report      *)
(* before it, and follows from the status that it replaces.  It says       *)
(* nothing of caches, resource versions, retries, queues, timers or        *)
(* watches: ApplicationController implements it.                           *)
(*                                                                         *)
(* The contract is void for a report that was begun for an earlier object  *)
(* of the same name: the API server accepts it for the new one.            *)
(***************************************************************************)
EXTENDS Integers

CONSTANTS
  Workloads, Infra,  \* the declared kinds, as in ApplicationController
  Unserved,          \* kinds that the API server may not know
  Period, Horizon    \* stabilization period, and where the clock stops

VARIABLES
  comp,   \* the components as they are
  app,    \* the Application as it is stored: uid, gen, live, status
  now,
  draft   \* the report in preparation

vars == <<comp, app, now, draft>>

Kinds == Workloads \cup Infra

NoDraft == [uid |-> 0, gen |-> 0, begun |-> 0, todo |-> {},
            found |-> [k \in Kinds |-> "Absent"], trouble |-> FALSE]

Shown(s) == IF s \in {"Broken", "Unmapped"} THEN "Unknown" ELSE s

ReadyOf(d) ==
  IF d.trouble THEN "Unknown"
  ELSE IF \A k \in Workloads : d.found[k] \in {"Absent", "Ready"} THEN "True"
  ELSE "False"

-----------------------------------------------------------------------------
(* The world *)

Change(k, s) ==
  comp' = [comp EXCEPT ![k] = s] /\ UNCHANGED <<app, now, draft>>

Edit ==
  /\ app.live /\ app' = [app EXCEPT !.gen = @ + 1]
  /\ UNCHANGED <<comp, now, draft>>

Delete ==
  /\ app.live /\ app' = [app EXCEPT !.live = FALSE]
  /\ UNCHANGED <<comp, now, draft>>

Recreate ==
  /\ ~app.live
  /\ app' = [uid |-> app.uid + 1, gen |-> 1, live |-> TRUE,
             status |-> [observed |-> 0, ready |-> "None", since |-> 0,
                         objects |-> NoDraft.found]]
  /\ UNCHANGED <<comp, now, draft>>

Tick == now' = now + 1 /\ UNCHANGED <<comp, app, draft>>

-----------------------------------------------------------------------------
(* The reports *)

Begin ==
  /\ draft = NoDraft /\ app.live
  /\ draft' = [NoDraft EXCEPT !.uid = app.uid, !.gen = app.gen, !.begun = now,
                              !.todo = Kinds]
  /\ UNCHANGED <<comp, app, now>>

\* A component is looked at as it is; or it cannot be, which is trouble unless
\* the API server does not know its kind.
Observe(k) ==
  /\ k \in draft.todo
  /\ draft'.todo = draft.todo \ {k}
  /\ \/ /\ draft'.found = [draft.found EXCEPT ![k] = Shown(comp[k])]
        /\ draft'.trouble = (draft.trouble \/ comp[k] = "Broken")
     \/ draft'.found = draft.found /\ draft'.trouble
     \/ k \in Unserved /\ draft'.found = draft.found /\ draft'.trouble = draft.trouble
  /\ draft' = [draft EXCEPT !.todo = draft'.todo, !.found = draft'.found,
                            !.trouble = draft'.trouble]
  /\ UNCHANGED <<comp, app, now>>

Forget == draft' = NoDraft /\ UNCHANGED <<comp, app, now>>

\* The new status follows from the one it replaces: it observes the generation
\* at which the report was begun, a change of Ready took place since then and
\* nothing else moves its transition time, and a recovery has waited for the
\* stabilization period.
Follows(new, old) ==
  /\ new.observed = draft.gen
  /\ IF new.ready = old.ready THEN new.since = old.since
                              ELSE new.since \in draft.begun..now
  /\ new.ready = "True" /\ old.ready \in {"False", "Unknown"} =>
       now = Horizon \/ now - old.since >= Period

Report ==
  /\ draft # NoDraft /\ draft.todo = {} /\ app.live
  /\ app'.status.objects = draft.found /\ app'.status.ready = ReadyOf(draft)
  /\ draft.uid = app.uid => Follows(app'.status, app.status)
  /\ app' = [app EXCEPT !.status = app'.status]
  /\ draft' = NoDraft /\ UNCHANGED <<comp, now>>

-----------------------------------------------------------------------------
Init ==
  /\ app.uid = 1 /\ app.gen = 1 /\ app.live
  /\ app.status = [observed |-> 0, ready |-> "None", since |-> 0,
                   objects |-> NoDraft.found]
  /\ now = 0 /\ draft = NoDraft

Next ==
  \/ (\E k \in Kinds : Change(k, comp'[k])) \/ Edit \/ Delete \/ Recreate \/ Tick
  \/ Begin \/ (\E k \in Kinds : Observe(k)) \/ Forget \/ Report

Spec == Init /\ [][Next]_vars
=============================================================================
