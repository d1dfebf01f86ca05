----------------------------- MODULE HubMirror -----------------------------
(***************************************************************************)
(* What push mode promises the hub (push/pusher.go, ADR-0005): a view of   *)
(* the Applications in scope in which each of them looks as it did at some *)
(* time of the current connection, and which catches up with the cluster   *)
(* unless the connection has dropped frames.  It says nothing of queues,   *)
(* snapshots and links: PushStream implements it.                          *)
(***************************************************************************)
CONSTANTS
  Apps,     \* the Applications
  Scope,    \* those in the watched namespaces
  Contents, \* what an existing Application may look like
  Absent

VARIABLES
  cache,    \* the Applications as they are
  recent,   \* what each of them has looked like since the connection began
  view,     \* the hub's inventory
  lossy     \* the current connection owes the hub a frame

vars == <<cache, recent, view, lossy>>

Content == Contents \cup {Absent}

Wanted(a) == IF a \in Scope THEN cache[a] ELSE Absent

Mirrored == view = [a \in Apps |-> Wanted(a)]

Change(a) ==
  /\ \E v \in Content : /\ cache' = [cache EXCEPT ![a] = v]
                        /\ recent' = [recent EXCEPT ![a] = @ \cup {v}]
  /\ UNCHANGED <<view, lossy>>

Connect ==
  /\ recent' = [a \in Apps |-> {cache[a]}] /\ lossy' = FALSE
  /\ UNCHANGED <<cache, view>>

\* Frames reach the hub, which may so fall back behind what it has shown.
Deliver ==
  /\ view' \in [Apps -> Content]
  /\ \A a \in Apps : view'[a] # view[a] => a \in Scope /\ view'[a] \in recent[a]
  /\ UNCHANGED <<cache, recent, lossy>>

Drop == lossy' = TRUE /\ UNCHANGED <<cache, recent, view>>

CatchUp == Deliver /\ ~lossy /\ ~Mirrored /\ Mirrored'

Init ==
  /\ cache \in [Apps -> Content] /\ recent = [a \in Apps |-> {}]
  /\ view \in [Apps -> Content] /\ \A a \in Apps \ Scope : view[a] = Absent
  /\ lossy = FALSE

Next == (\E a \in Apps : Change(a)) \/ Connect \/ Deliver \/ Drop

\* A hub that could be brought up to date for ever is so in the end.
Spec     == Init /\ [][Next]_vars
FairSpec == Spec /\ WF_vars(CatchUp)
=============================================================================
