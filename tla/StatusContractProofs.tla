------------------------ MODULE StatusContractProofs ------------------------
(***************************************************************************)
(* ApplicationController implements StatusContract, for every number of    *)
(* kinds, every period and every bound, if reconciles start from a current *)
(* cache.                                                                  *)
(***************************************************************************)
EXTENDS ApplicationControllerProofs

\* What a reconcile is about to write is the report of its draft: it observes
\* the generation that was read, and its verdict is that of its components.
\* The version it is written onto was a live one.
DraftInv ==
  /\ Last.uid >= 1
  /\ pc # "idle" => Base.uid >= 1
  /\ Writing =>
       /\ job.new.observed = Base.gen
       /\ job.new.ready # "Unknown" =>
            job.new.ready = ReadyOf(job.new.objects, FALSE)
  /\ pc = "update" => store[job.orig].live

-----------------------------------------------------------------------------
(* The steps, as a reader of the status sees them *)

\* What changes of the Application when a version is added to its history
\* (Status().Update, or the API server on behalf of others).
LEMMA NextVersion ==
  ASSUME TypeOK, NEW v \in Version, Append1(v)
  PROVE  /\ Last' = v
         /\ \A i \in 1..Len(store) : store'[i] = store[i]
         /\ (pc # "idle" /\ job' = job) => Base' = Base
<1>1. Len(store) \in Nat \ {0} /\ store \in Seq(Version)
  BY VersionsType DEF TypeOK
<1>2. /\ Last' = v
      /\ \A i \in 1..Len(store) : store'[i] = store[i]
  BY <1>1, AppendVersion DEF Append1, Last
<1>3. pc # "idle" => job.base \in 1..Len(store)
  BY <1>1 DEF TypeOK
<1> QED BY <1>2, <1>3 DEF Base

\* The versions that the API server and the controller add are well typed.
LEMMA NewVersions ==
  ASSUME TypeOK
  PROVE  /\ [Last EXCEPT !.gen = @ + 1] \in Version
         /\ [Last EXCEPT !.live = FALSE] \in Version
         /\ [Last EXCEPT !.status = job.new] \in Version
         /\ Created(Last.uid + 1) \in Version
<1>1. Last \in Version /\ Last.gen \in Nat /\ Last.uid \in Nat
  BY VersionsType DEF Version
<1>2. [Last EXCEPT !.gen = @ + 1] \in Version
  BY <1>1 DEF Version
<1>5. [Last EXCEPT !.live = FALSE] \in Version
  BY <1>1 DEF Version
<1>3. [Last EXCEPT !.status = job.new] \in Version
  BY <1>1 DEF TypeOK, Job, Version
<1>4. Created(Last.uid + 1) \in Version
  BY <1>1, IdleJobType DEF Version, Created
<1> QED BY <1>2, <1>3, <1>4, <1>5

\* A report is in preparation only while the worker is busy.
LEMMA IdleDraft ==
  /\ pc = "idle" => Draft = Contract!NoDraft
  /\ pc' = "idle" => Draft' = Contract!NoDraft
  BY DEF Draft, Contract!NoDraft, Contract!Kinds, Kinds, IdleJob

\* The report stays as it is if what it is made of does.
LEMMA SameDraft ==
  ASSUME \/ pc' = pc
         \/ Writing /\ Writing',
         \/ job' = job
         \/ Writing /\ UNCHANGED <<job.base, job.began, job.new>>,
         pc # "idle" => Base' = Base
  PROVE  Draft' = Draft
<1>1. CASE pc = "idle" /\ pc' = "idle"
  BY <1>1, IdleDraft
<1>2. CASE pc = "list" /\ pc' = "list" /\ job' = job
  BY <1>2 DEF Draft
<1>3. CASE Writing /\ Writing'
  <2>1. UNCHANGED <<job.began, job.new, Base>>
    BY <1>3 DEF Writing
  <2> QED BY <1>3, <2>1 DEF Draft, Writing
<1>4. CASE pc # "idle" /\ pc # "list" /\ ~Writing /\ job' = job /\ pc' = pc
  <2>1. Base' = Base
    BY <1>4
  <2> QED BY <1>4, <2>1 DEF Draft
<1> QED BY <1>1, <1>2, <1>3, <1>4 DEF Writing
-----------------------------------------------------------------------------
(* The inductive invariant *)

\* The first reconcile has nothing in preparation.
LEMMA DraftInit == Init => DraftInv
<1> SUFFICES ASSUME Init PROVE DraftInv
  OBVIOUS
<1>1. Len(store) = 1 /\ store[1] = Created(1) /\ pc = "idle"
  BY DEF Init
<1>2. Created(1).uid = 1
  BY DEF Created
<1> QED BY <1>1, <1>2 DEF DraftInv, Last, Writing

\* Only GetOriginal sets the version to write onto, and it was live.
LEMMA LiveNext ==
  ASSUME TypeOK, TypeOK', DraftInv, [Next]_vars, pc' = "update"
  PROVE  store'[job'.orig].live
<1>1. CASE UNCHANGED <<pc, job>>
  <2>1. job.orig \in 1..Len(store) /\ store[job.orig].live
    <3>1. pc = "update"
      BY <1>1
    <3>2. job.orig \in 1..seen /\ store[job.orig].live
      BY <3>1, Zenon DEF TypeOK, DraftInv
    <3>3. seen \in 1..Len(store) /\ Len(store) \in Nat
      BY History
    <3> QED BY <3>2, <3>3
  <2> QED BY <1>1, <2>1, History
<1>2. CASE GetOriginal
  <2>1. Cached.live /\ store' = store /\ job' = [job EXCEPT !.orig = seen]
    BY <1>2 DEF GetOriginal, Finish, cluster
  <2>2. job \in Job
    BY DEF TypeOK
  <2>3. job'.orig = seen
    BY <2>1, <2>2 DEF Job
  <2> QED BY <2>1, <2>3 DEF Cached
<1>3. \/ UNCHANGED <<pc, job>> \/ GetOriginal
  BY DEF Next, Reconcile, Delivery, Environment, UpdateStep, StartReconcile,
         ListKind, ReturnUnchanged, ReturnStabilizing, BeginWrite,
         UpdateAccepted, UpdateConflict, UpdateNotFound, UpdateFails, Finish,
         AppInformer, WatchSynced, TimerFires, BackoffExpires, Resync, Restart,
         ComponentChange, SpecChange, Delete, Recreate, Tick, worker, vars
<1> QED BY <1>1, <1>2, <1>3

\* A step keeps the report of a reconcile as it was computed.
LEMMA DraftNext ==
  ASSUME Fresh, TypeOK, TypeOK', DraftInv, [Next]_vars PROVE DraftInv'
<1>t. /\ Len(store) \in Nat \ {0} /\ seen \in 1..Len(store)
      /\ Last \in Version /\ Last.uid \in Nat
  BY VersionsType DEF TypeOK, Version
<1>b. pc # "idle" => job.base \in 1..Len(store)
  BY <1>t DEF TypeOK
<1>l. pc' = "update" => store'[job'.orig].live
  BY LiveNext
<1>1. CASE Quiet
  BY <1>1, <1>l DEF Quiet, DraftInv, Last, Base, Writing, ReadyOf, AggregateReady
<1>2. CASE Rests
  BY <1>2 DEF Rests, DraftInv, Last, Writing
<1>3. CASE Starts
  <2>1. job'.base = seen /\ seen = Len(store)
    BY <1>3, <1>t DEF Starts, IdleJob, Fresh
  <2>2. Base' = Last /\ Last' = Last /\ pc' = "list"
    BY <1>3, <2>1 DEF Starts, Last, Base
  <2> QED BY <2>2 DEF DraftInv, Writing
<1>4. ASSUME NEW k \in Kinds, Lists(k) PROVE DraftInv'
  BY <1>4 DEF Lists, DraftInv, Last, Base, Writing
<1>5. CASE Decides
  <2>1. UNCHANGED <<Last, Base>> /\ job'.new = Computed /\ pc' = "get" /\ pc # "idle"
    BY <1>5 DEF Decides, Last, Base
  <2>2. /\ Computed.observed = Base.gen /\ Computed.objects = job.found
        /\ Computed.ready = ReadyOf(job.found, job.errs)
    BY DEF Computed, NewStatus
  <2>3. Computed.ready # "Unknown" =>
          Computed.ready = ReadyOf(Computed.objects, FALSE)
    BY <2>2 DEF ReadyOf
  <2> QED BY <2>1, <2>2, <2>3 DEF DraftInv, Writing, ReadyOf, AggregateReady
<1>6. CASE Retries
  <2>1. UNCHANGED <<Last, Base>> /\ job'.new = job.new /\ pc # "idle"
    BY <1>6 DEF Retries, Last, Base, Writing
  <2> QED
    BY <1>6, <1>l, <2>1
    DEF Retries, DraftInv, ReadyOf, AggregateReady
<1>7. CASE Writes
  <2>1. Last' = [Last EXCEPT !.status = job.new]
    BY <1>7, NewVersions, NextVersion DEF Writes, Append1
  <2>2. Last'.uid = Last.uid
    BY <2>1, <1>t DEF Version
  <2> QED BY <1>7, <2>2 DEF Writes, DraftInv, Writing
<1>8. CASE Evolves
  <2>1. PICK v \in Version : Append1(v) /\ v.uid = Last.uid
    BY <1>8 DEF Evolves, Append1
  <2>2. UNCHANGED <<pc, job>> /\ Last'.uid = Last.uid
    BY <1>8, <2>1, NextVersion DEF Evolves
  <2>3. pc # "idle" => Base' = Base
    BY <2>1, <2>2, NextVersion
  <2> QED
    BY <1>l, <2>2, <2>3 DEF DraftInv, Writing, ReadyOf, AggregateReady
<1>9. CASE Recreate
  <2>1. Append1(Created(Last.uid + 1)) /\ UNCHANGED <<pc, job>>
    BY <1>9 DEF Recreate, worker
  <2>2. Last' = Created(Last.uid + 1) /\ (pc # "idle" => Base' = Base)
    BY <2>1, NewVersions, NextVersion
  <2>3. Last'.uid >= 1
    BY <2>2, <1>t DEF Created
  <2> QED
    BY <1>l, <2>1, <2>2, <2>3 DEF DraftInv, Writing, ReadyOf, AggregateReady
<1> QED
  BY <1>1, <1>2, <1>3, <1>4, <1>5, <1>6, <1>7, <1>8, <1>9, StepKinds

\* With reconciles that start from a current cache, what is in preparation is a
\* report of the status that is stored, in every reachable state.
LEMMA DraftInvariant ==
  ASSUME Fresh PROVE Spec => [](TypeOK /\ FreshInv /\ DraftInv)
<1>1. Init => TypeOK /\ FreshInv /\ DraftInv
  BY TypeInit, FreshInit, DraftInit
<1>2. TypeOK /\ FreshInv /\ DraftInv /\ [Next]_vars
        => TypeOK' /\ FreshInv' /\ DraftInv'
  BY TypeNext, FreshNext, DraftNext
<1> QED BY <1>1, <1>2, PTL DEF Spec
-----------------------------------------------------------------------------
(* Every step of the controller is one of the contract, or is not seen *)

Reports == [uid : Nat, gen : Nat, begun : Nat, todo : SUBSET Kinds,
            found : [Kinds -> ObjStatus], trouble : BOOLEAN]

\* Two reports differ in the fields that are not known to be the same
\* (Reconcile's locals and the status it computes are records).
LEMMA ReportExcept ==
  ASSUME NEW d \in Reports, NEW e \in Reports
  PROVE  /\ d.uid = e.uid /\ d.gen = e.gen /\ d.begun = e.begun =>
              e = [d EXCEPT !.todo = e.todo, !.found = e.found,
                            !.trouble = e.trouble]
         /\ d.found = e.found /\ d.trouble = e.trouble =>
              e = [d EXCEPT !.uid = e.uid, !.gen = e.gen, !.begun = e.begun,
                            !.todo = e.todo]
<1>1. ASSUME d.uid = e.uid, d.gen = e.gen, d.begun = e.begun
      PROVE  e = [d EXCEPT !.todo = e.todo, !.found = e.found,
                           !.trouble = e.trouble]
  BY <1>1 DEF Reports
<1>2. ASSUME d.found = e.found, d.trouble = e.trouble
      PROVE  e = [d EXCEPT !.uid = e.uid, !.gen = e.gen, !.begun = e.begun,
                           !.todo = e.todo]
  BY <1>2 DEF Reports
<1> QED BY <1>1, <1>2

\* What is in preparation is a report.
LEMMA DraftType == TypeOK => Draft \in Reports
<1>1. ASSUME TypeOK PROVE Draft \in Reports
  <2>1. ASSUME pc # "idle" PROVE Base.uid \in Nat /\ Base.gen \in Nat
    <3>1. job.base \in 1..Len(store)
      BY <1>1, <2>1, VersionsType DEF TypeOK
    <3>2. Base \in Version
      BY <1>1, <3>1, VersionsType DEF Base
    <3> QED BY <3>2 DEF Version
  <2>2. /\ job.began \in Nat
        /\ job.todo \in SUBSET Kinds /\ job.found \in [Kinds -> ObjStatus]
        /\ job.errs \in BOOLEAN /\ job.new.objects \in [Kinds -> ObjStatus]
    BY <1>1 DEF TypeOK, Job, Status
  <2>3. IdleJob.found \in [Kinds -> ObjStatus]
    BY IdleJobType DEF Job
  <2> QED BY <2>1, <2>2, <2>3 DEF Draft, Reports
<1> QED BY <1>1

\* Nor does a step make it anything else.
LEMMA NextDraftType == TypeOK' => (Draft \in Reports)'
  BY DraftType, PTL

\* StartReconcile begins a report, or finds the Application gone.
LEMMA StartBegins ==
  ASSUME Fresh, TypeOK, TypeOK', StartReconcile
  PROVE  Contract!Begin \/ UNCHANGED Contract!vars
<1>1. seen = Len(store) /\ Cached = Last /\ pc = "idle"
      /\ UNCHANGED <<comp, Last, now, store, seen>>
  BY DEF StartReconcile, Fresh, Cached, Last, cluster
<1>2. Draft = Contract!NoDraft
  BY <1>1, IdleDraft
<1>3. CASE Cached.live
  <2>1. /\ pc' = "list"
        /\ job' = [IdleJob EXCEPT !.base = seen, !.began = now, !.todo = Kinds]
    BY <1>3 DEF StartReconcile
  <2>2. /\ job'.base = seen /\ job'.began = now /\ job'.todo = Kinds
        /\ job'.found = IdleJob.found /\ job'.errs = FALSE
    BY <2>1 DEF IdleJob
  <2>3. Base' = Last
    BY <1>1, <2>2 DEF Base, Last
  <2>4. Draft' = [uid |-> Last.uid, gen |-> Last.gen, begun |-> now, todo |-> Kinds,
                  found |-> IdleJob.found, trouble |-> FALSE]
    BY <2>1, <2>2, <2>3 DEF Draft
  <2>5. Contract!Kinds = Kinds /\ Contract!NoDraft.found = IdleJob.found
    BY DEF Contract!NoDraft, Contract!Kinds, Kinds, IdleJob
  <2>6. Contract!NoDraft = [uid |-> 0, gen |-> 0, begun |-> 0, todo |-> {},
                            found |-> IdleJob.found, trouble |-> FALSE]
    BY <2>5 DEF Contract!NoDraft
  <2>7. Draft' = [Contract!NoDraft EXCEPT !.uid = Last.uid, !.gen = Last.gen,
                                          !.begun = now, !.todo = Contract!Kinds]
    <3> DEFINE d == Contract!NoDraft
               e == Draft'
    <3>1. d \in Reports /\ e \in Reports
      BY <1>2, DraftType, NextDraftType, SMTT(30)
    <3>2. d.found = e.found /\ d.trouble = e.trouble
      BY <2>4, <2>6
    <3>3. /\ e.uid = Last.uid /\ e.gen = Last.gen /\ e.begun = now
          /\ e.todo = Contract!Kinds
      BY <2>4, <2>5
    <3> HIDE DEF d, e
    <3>4. e = [d EXCEPT !.uid = e.uid, !.gen = e.gen, !.begun = e.begun,
                        !.todo = e.todo]
      BY <3>1, <3>2, ReportExcept
    <3>5. e = [d EXCEPT !.uid = Last.uid, !.gen = Last.gen, !.begun = now,
                        !.todo = Contract!Kinds]
      BY <3>3, <3>4, Zenon
    <3> QED BY <3>5 DEF d, e
  <2> QED BY <1>1, <1>2, <1>3, <2>7 DEF Contract!Begin
<1>4. CASE ~Cached.live
  <2>1. UNCHANGED <<pc, job>>
    BY <1>4 DEF StartReconcile, worker
  <2>2. Draft' = Draft
    BY <1>1, <2>1, SameDraft
  <2> QED BY <1>1, <2>2 DEF Contract!vars
<1> QED BY <1>3, <1>4

\* ListKind looks at one component: as it is; or not, which is an error unless
\* the API server does not know the kind.
LEMMA ListObserves ==
  ASSUME TypeOK, TypeOK', NEW k \in Kinds, ListKind(k)
  PROVE  Contract!Observe(k)
<1>1. /\ pc = "list" /\ pc' = "list" /\ k \in job.todo
      /\ UNCHANGED <<comp, store, Last, now>>
  BY DEF ListKind, cluster, Last
<1>2. job \in Job
  BY DEF TypeOK
<1>3. UNCHANGED <<job.base, job.began>> /\ job'.todo = job.todo \ {k}
  BY <1>2 DEF ListKind, Job
<1>4. \/ /\ job'.found = [job.found EXCEPT ![k] = StatusOf(comp[k])]
         /\ job'.errs = (job.errs \/ comp[k] = "Broken")
      \/ job'.found = job.found /\ job'.errs = TRUE
      \/ k \in Unserved /\ job'.found = job.found /\ job'.errs = job.errs
  <2>1. CASE job' = [job EXCEPT !.todo = @ \ {k},
                                !.found[k] = StatusOf(comp[k]),
                                !.errs = @ \/ comp[k] = "Broken"]
    BY <1>2, <2>1 DEF Job
  <2>2. CASE job' = [job EXCEPT !.todo = @ \ {k}, !.errs = TRUE]
    BY <1>2, <2>2 DEF Job
  <2>3. CASE job' = [job EXCEPT !.todo = @ \ {k}] /\ Fault("mapping")
    <3>1. k \in Unserved
      BY <2>3 DEF Fault, Unserved
    <3> QED BY <1>2, <2>3, <3>1 DEF Job
  <2> QED BY <2>1, <2>2, <2>3 DEF ListKind
<1>5. Base' = Base
  BY <1>1, <1>3 DEF Base
<1>6. /\ Draft = [uid |-> Base.uid, gen |-> Base.gen, begun |-> job.began,
                  todo |-> job.todo, found |-> job.found, trouble |-> job.errs]
      /\ Draft' = [uid |-> Base.uid, gen |-> Base.gen, begun |-> job.began,
                   todo |-> job.todo \ {k}, found |-> job'.found, trouble |-> job'.errs]
  BY <1>1, <1>3, <1>5 DEF Draft
<1>7. Contract!Shown(comp[k]) = StatusOf(comp[k])
  BY DEF Contract!Shown, StatusOf
<1>8. /\ Draft.todo = job.todo /\ Draft'.todo = job.todo \ {k}
      /\ Draft.found = job.found /\ Draft'.found = job'.found
      /\ Draft.trouble = job.errs /\ Draft'.trouble = job'.errs
  BY <1>6
<1>9. Draft' = [Draft EXCEPT !.todo = Draft'.todo, !.found = Draft'.found,
                             !.trouble = Draft'.trouble]
  <2>1. Draft \in Reports /\ Draft' \in Reports
    BY DraftType, NextDraftType
  <2>2. Draft.uid = Draft'.uid /\ Draft.gen = Draft'.gen /\ Draft.begun = Draft'.begun
    BY <1>6
  <2> QED BY <2>1, <2>2, ReportExcept, Zenon
<1>10. \/ /\ Draft'.found = [Draft.found EXCEPT ![k] = Contract!Shown(comp[k])]
          /\ Draft'.trouble = (Draft.trouble \/ comp[k] = "Broken")
       \/ Draft'.found = Draft.found /\ Draft'.trouble = TRUE
       \/ /\ k \in Unserved
          /\ Draft'.found = Draft.found /\ Draft'.trouble = Draft.trouble
  BY <1>4, <1>7, <1>8
<1> QED BY <1>1, <1>8, <1>9, <1>10 DEF Contract!Observe

\* BeginWrite keeps the report: it is part of the computed status from then on.
LEMMA BeginWriteKeeps ==
  ASSUME TypeOK, BeginWrite
  PROVE  UNCHANGED Contract!vars
<1>1. /\ pc = "list" /\ pc' = "get" /\ job.todo = {} /\ job \in Job
      /\ UNCHANGED <<comp, store, Last, now>>
      /\ job' = [IdleJob EXCEPT !.base = job.base, !.began = job.began,
                                !.new = Computed]
  BY DEF BeginWrite, Listed, cluster, Last, TypeOK
<1>2. UNCHANGED <<job.base, job.began>> /\ job'.new = Computed
  BY <1>1 DEF IdleJob
<1>3. Base' = Base
  BY <1>1, <1>2 DEF Base
<1>4. Computed.objects = job.found /\ Computed.ready = ReadyOf(job.found, job.errs)
  BY DEF Computed, NewStatus
<1>5. job.errs \in BOOLEAN
  BY <1>1 DEF Job
<1>6. Draft = [uid |-> Base.uid, gen |-> Base.gen, begun |-> job.began,
               todo |-> {}, found |-> job.found, trouble |-> job.errs]
  BY <1>1 DEF Draft
<1>7. Draft' = [uid |-> Base.uid, gen |-> Base.gen, begun |-> job.began,
                todo |-> {}, found |-> job.found, trouble |-> Computed.ready = "Unknown"]
  BY <1>1, <1>2, <1>3, <1>4 DEF Draft
<1>8. Draft' = Draft
  <2>1. CASE job.errs = TRUE
    <3>1. (Computed.ready = "Unknown") = TRUE
      BY <1>4, <2>1 DEF ReadyOf
    <3> QED BY <1>6, <1>7, <2>1, <3>1, Zenon
  <2>2. CASE job.errs = FALSE
    <3>1. (Computed.ready = "Unknown") = FALSE
      BY <1>4, <2>2 DEF ReadyOf
    <3> QED BY <1>6, <1>7, <2>2, <3>1, Zenon
  <2> QED BY <1>5, <2>1, <2>2
<1> QED BY <1>1, <1>8 DEF Contract!vars

\* A reconcile that ends without a write forgets its report.
LEMMA EndForgets ==
  ASSUME pc' = "idle", UNCHANGED cluster
  PROVE  Contract!Forget
  BY IdleDraft DEF cluster, Last, Contract!Forget

\* The Get and the conflicts of updateApplicationStatus keep the report, or end
\* the reconcile.
LEMMA AttemptKeeps ==
  ASSUME TypeOK, GetOriginal \/ UpdateConflict
  PROVE  Contract!Forget \/ UNCHANGED Contract!vars
<1>1. UNCHANGED cluster /\ Writing
  BY DEF GetOriginal, UpdateConflict, Writing
<1>2. CASE pc' = "idle"
  BY <1>1, <1>2, EndForgets
<1>3. CASE pc' # "idle"
  <2>1. UNCHANGED <<job.base, job.began, job.new>>
    BY <1>3 DEF GetOriginal, UpdateConflict, Finish, TypeOK, Job
  <2>2. Writing'
    BY <1>3 DEF GetOriginal, UpdateConflict, Finish, Writing
  <2>3. UNCHANGED <<comp, Last, now, Base>>
    BY <1>1, <2>1 DEF cluster, Last, Base
  <2>4. Draft' = Draft
    BY <1>1, <2>1, <2>2, <2>3, SameDraft
  <2> QED BY <2>3, <2>4 DEF Contract!vars
<1> QED BY <1>2, <1>3

\* An accepted update is a report that follows from the status it replaces,
\* whatever came between the listing and the write.
LEMMA UpdateReports ==
  ASSUME Fresh, TypeOK, FreshInv, DraftInv, UpdateAccepted, [Next]_vars
  PROVE  Contract!Report \/ Contract!Forget
<1>1. CASE Last.status = job.new
  <2>1. pc' = "idle" /\ UNCHANGED cluster
    BY <1>1 DEF UpdateAccepted, Finish, cluster
  <2> QED BY <2>1, EndForgets
<1>2. CASE Last.status # job.new
  <2>t. /\ Last \in Version /\ job.new \in Status /\ Writing /\ pc' = "idle"
        /\ Last.status.since \in Nat /\ now \in Nat /\ job.new.since \in Nat
    BY VersionsType DEF UpdateAccepted, Finish, TypeOK, Job, Writing, Version, Status
  <2>1. Last' = [Last EXCEPT !.status = job.new] /\ UNCHANGED <<comp, now>>
    BY <1>2, NewVersions, NextVersion DEF UpdateAccepted
  <2>2. Last'.status = job.new
    BY <2>1, <2>t DEF Version
  <2>3. Draft = [uid |-> Base.uid, gen |-> Base.gen, begun |-> job.began,
                 todo |-> {}, found |-> job.new.objects, trouble |-> job.new.ready = "Unknown"]
    BY <2>t DEF Draft, Writing
  <2>4. /\ Draft.uid = Base.uid /\ Draft.gen = Base.gen
        /\ Draft.begun = job.began /\ Draft.todo = {} /\ Draft.found = job.new.objects
        /\ Draft.trouble <=> job.new.ready = "Unknown"
    BY <2>3
  <2>5. Draft # Contract!NoDraft
    <3>1. Draft.uid >= 1
      BY <2>4, <2>t DEF DraftInv, Writing
    <3> QED BY <3>1 DEF Contract!NoDraft
  <2>6. Last.live
    BY DEF UpdateAccepted, DraftInv, Last
  <2>7. job.new.ready = Contract!ReadyOf(Draft)
    <3>1. CASE job.new.ready = "Unknown"
      BY <2>4, <3>1 DEF Contract!ReadyOf
    <3>2. CASE job.new.ready # "Unknown"
      BY <2>4, <2>t, <3>2 DEF Contract!ReadyOf, DraftInv, ReadyOf, AggregateReady
    <3> QED BY <3>1, <3>2
  <2>8. ASSUME Draft.uid = Last.uid
        PROVE  Contract!Follows(job.new, Last.status)
    <3>1. Base.status = Last.status /\ Writing
      BY <2>4, <2>8, <2>t DEF FreshInv, Writing
    <3>2. job.new.observed = Draft.gen
      BY <2>4, <3>1 DEF DraftInv
    <3>3. IF job.new.ready = Last.status.ready
            THEN job.new.since = Last.status.since
            ELSE job.new.since \in Draft.begun..now
      BY <2>t, <2>4, <3>1 DEF FreshInv
    <3>4. job.new.ready = "True" /\ Last.status.ready \in {"False", "Unknown"} =>
            now = Horizon \/ now - Last.status.since >= Period
      BY <3>1 DEF FreshInv, TransitioningToReady
    <3> QED BY <3>2, <3>3, <3>4 DEF Contract!Follows
  <2>9. Draft' = Contract!NoDraft
    BY <2>t, IdleDraft
  <2>10. Last' = [Last EXCEPT !.status = Last'.status]
    BY <2>1, <2>2
  <2> QED
    BY <2>1, <2>2, <2>4, <2>5, <2>6, <2>7, <2>8, <2>9, <2>10 DEF Contract!Report
<1> QED BY <1>1, <1>2
\* What others do to the Application and its components is what the contract
\* says of the world.
LEMMA WorldSteps ==
  ASSUME TypeOK, Environment, ~Restart
  PROVE  \/ \E k \in Contract!Kinds : Contract!Change(k, comp'[k])
         \/ Contract!Edit \/ Contract!Delete \/ Contract!Recreate \/ Contract!Tick
<1>1. ASSUME NEW k \in Kinds, NEW s \in CompState, ComponentChange(k, s)
      PROVE  Contract!Change(k, comp'[k])
  <2>1. comp' = [comp EXCEPT ![k] = s] /\ UNCHANGED <<store, now, pc, job>>
    BY <1>1 DEF ComponentChange, worker
  <2>2. comp'[k] = s
    BY <2>1 DEF TypeOK
  <2>3. UNCHANGED <<Last, Base>>
    BY <2>1 DEF Last, Base
  <2>4. Draft' = Draft
    BY <2>1, <2>3, SameDraft
  <2> QED BY <2>1, <2>2, <2>3, <2>4 DEF Contract!Change
<1>2. ASSUME NEW v \in Version, Append1(v), UNCHANGED worker
      PROVE  Last' = v /\ Draft' = Draft
  <2>1. Last' = v /\ (pc # "idle" => Base' = Base)
    BY <1>2, NextVersion DEF worker
  <2> QED BY <1>2, <2>1, SameDraft DEF worker
<1>3. ASSUME SpecChange PROVE Contract!Edit
  <2>1. Last' = [Last EXCEPT !.gen = @ + 1] /\ Draft' = Draft
    BY <1>2, <1>3, NewVersions DEF SpecChange
  <2> QED BY <1>3, <2>1 DEF SpecChange, Contract!Edit
<1>4. ASSUME Delete PROVE Contract!Delete
  <2>1. Last' = [Last EXCEPT !.live = FALSE] /\ Draft' = Draft
    BY <1>2, <1>4, NewVersions DEF Delete
  <2> QED BY <1>4, <2>1 DEF Delete, Contract!Delete
<1>5. ASSUME Recreate PROVE Contract!Recreate
  <2>1. Last' = Created(Last.uid + 1) /\ Draft' = Draft
    BY <1>2, <1>5, NewVersions DEF Recreate
  <2>2. Created(Last.uid + 1) =
          [uid |-> Last.uid + 1, gen |-> 1, live |-> TRUE,
           status |-> [observed |-> 0, ready |-> "None", since |-> 0,
                       objects |-> Contract!NoDraft.found]]
    BY DEF Created, EmptyStatus, Contract!NoDraft, Contract!Kinds, Kinds
  <2> QED BY <1>5, <2>1, <2>2 DEF Recreate, Contract!Recreate
<1>6. ASSUME Tick PROVE Contract!Tick
  <2>1. UNCHANGED <<comp, store, pc, job>> /\ now' = now + 1
    BY <1>6 DEF Tick, worker
  <2>2. UNCHANGED <<Last, Base>>
    BY <2>1 DEF Last, Base
  <2>3. Draft' = Draft
    BY <2>1, <2>2, SameDraft
  <2> QED BY <2>1, <2>2, <2>3 DEF Contract!Tick
<1> QED
  BY <1>1, <1>3, <1>4, <1>5, <1>6 DEF Environment, Kinds, Contract!Kinds

\* The caches, the workqueue and the watches are not seen.
LEMMA DeliveryUnseen ==
  ASSUME Delivery \/ UNCHANGED vars
  PROVE  UNCHANGED Contract!vars
<1>1. UNCHANGED <<comp, store, now, pc, job>>
  BY DEF Delivery, AppInformer, WatchSynced, TimerFires, BackoffExpires, Resync,
         cluster, worker, vars
<1>2. UNCHANGED <<Last, Base>>
  BY <1>1 DEF Last, Base
<1>3. Draft' = Draft
  BY <1>1, <1>2, SameDraft
<1> QED BY <1>1, <1>2, <1>3 DEF Contract!vars

\* Every step is a step of the contract or leaves all it speaks of alone.
LEMMA ContractStep ==
  ASSUME Fresh, TypeOK, TypeOK', FreshInv, DraftInv, [Next]_vars
  PROVE  [Contract!Next]_(Contract!vars)
<1>1. CASE Delivery \/ UNCHANGED vars
  BY <1>1, DeliveryUnseen
<1>2. CASE Environment /\ ~Restart
  BY <1>2, WorldSteps DEF Contract!Next
<1>3. CASE Restart
  BY <1>3, EndForgets DEF Restart, Finish, Contract!Next
<1>4. CASE StartReconcile
  BY <1>4, StartBegins DEF Contract!Next
<1>5. ASSUME NEW k \in Kinds, ListKind(k) PROVE Contract!Next
  <2>1. k \in Contract!Kinds /\ Contract!Observe(k)
    BY <1>5, ListObserves DEF Kinds, Contract!Kinds
  <2> QED BY <2>1 DEF Contract!Next
<1>6. CASE ReturnUnchanged \/ ReturnStabilizing \/ UpdateNotFound \/ UpdateFails
  <2>1. pc' = "idle" /\ UNCHANGED cluster
    BY <1>6 DEF ReturnUnchanged, ReturnStabilizing, UpdateNotFound, UpdateFails,
                Finish
  <2> QED BY <2>1, EndForgets DEF Contract!Next
<1>7. CASE BeginWrite
  BY <1>7, BeginWriteKeeps
<1>8. CASE GetOriginal \/ UpdateConflict
  BY <1>8, AttemptKeeps DEF Contract!Next
<1>9. CASE UpdateAccepted
  BY <1>9, UpdateReports DEF Contract!Next
<1> QED
  BY <1>1, <1>2, <1>3, <1>4, <1>5, <1>6, <1>7, <1>8, <1>9
  DEF Next, Reconcile, UpdateStep

\* A created Application has an empty status and no report in preparation.
LEMMA ContractInit == Init => Contract!Init
<1> SUFFICES ASSUME Init PROVE Contract!Init
  OBVIOUS
<1>1. Last = Created(1) /\ now = 0 /\ pc = "idle"
  BY DEF Init, Last
<1>2. Draft = Contract!NoDraft
  BY <1>1, IdleDraft
<1>3. /\ Last.uid = 1 /\ Last.gen = 1 /\ Last.live
      /\ Last.status = [observed |-> 0, ready |-> "None", since |-> 0,
                        objects |-> Contract!NoDraft.found]
  BY <1>1 DEF Created, EmptyStatus, Contract!NoDraft, Contract!Kinds, Kinds
<1> QED BY <1>1, <1>2, <1>3 DEF Contract!Init

\* With reconciles that start from a current cache, the controller keeps its
\* contract: whatever is delayed, retried, dropped, refused or restarted, deleted
\* or re-created, each status that Reconcile stores is one report, made from one
\* look at each component, of the generation it was begun for, with a transition
\* time and a stabilization wait that follow from the status it replaces.
THEOREM ControllerKeepsContract == ASSUME Fresh PROVE Spec => ImplementsContract
<1>1. TypeOK /\ FreshInv /\ DraftInv /\ TypeOK' /\ [Next]_vars
        => [Contract!Next]_(Contract!vars)
  BY ContractStep
<1> QED
  BY <1>1, ContractInit, DraftInvariant, PTL
  DEF Spec, ImplementsContract, Contract!Spec
=============================================================================
