# A verification development for the Application controller

The repository is a Kubernetes controller. For each `Application` (a label
selector and a list of component kinds) it finds the matching objects, derives
a readiness verdict, and writes both into the Application's status. Optionally
it streams all Applications, Warning events and log-derived error counts to a
remote hub over an outbound WebSocket. This directory holds TLA+ models of the
program, the TLC configurations that check them, and TLAPS proofs.

    tlc -workers 2 -config MCController_safety.cfg MCApplicationController.tla
    tlapm ApplicationControllerProofs.tla

| module | models | checked by |
|---|---|---|
| `ApplicationController` | the reconcile loop of one Application with all it races against | `MCApplicationController`, 4 runs |
| `StatusContract` | abstract: what the controller promises the reader of a status | property `ImplementsContract` of `ApplicationController` |
| `ComponentWatches` | several Applications that reconcile at once, sharing the registry of watches | `MCComponentWatches`, 1 run |
| `StatusPredicates` | the predicate of each component kind, as operators | through `WorkloadStatus` |
| `WorkloadStatus` | one component object over time, with its own controller publishing late | `MCWorkloadStatus`, 1 run |
| `HubMirror` | abstract: what push mode promises the hub | property `ImplementsMirror` of `PushStream` |
| `PushStream` | informer callbacks, send queue, snapshot and deltas, the hub's inventory | `MCPushStream`, 2 runs |
| `PushConnection` | connect loop, read and write loops, heartbeats, backoff, shutdown | `MCPushConnection`, 1 run |
| `LogMetrics` | the log metrics collector: scrapes, baselines, gate | `MCLogMetrics`, 3 runs |
| `ApplicationControllerProofs`, `StatusContractProofs`, `ComponentWatchesProofs`, `WorkloadStatusProofs`, `PushStreamProofs`, `PushConnectionProofs`, `LogMetricsProofs` | theorems about them (section 9) | `tlapm` |

Definitions that begin with the comment "Seeded fault" are deliberately wrong
variants of a definition that follows them. No specification uses them: they
are substituted for the right one to see that a property notices
(`PROJECT.json`, `mutants`).

## 1. Inventory

### Reconciler (`controllers/application_controller.go`, `condition.go`)
*State*: none of its own besides the `watched` registry of dynamic watches;
everything else is in the API server (the Application with its status), the
informer caches (which lag) and the workqueue (keys, `AddAfter` timers, the rate
limiter). *Operations*: `Reconcile`, `ensureComponentWatches`,
`applicationsForComponent`, `updateApplicationStatus`. *Interactions*: reads go
to the cache, also for unstructured objects (`main.go:141`); writes go to the
API server under optimistic concurrency; component events arrive through
watches that the controller registers while it runs. *Hard*: one reconcile reads
the Application at least twice, from a cache that may be behind its own last
write; writes conflict and are retried with an already computed status;
RESTMapping, List, Watch and Update fail separately; the stabilization period
(ADR-0001) delays a write with a timer; the process restarts with nothing.
*Correct when*: no wake-up is lost; the verdict agrees with the component list
it is stored with; `observedGeneration` is bounded by the generation and never
goes back; `lastTransitionTime` is the time of a transition; a recovery is
reported only after the period; everything is reported in the end.

### Status predicates (`controllers/status.go`)
Pure functions from an object of some kind to Ready, InProgress or Unknown.
*Hard*: counts during scale-up, rolling update and deletion, and statuses of an
older generation (ADR-0003). *Correct when*: Ready implies that the controller
of that kind has finished with the current generation, and nothing flaps while
a healthy workload scales.

### Pusher (`push/pusher.go`, `protocol.go`, `hmac.go`)
*State*: `sendC`, `droppedFrames`, `rejected`; per connection the registrations,
a context, a read and a write loop. *Operations*: `Start`/`runOnce`,
`registerHandlers`/`removeHandlers`, `onApp`, `onEvent`, `SendLogMetrics`,
`enqueue`, `sendSnapshot`, `writeLoop`, `readLoop`. *Interactions*: informer
goroutines call back, the log metrics collector calls `SendLogMetrics`, the hub
answers pongs or closes. *Hard*: handlers, listing, snapshot and queue race with
changes; the queue is bounded; the connection can break anywhere; a callback can
outlive its registration. *Correct when*: the hub's inventory converges to the
cache's, nothing that exists is removed, nothing old reaches a new connection,
and reconnecting neither hammers the hub nor stops.

### Log metrics collector (`logmetrics/`)
*State*: a baseline of counters per endpoint. *Operations*: a run per interval
(discover, scrape each, deltas, gate, send). *Interactions*: Fluent Bit pods
that restart and move; the Pusher. *Hard*: resets, reused addresses, failed
scrapes, dropped frames, restarts. *Correct when*: each line is reported at most
once and, above the threshold, at least once.

### Wiring (`main.go`)
Flags, the manager, leader election, `--sync-period`. It determines what the
models assume: informers resync, unstructured reads are cached, the Pusher and
the collector run on the leader only.

### Left aside
Generated deep copies, CRDs, the Helm chart and Fluent Bit pipeline, build
files, and the end-to-end tests hold no state or logic of the program.
`hmac.go` is one pure computation that no property here can tell apart.
Descriptive fields of the Application spec carry no behaviour.

## 2. Plan

| step | module | about | state |
|---|---|---|---|
| 1 | `ApplicationController` | the core | done |
| 2 | `ApplicationControllerProofs` | types and six safety properties | done |
| 3 | `PushStream` | convergence of the hub's inventory | done |
| 4 | `LogMetrics` | exactness of the counts | done |
| 5 | `StatusPredicates`, `WorkloadStatus` | `status.go` kind by kind, under scaling, updates and failures | done |
| 6 | `PushConnection` | `Start`, `runOnce`, the two loops, heartbeat and read deadline, backoff, rejection, shutdown | done |
| 7 | `ComponentWatches` | the watch registry shared by concurrent reconciles; roll-back of a failed `Watch()` | done |
| 8 | `HubMirror` | abstract specification of push mode; `PushStream` refines it | done |
| 9 | proofs | types and the main safety property of each module 3, 4, 6, 7, and the safety part of the refinement | done |
| 10 | proofs | no lost wake-up (`RestImpliesReported`), the drained stream (`DrainedMeansMirrored`), the bounded shutdown and the kept connection of `PushConnection` | done |
| 11 | proofs | the status predicates under every history of their object (`WorkloadStatusProofs`); no line is missed (`NoneMissed`); the transition time and the stabilization period across re-creation | done |
| 12 | `StatusContract` | abstract specification of the status reports; `ApplicationController` refines it, by `StatusContractProofs` for every instance | done |
| 13 | `PushedMetrics` | `LogMetrics` composed with the channel of `PushStream` | left out: `LogMetrics` already lets any part of a frame be lost, which is more than chunks and a full queue can do |

## 3. `ApplicationController`

### State
| variable | in the program |
|---|---|
| `store` | all versions of the Application in the API server (index = resource version): object identity, generation, liveness, status |
| `seen` | the version the informer cache holds |
| `comp` | component objects, one at most of each declared kind, as the component informers' caches hold them |
| `queued`, `timer`, `backoff` | the workqueue: the key, its earliest `AddAfter`, its place in the rate limiter |
| `watch` | the dynamic watch of a kind: none, registered but its handler not attached, attached |
| `pc`, `job` | the worker: where it is in `Reconcile`, and its locals (version read, time it began, kinds still to list, results, new status, version re-read, attempts) |
| `now` | wall clock |
| `changes`, `faults` | counters of the bounds |

### Actions
`StartReconcile` is the first cached Get with `ensureComponentWatches`;
`ListKind` is one kind of `fetchComponentListResources`; `ReturnUnchanged`,
`ReturnStabilizing` and `BeginWrite` are the three ends of the decision in
`Reconcile:86-119`; `GetOriginal` and the `Update...` actions are
`updateApplicationStatus` with `RetryOnConflict`. `AppInformer`,
`WatchSynced`, `TimerFires`, `BackoffExpires`, `Resync` deliver what enqueues the
key. `ComponentChange`, `SpecChange`, `Delete`, `Recreate`, `Tick`, `Restart` are
the world. A step is one read or write of shared state, so everything else can
happen between any two reads of a reconcile.

### Simplifications
* One Application: the workqueue runs at most one reconcile of a key, and
  Applications share only the watch registry (`ComponentWatches`).
* At most one object per declared kind, represented by what `status()` makes of
  it: Ready, InProgress, an error (`Broken`, reported as Unknown with the error
  flag set), or for a workload a value it does not know (`Unmapped`: Unknown
  without an error). `StatusPredicates` has the predicates themselves. Several
  objects of one kind are conjoined as objects of several kinds are.
* Every version of the Application is delivered to the cache in order; an
  informer may skip versions, which would only remove some of the wake-ups that
  are followed by another one.
* A deletion is immediate; an object with a deletion timestamp counts as gone.
* The `Error` condition is left out: it is set exactly when Ready is Unknown.
* A clock that reaches `Horizon` stops, and all waits are over there.
* A restarted process begins with a current cache. The first list may in fact come
  from the API server's watch cache and be older; a reconcile from such a list
  could report an older generation than the process before it did, and start
  from an older status, which is the case `controller_stale` is about.

### Runs
`Enabled` names the races and failures of an instance; `MaxChanges` bounds the
changes to components and Application, `MaxFaults` the failures, `MaxTries` is
the number of attempts of a conflicting write (5 in client-go, 2 here: first and
last attempt are the two cases the code distinguishes).

| run | checks | instance | states |
|---|---|---|---|
| `controller_safety` | `TypeOK`, `RestImpliesReported`, `ObservedGenBounded`, `ObservedGenNeverRegresses` | one workload, 2 changes, 1 of: failed list, watch or write, crash; lagging cache; clock 0..1 | 4.1 M |
| `controller_fresh` | `TransitionTimeFaithful`, `Stabilized`, `ImplementsContract` | period 2, clock 0..3, 2 changes (deletion and re-creation too), 1 failed list or write, reconciles start from a current cache | 5.7 M |
| `controller_resync` | `StatusCoherent`, `EventuallyReported` | a workload and an infrastructure kind, period 1 and clock 0..1, 1 change to components or spec (no deletion), 1 failure of any sort | 1.4 M |
| `controller_stale` | `Stabilized`, violated | smallest instance with the case | |

Two changes suffice for the interesting orders: the recovery that follows a
failure, the spec change between the listing and the write, the deletion with
re-creation. A longer run of changes repeats these from a state that is already
reachable. One workload suffices for wake-ups, because each kind has its own
watch and all of them enqueue the same key; several kinds are combined only by
the conjunction of `AggregateReady`, and `controller_resync` has two kinds. The
theorems are free of all these bounds. Deadlock is not checked: a quiet cluster
lets the controller rest, and that is what `AtRest` describes.

`TransitionTimeFaithful` is about both directions: a write that changes Ready
carries a time between the begin of its reconcile and the write (the time is
taken when the conditions are computed, and the write may be retried), any other
write carries the time it found. Only a reconcile that was begun for an earlier
object of the same name is excused from the first.

`RestImpliesReported` says what holds without any resync: the spec and the watched
workloads are reported, and the controller does not rest while components fail
(`RequeueAfter`). It is about workloads:
infrastructure kinds have no watch (`ensureComponentWatches` skips what
`workloadKinds` does not list) and are only refreshed by the next reconcile.
`EventuallyReported` covers them, with the resync.

### The contract
`StatusContract` knows the components, the Application as it is stored, the time,
and a report in preparation. A report is begun for the Application as it is; each
component is looked at once, as it is at that moment, not at all (its kind has no
mapping) or with an error; it is dropped at any time, or becomes the status, with
the verdict of what was seen. Of the Application it was begun for, it then
observes the generation of that time, gives a transition the time since the report
was begun, keeps the transition time where there is none, and reports a recovery
only after the stabilization period. A kind is left out of a report only where
RESTMapping may fail (`Unserved`). Nothing of
caches, versions, retries, timers, watches or restarts is in it.

`ImplementsContract` maps `app` to the last version, and `draft` to the locals of
the worker: what has been listed so far, and after the decision what is in the
computed status. `StartReconcile` is `Begin`, `ListKind` is `Observe`, an accepted
update is `Report`, every other end of a reconcile and a restart is `Forget`;
the decision, the second Get, conflicts that are retried and all deliveries are
stutters. It needs reconciles that start from a current cache, as the two action
properties of that run do. A report that was begun before the Application was
re-created is accepted for the new one: there the contract only says which
components and which verdict are stored.

### Fairness
Weak fairness on each step of the worker, on the delivery to the cache and the
handlers, on the expiry of timers and rate-limited keys and on the clock: these
are goroutines of the process or time itself. Weak fairness of `Resync` stands
for `--sync-period`, which recurs for ever. The cluster gets none: no change and
no failure has to happen, and failures are bounded, because a List that always
fails can never be reported otherwise than it is. A conflict needs no fairness:
it only occurs after another change.

## 4. `ComponentWatches`

### State
`comp`: components with their state and the Applications whose selector matches
their labels. `registry` is `watchedKinds`; `starting`, `attached`: kinds whose
source is started, and whose handler is attached to the informer; `queue`, `at`,
`todo`, `holding`, `listed`: the workqueue and the reconcile of each
Application, with the kinds `ensureComponentWatches` has still to look at and
the one it has stored in the registry; `report`: the component list in each
status. `starts`, `lacking` and `missed` are histories: watches started, kinds for
which something failed, and the components of which an Application got no event
since its last List.

### Actions
`Begin` takes a key (at most `Workers` at a time, one reconcile per key);
`MappingFails`, `AlreadyWatched`, `Claim` (`LoadOrStore`), `WatchStarts` and
`WatchFails` (with the roll-back) are `ensureComponentWatches`; `List`, `Write`,
`WriteFails` the rest. `Attach` is the source with its replayed Adds, `Change`
an event with `applicationsForComponent` of the old and of the new object,
`Restart` and `Resync` as before. `Deliver` makes one such call for each object of
an event; a call that cannot list the Applications returns nobody, and the event is
lost. The selector index is the informer cache, so an
event sees the labels it carries.

### Run
`watches` (1.5 M states): two Applications, one with a kind of its own and both
with a common kind, two workers, one component with any labels, 2 changes, 1
failure (of a mapping, a `Watch()`, a lookup, a write) or restart. It checks
`TypeOK`, `WatchedOnce`, `RegistryFaithful` and `WatchedIsReported`. The last excuses
exactly the components in `missed`: nothing retries a lost lookup, so that until the
next List of the Application, by another event or the resync, its report may be old. Two workers suffice to have one skip a watch that the
other is about to start, or fails to start; a third would skip it as well.
Liveness is left to `controller_resync`: what can rest is what
`WatchedIsReported` describes.

## 5. `StatusPredicates` and `WorkloadStatus`

`StatusPredicates` has each function of `status.go` as an operator on a record of
the fields it reads. Errors are a verdict of Unknown; a field that has not the
type the code asks for is a member of `malformed`. Conditions are a function of
their type, since controllers keep one entry of each type.

### State
`kind`, `malformed`: of the object. `replicas`, `generation`: the spec. `parts`:
its pods, or the conditions, parents or ingress entries for kinds without pods.
`fresh`, `updating`, `failing`: a rolling update, and pods that cannot be
created. `status`: what its own controller has published: the view the counters
show, the view the conditions show, the phase. `disturbed` is a history: more
has happened since the object last settled than scaling up.

### Actions
`Scale`, `StartUpdate`, `FinishUpdate`, `Create`, `ComesUp`, `Remove`, `Replace`,
`Breaks`, `Stops`, `Resumes` are the cluster; `PublishCounters`, `PublishConditions`
and `PublishStatus` the object's controller, which for a Deployment publishes
counters before conditions, and with a new generation possibly counters and no
conditions at all (ADR-0003 names both gaps). All of it is external to
this repository and kept to what the comments of `status.go` say about it; what
is checked is the verdict.

### Run
`workload_status` (226 k states): every kind, at most two wanted pods and a third
while updating, one may be unavailable, 1 change and 1 failure. `OutageReported`:
an outage that is published is not Ready, nor is an object without any status
(DaemonSets and unknown kinds excepted, which are Ready until something
contradicts). `ScaleUpKeepsReady`: a ReplicaSet or
ReplicationController that serves does not leave Ready while it scales up, and a
Deployment does so only where its counters are published and no condition is, in
whatever order generation, counters and conditions appear. In that window
`status.go:161` asks for a condition that is not there (section 10).
`EventuallyReady`: nothing stays InProgress for ever. With one change and one
failure every pair of causes meets once (an update during an outage, a failure
in a scale-up); the parts repeat each other. Fairness: the object's controller
does its work and what stopped resumes; nobody owes a change or a failure.
`Checked` is the set of kinds of an instance, here all of them (`Kinds`).

## 6. `PushStream`

### State
`cache`: the informer cache. `pending`: notifications of the registered
listener, the head being possibly in its callback. `late`: what a callback still
carries whose handler was removed. `queue`, `made`, `dropped`: `sendC`, that it
is not nil, and that `droppedFrames` is not 0. `phase`: the place in `runOnce`
(`down`, `dialed`, `registered`, `snapshot`, `streaming`). `link`: whether writes
reach the hub. `unlisted`, `listed`, `unsent`: the List calls still to make,
what they returned, what is not written yet. `view`: the hub's inventory.
`recent` is a history variable: what each Application has looked like since the
connection was dialed.

### Actions
`AppChange` and `MissedDelete` change the cache and notify in one step, as the
shared informer does under its lock. `Callback` is `onApp` with `enqueue`;
`OtherFrame` is `onEvent` or `SendLogMetrics`. `Dial`, `RegisterHandlers` (with
the Adds that client-go replays), `SendHello`, `ListNamespace`, `WriteChunk`,
`WriteEnd`, `WriteFrame` are `runOnce` in order. `LinkBreaks`, `ConnectionLost`,
`RegisterFails`, `ListFails` end it; `EndConnection` leaves `sendC` as it is, as
the code does. A failed dial, or an unreadable token, changes nothing and is the
absence of `Dial`. The hub's side is taken from the protocol (ADR-0005: it
"reconciles removals" at `snapshot_end`).

### Runs
| run | checks | instance | states |
|---|---|---|---|
| `push_safety` | `TypeOK`, `DrainedMeansMirrored`, `RemovalJustified`, `EventuallyMirrored`, `ImplementsMirror` | two namespaces, chunk 1, queue of 3, 2 changes, 1 failure | 648 k |
| `push_resync` | `ExistingEventuallyMirrored` | one Application watched and one not, queue of 2, 2 changes, 1 failure, 1 other frame, missed deletes, late callbacks, resync | 678 k |

The queues overflow: one of 3 by two replayed Adds and two changes, one of 2 by
an Add, a change and another frame; and they suffice in other behaviours of the
same run. The hub starts with an arbitrary inventory of the watched namespaces,
which stands for an earlier agent process. `EventuallyMirrored` excuses a
connection that dropped a frame: a dropped delete is not repeated before the
next reconnect. `push_resync` assumes that a resync burst finds the pipeline
drained and fits into the queue (the resync period is 120 s by default, the queue 4096):
with more Applications than the capacity, one resync may lose frames like any
burst. `CHECK_DEADLOCK` is off because a stream with nothing to send rests.

A callback that outlives its registration is admitted in `push_resync` only: it
takes one that stalls (in its log call, say) for longer than the reconnect
backoff. With `"late"` in `Enabled`, `DrainedMeansMirrored` does not hold: the
old delta gets onto the new channel and may bring back a deleted Application,
which the comment at `pusher.go:193-194` rules out.

### What it implements
`HubMirror` says what the receiver of the stream may rely on, without queues,
snapshots and links: every entry of its inventory is something the Application
has looked like since the connection was dialed, and unless the connection has
dropped frames the inventory catches up with the cache. The refinement maps the
inventory, the cache and `recent` to themselves and `lossy` to a frame that was
dropped; the snapshot, queue and callbacks are its internal steps. The run
`push_safety` checks steps and liveness (`ImplementsMirror`), the theorem
`StreamMirrors` proves the steps for every instance without late callbacks.

### Fairness
The informer's goroutines, the connect loop (which retries for ever) and the
loops of a connection run; a broken link is noticed, because writes fail or the
read deadline of three heartbeats passes. Failures and changes are bounded.

## 7. `PushConnection`

`PushStream` has what is sent; this module has when a connection begins, ends
and begins again, and how the two goroutines of one find each other's end.

### State
`phase`: the place of `Start` and `runOnce` (waiting for the caches, dialing,
registering handlers, writing hello, snapshot, streaming, joining = in
`wg.Wait()`, sleeping, stopped). `timer`: what that place waits for.
`backoff`, `rejected`: as in the code. `reader`, `cancelled`, `deadline`: the
read loop, `connCtx` and the read deadline. `link`, `closing`, `pong`: the
connection, a close frame and a pong under way. `hub`: what the hub does with
connections. `stop`: the manager's context. `calm` (time since a rejection
arrived) and `overtime` (time since the stop) are histories.

### Actions
Each statement of `runOnce` that can block or fail is one: `Dial`, `DialFails`,
`Register`, `RegisterFails`, `WriteHello`, `WriteSnapshot`, `SnapshotFails`,
`SendHeartbeat`, `WriteLoopEnds`, `Join`; `Return` is its end with the choice of
the next wait; `Wake` the end of the wait. `ReadPong`, `ReadPolicyViolation`,
`ReadError` are the read loop. `HubRejects`, `LinkFails` (cut, or silent: writes
go nowhere without an error), `HubTurns`, `ShutDown` are the surroundings.
`Tick` passes time only when every goroutine waits, so that a step of the
program takes none; the snapshot takes 0 to `MaxSetup` ticks. A hub sends pongs
and a close frame only (ADR-0005); a close frame is read or lost, and one that
arrives and is discarded by a reset of the connection counts as lost, and a token that cannot be read is a failed
dial.

### Run
`push_connection` (29 k states): heartbeat 2, so a read deadline of 6; backoff
1, 2, 4; snapshot up to 2, pong up to 1; 2 failures, 2 turns of the hub.
It checks `TypeOK`, `ShutdownBounded`, `RejectionBacksOff`, `LivePeerKept`,
`ShutdownCompletes` and `EventuallyStreaming`. Two failures and two turns give
a rejection after a silent link, a cut during a rejection, a hub that
goes away and returns between two attempts. `LivePeerKept` has a premise,
`Tight`, on the constants only, which the instance satisfies: no heartbeat is
sent before the snapshot is out, so a setup near the read deadline trips it
however alive the peer is (section 10). Fairness: the goroutines run, time
passes, a hub that rejects closes the connection. Deadlock is off because a
stopped Pusher stops.

## 8. `LogMetrics`

### State
`counter`: the cumulative counters of the pod at each address, per service and
metric; `ready`: the ready addresses of the Endpoints; `prev`: the baselines;
`pc`, `todo`, `totals`: a run in progress; `reported`: what the hub was told in
sum; `logged`: history, the lines counted so far.

### Actions
`StartRun` is the tick with `discoverEndpoints`; `ScrapeEndpoint` is `scrape` and
`computeDeltas` of one endpoint with the new baseline; `ScrapeFails` skips it;
`Send` is the gate and `SendLogMetrics`, of which some services may be lost
(the channel is full, the connection is down, a chunk is dropped).
`LogLine`, `ResetCounters`, `Leave`, `Join` are the Fluent Bit pods, `Crash` a
restart or a change of leader. Lines go on being counted between the scrapes of
a run. The total counter is carried like the others but gates nothing, and is
left out; so are the sample text and the exposition format.

### Runs
| run | checks | instance | states |
|---|---|---|---|
| `logmetrics_safety` | `TypeOK`, `NeverOverreported` | two pods, threshold 2, 5 lines, 2 failures | 1.0 M (up to symmetry of pods) |
| `logmetrics_live` | `NoneMissed`, `EveryLineReported` | two pods, two services, errors and warnings, threshold 1, 2 lines, 2 failures or restarts of the collector | 38 k |
| `logmetrics_dropped` | `EveryLineReported`, violated | smallest instance with the case | |

Five lines let a counter pass its old baseline and be reset twice. With a
threshold of 1 the gate withholds nothing; with a higher one, lines below it are
given up on purpose, so `EveryLineReported` and `NoneMissed` are not claimed
there. `NoneMissed` is the safety half of `EveryLineReported`: between runs,
whenever the baselines are the counters, nothing is owed. `NeverOverreported`
and these together say exactly once, each under the failures that permit it: a
pod that restarts takes unscraped lines with it, so resets are only in the
safety run; a collector that restarts reports lifetime totals again, so crashes
are only in the live run. Fairness: the ticker fires, each target of a run is
tried, and the pods of the DaemonSet come back; nothing is assumed of log lines.

## 9. What is proved

Every theorem holds for all values of the constants: numbers of kinds, objects
and workers, periods, capacities, bounds, sets of failures. The named
assumptions of the modules give the constants their types and no more.

`ApplicationControllerProofs`:

| theorem | says | assumes |
|---|---|---|
| `TypeCorrect` | types; a worker refers to versions the cache has held | |
| `StatusIsCoherent` | no stored status contradicts its own component list | |
| `ObservedGenIsBounded`, `ObservedGenIsMonotone` | observed generation <= generation, and never back | no re-creation |
| `TransitionTimeIsFaithful`, `RecoveryIsStabilized` | a change of Ready is dated within the reconcile that found it and nothing else moves the transition time; a recovery waits the period | reconciles start from a current cache |
| `RestIsReported` | a controller at rest has reported the spec and every workload it watches, and none of its components fails to be read | no failed lookup |

"No re-creation" and "a current cache" are needed: the instances `MCController_recreate.cfg`
and `MCController_stale.cfg` violate the properties without them. A lookup of the
Applications that fails loses the event of a component, which only the resync
makes up for.

*Argument.* `StepKinds` reduces the actions to nine kinds of steps by what they
do to the stored versions, the cached one and the worker, so that each invariant
is shown over nine cases. `TypeOK` is inductive as it stands. None of the others is:
* `GenerationInv` adds that generations grow with the version index, that the
  stored observed generation is at most the one of the version a cached read
  returns (the cache never lags behind what has been observed) and of the
  version the worker started from, and that a computed status observes exactly
  the latter. A write therefore moves the observed generation forwards,
  however old the read was.
* `CoherenceInv` adds the same verdict-and-list condition for the status in the
  worker's hands, and that an Unknown among the listed infrastructure kinds has
  set the error flag (a workload may be Unknown without one).
* `FreshInv` adds that the version a worker started from still carries the
  stored status (the controller is the only writer of status, and works on one
  key at a time), or else belongs to an earlier object of the same name and the
  present one has no status yet; that the stored transition time is not later
  than the begin of the reconcile (`began`); and that a status to be written already
  satisfies what the action properties ask of the write: dated since the begin if
  it changes Ready, dated as before if not.
* `WakeInv` speaks of the moments when nothing is going to wake the worker: the
  key is not in the workqueue and the cache is current. Then what has been listed
  so far is still so or an error has been noted (a component that changes behind
  an attached watch adds the key, one that is found when its watch attaches
  too); a status about to be written differs from the stored one, so that the
  write comes back as an event; and an idle worker without a timer has left a
  right status, which is not Unknown. A key that is added while its reconcile runs falsifies the
  premise, which is why the workqueue must not drop it.

Each is shown by *Init => Inv* and *Inv and a step => Inv'*, and concluded with
the temporal rule; the action properties follow from the invariant and the kind
of the step.

`StatusContractProofs`:

| theorem | says | assumes |
|---|---|---|
| `ControllerKeepsContract` | `Spec => Contract!Spec`: each step is one of `StatusContract` or a stutter | reconciles start from a current cache |

*Argument.* `ContractInit` and `ContractStep`, the latter by one lemma for each
sort of step. `FreshInv` gives what `Follows` asks of the write. `DraftInv` adds
what ties the computed status to the report: it observes the generation that was
read, its verdict is that of its own component list unless it is Unknown, and the
version about to be written onto was live when it was read. The last is what
makes an accepted update a `Report`: between the second Get and the write an
Application can be deleted, and only the resource version keeps the status from
being written onto what is no longer there (the seeded fault `UpdateForced`
drops it).

`ComponentWatchesProofs`, for every run:

| theorem | says |
|---|---|
| `WatchTypes` | types; a reconcile that holds an entry is in `ensureComponentWatches` at that kind |
| `WatchesAreUnique` | no kind is watched twice in the life of a process |
| `RegistryIsFaithful` | an entry without a watch has a reconcile that will start it or roll it back |
| `RestIsReported` | at rest every Application shows the components of the watched kinds, except those whose event was lost with a failed lookup since its last List |

*Argument.* `RegistryInv`: a kind held by a reconcile is in the registry and has
no watch yet, no two reconciles hold the same kind, and a kind that is not in
the registry has no watch; `WatchedOnce` alone is not inductive, since it says
nothing of what a roll-back leaves. `InformedInv`: an Application is queued, or
each of its kinds is registered, failed or still to be looked at; and about each
matching component of an attached kind it is queued, about to list, or holds
(in the worker, then in the status) what the component is, or has missed the
component. Every step either keeps that or queues the Application; of an event, by
the lemma `Delivery`: whoever matches is queued, or the component is noted as
missed.

`WorkloadStatusProofs`, for any numbers of pods, changes and failures:

| theorem | says |
|---|---|
| `WorkloadTypes` | types; whatever is published, each predicate answers Ready, InProgress or Unknown |
| `OutagesAreReported` | an outage that is published is not Ready, nor is an object without a status |
| `ScaleUpsKeepReady` | a serving ReplicaSet or ReplicationController that scales up stays Ready; a serving Deployment, as long as a condition of it is published |

*Argument.* `IInv` is `BasicTypes` and `StatusType` (what is published is a view
of the parts), `PartsInv` and `SoundInv`. `PartsInv`: the generation counts from
1, so that a published view differs from no view; only kinds with a template
are updated; and an object that is not scaled never has more parts than it was
created with. `OutageReported` then is a statement about one state, shown kind
by kind, from the predicate of that kind and the counts of a view that is in
sync with an object that is down. `ScaleUpKeepsReady` is about a step, and
`SoundInv` keeps what it needs: an object that nothing but scale-ups has
disturbed since it settled has a part that serves, and its status says so, in
whichever of the counters and the conditions is published; of a Deployment, no
more than the tolerated number is missing in the view of the conditions, if there
is one. An undisturbed object of the three kinds is therefore Ready in every state,
but for a Deployment without conditions.
The proofs also ask that the arms of a `CASE` exclude each other, since TLA+ leaves
the choice open where two apply.

`PushStreamProofs`:

| theorem | says | assumes |
|---|---|---|
| `StreamTypes` | types; the queue stays within its capacity | |
| `StreamMirrors` | `Spec => Mirror!Spec`: each step is one of `HubMirror` or a stutter | no late callback |
| `RemovalsAreJustified` | the hub removes only what was absent at some time of this connection | no late callback |
| `DrainsMirror` | once a connection that dropped nothing has drained, the hub has what the cache has | no late callback, no tombstone |

*Argument.* `MirrorInv`: everything in the pipeline, from the pending
notifications over the queue to what the snapshot has listed, is something its
Application has looked like since the dial, a namespace that has been listed
included when it lists nothing of an Application; and nothing out of scope is
listed or in the inventory. Without the last part of it `snapshot_end` could
remove an Application whose namespace has not been listed. A late callback
breaks it: its note is of the connection before. `DrainInv`, on a connection that
is up and has dropped nothing: the last word about an Application among the
pending notifications, or, where these are silent, in the queue, is what the
cache holds; where both are silent the hub has it, or before the stream begins,
the Application is absent and the snapshot has not listed it. It rests on the
handlers being registered before the snapshot lists, and on the replay of
`AddEventHandler`; a tombstone is a last word that is not the cache's. The
constant assumption that `Other` is no note keeps the frames apart.

`PushConnectionProofs`:

| theorem | says | assumes |
|---|---|---|
| `ConnectionTypes` | types; the backoff stays within 1 and its cap | |
| `RejectionsBackOff` | no dial within the longest backoff after a rejection arrived | |
| `ShutdownsAreBounded` | a shutdown takes at most the read deadline and one pong's delay | no snapshot takes longer than that |
| `LivePeersAreKept` | a hub that answers is not given up | (`Tight`, part of the property) |

*Argument.* `RejectionInv`: while less than the longest backoff has passed since
a rejection arrived, a connection that is still there has it in `rejected` or in
a close frame that the read loop has still to read; a sleep and the calm before
it together make up the longest backoff; and a close frame waits only on a
connection that is cut, so that no read but that of the close frame ends it.
The wait for the read loop in `runOnce` is what makes the second follow from the
first.
`OvertimeInv`: what a shutdown has taken so far and what the deadline, or the pong
that is on its way and moves it, may still take are within the bound; before that,
the same with what is left of a snapshot. Once the write loop has ended nobody
pings, so that at most one pong is outstanding. `LiveInv`: while the link is up, the read
deadline lies behind the next pong, the outstanding one or that of the next
ping; up to the first ping by the slack of `Tight`, from then on because each
pong moves the deadline by three heartbeats.

`LogMetricsProofs`:

| theorem | says | assumes |
|---|---|---|
| `CollectorTypes` | types | |
| `NothingIsOverreported` | no series is reported more often than it was logged | the collector does not restart |
| `NothingIsMissed` | between runs, when the baselines are the counters, every logged line has been reported | threshold 1, no lost frame, no counter reset |

*Argument.* For each series, what was reported, what the run in progress holds
and what no scrape has seen yet never exceed the lines logged. The last is a sum
over the addresses; it is written as the partial sums along an enumeration of
them (`PartialSums`), so that a change at one address shifts the later sums by
as much. A reset only lowers the unscraped lines of
an address, by the reset rule of `counterDelta`. A restart of the
collector forgets the baselines, and the lifetime totals are reported again,
which is why it is excluded.
`NothingIsMissed` turns the inequality round (`KeptInv`): without resets the
counters add up to the lines logged, no baseline is ahead of its counter, and what
was reported, what the run holds and what is not yet scraped cover what was
logged. That survives a restart of the collector, since lost baselines only make
more lines unscraped, and a failed scrape, since the baseline stays. When
the baselines are the counters every address contributes nothing, so that the sum
is zero (`ZeroSum`): an induction over the naturals, from `Induction`, which states it of
a set and follows from the well-foundedness of `<` in the library. Its
assumptions are those under which the code promises it: a higher threshold and a
lost frame give lines up, and a pod that restarts takes its unscraped lines with
it.

*Only model-checked*: everything about liveness (`EventuallyReported`,
`EveryLineReported`, `EventuallyMirrored`, `ExistingEventuallyMirrored`, `EventuallyReady`,
`ShutdownCompletes`, `EventuallyStreaming`, the catching up in
`ImplementsMirror`), which the prover cannot do. Every other property of a passing
run is stated by a theorem. No module declares a recursive operator.

## 10. Findings

The runs that end in a violation show where code and text disagree
(`PROJECT.json`, `findings`, quotes the lines).

1. `controller_stale`: a reconcile that starts before the cache shows the
   controller's own last write skips the stabilization wait, because the status
   it compares with and the one it overwrites are read at different times.
2. `logmetrics_dropped`: counts of a dropped frame are not recovered by the next
   scrape, contrary to ADR-0006.

Noticed on the way. Five of these have an instance that shows the case (it ends
in a violation of the property named), the others follow from reading the
definitions next to the text.

*Reconciler.*
* `MCController_recreate.cfg` (`ObservedGenBounded`): the status of a deleted
  Application is written onto a new one of the same name, observed generation
  included.
* A RESTMapping that fails for any reason makes a declared workload invisible,
  and the Application Ready, until a later reconcile.
* An event of a component is dropped when `applicationsForComponent` cannot list
  the Applications (`application_controller.go:438-440`); nothing tries again before
  the resync.
* A component that leaves, or loses its labels, before the handler of its watch
  is attached gives no event: it stays in the report until the resync.
* The message of a not-ready Application puts the number of ready workloads
  before "not ready".
* The stabilization period is measured from the not-Ready transition, so that
  after a longer outage a first recovery is reported at once.

*Status predicates.*
* `MCWorkload_scaleup.cfg` (`NoScaleUpFlaps`): a Rollout that scales up goes from
  Ready to InProgress, since available < desired (`status.go:409`), although
  README.md:43-45 and ADR-0003 say that an HPA scale-up does not flap. A
  StatefulSet flaps too, since a new pod counts as current, and a DaemonSet on a
  node that joins, since `numberUnavailable` rises.
* A DaemonSet without a status is Ready.
* The README calls a started Job ready and the code a completed one; its rows of
  the PodDisruptionBudget (which also needs the observed generation) and of the
  Rollout differ from the code.
* `MCWorkload_window.cfg` (`NoScaleUpFlaps`): a serving Deployment that scales up
  goes from Ready to InProgress where its counters are published and no condition
  is. The amendment v1.2.1 of ADR-0003 (lines 132-133) says of this case: "A
  Deployment is now treated as serving if `Available` is `True`, OR
  `availableReplicas>0` and the condition is not explicitly `False`". The code asks
  for the condition alone (`status.go:161`), and the test file the amendment names,
  `scaleup_envtest_test.go`, does not exist.
* A Rollout in a phase that the code does not know is Unknown without an error,
  so that Ready becomes False and not Unknown.

*Push mode.*
* `MCPush_tombstone.cfg` (`DrainedMeansMirrored`): a deletion that the informer
  learns from a relist is not forwarded.
* `MCPush_disconnected.cfg` (`NothingQueuedWhenDisconnected`): `SendLogMetrics`
  counts as connected for ever after the first connection, because `sendC` is
  never reset.
* A shutdown can take the whole read deadline (60 s with the default heartbeat),
  since the context does not wake the read loop; the manager waits 30 s by
  default.
* A snapshot that takes about the read deadline trips it although the peer is
  alive, because no ping is sent before it is out; every reconnect meets the same.

*Log metrics.*
* A restarted collector reports the lifetime total of each counter as one window.
* `windowStart` is taken when the scrape starts, and so is the end of the interval
  that was counted and not, as `protocol.go:101` says, its beginning.

## 11. Not modelled

Reconciler: an Application without a selector, the texts of conditions, a
reconciler built without a manager. Push mode: the JSON encoding and the
handshake signature, which no property can tell apart. Log metrics: the chunking of `log_metrics` frames (a dropped chunk is the
loss of some services of a run), the exposition format, sample texts, the times
of lines. Wiring: flags, logging, the manager's own start and leader election.
Descriptive fields of the API types, generated deep copies, charts, the Fluent
Bit pipeline and the tests hold no behaviour that a property is about.
