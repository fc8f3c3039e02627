# TLA+ models of sebastian and cogsworth

The repository holds the programs of an industrial network manager:

* **cogsworth** (C++, Qt): the core. It stores projects (topology, device
  configuration), serves a REST API and websockets, computes TSN schedules and
  runs long jobs in threads, one per project.
* **sebastian** (Go): the front. It proxies the REST API to cogsworth and runs
  the operations that touch devices (deploy, topology mapping, scan, monitor,
  reboot, ...) in goroutines, through a separate device manager.
* **netdl** (Go): the data types of devices, links and topologies.

This directory holds TLA+ modules of the parts where concurrency makes them
hard to test, the TLC configurations that check them on small instances, and
proofs, checked by TLAPS, that the safety properties hold for all instances.

## Inventory

| part | state | operations | interacts with | hard because | right when | model |
|---|---|---|---|---|---|---|
| worker pool (`sebastian/common/workerpool`) | job channel, wait group, closed flag, context, mutex | AddJob, Close, CancelAndClose, Wait, WaitAndClose; workers | scan (BatchQuery), monitor dispatcher | the mutex is held over a blocking send and over Wait | no send on a closed channel, Wait is a barrier, accepted jobs run, nothing blocks for ever | `WorkerPool`, `JobService` |
| status gate (`act_core_project.cpp`) | project_status_list | UpdateProjectStatus | all device operations, over HTTP | the only exclusion between operations of different projects | one project in a device status | `ProjectStatus` |
| device operations (`modules/deploy`, `topologymapping`, `operations/*`) | per module: wsConnId, stopFlag | start, stop | gate, device manager, websocket clients | unsynchronised singletons, requests that time out but are served | one at a time, always answered, project always released | `DeviceOperations` |
| core jobs (`act_core*.cpp`) | ws_thread_handler_pools, statuses, monitor project | start, stop, stop monitor, delete; job threads | gate, websocket clients | joins under the core mutex, statuses written by threads | every handle joined, no job on a deleted project, no orphaned status, requests return | `CoreJobs` |
| scan (`modules/scan`) | mutex, context, cancel, batch runner | StartScanTopology, StopScanTopology | gate, worker pool | context replaced without the mutex; panics recovered | a stop reaches the scan it means and no other, results are read when complete, every scan ends | `Scanner` |
| monitor (`modules/monitor/monitor.go`) | internal state per project, context and session, settings, two mutexes | Start, Stop, hot reload, polling | gate, device manager, task dispatcher | locks that are given up, goroutines of an old session beside a new one, late requests | one monitor, under its own status; a stopped one leaves nothing behind; settings take effect | `MonitorLifecycle` |
| task dispatcher (`monitor_task_dispatcher.go`) | task maps, worker pool | scheduled tasks, RegisterTask, TriggerTask, WaitAndClose | worker pool, monitor | its mutex is held over sends into the pool | no deadlock with the pool, nothing dispatched after a stop | scheduled tasks in `MonitorLifecycle` |
| websocket hub (`controller/ws/wsconn`) | connection maps, write channels | Unicast, Multicast, Add, Close, workers | everything that answers clients | hub mutex and write lock taken in both orders, held over a send that blocks | no send on a closed channel, one order of messages for all clients, a slow or leaving client blocks nobody else | `WsHub` |
| link tracking (`monitor_diff.go`, `link_diff.go`) | mafLinksCache, currentLinkMap, the operation project in cogsworth | link callbacks, the periodic update with its passes | device manager, cogsworth | two goroutines edit the same links, each link with a mutex of its own, and look them up before they lock | the map is in step with cogsworth; the project comes to show the network | `LinkTracking` |
| multi-index cache, device id mapper | maps | map updates | monitor, scan | stale secondary indexes | indexes inverse to the data | no |
| transactions, undo and redo (`act_core_undo_redo.cpp`) | histories per project | start, stop, commit, undo, redo | every editing request | shared transactions of several requests | undo after commit restores the project | no |
| probe system job (`act_core_auto_probe.cpp`) | one thread | start, stop | core jobs | not excluded from concurrent kinds | handle joined | no |

Not modelled at all: the scheduling algorithms of cogsworth (numeric,
large inputs), the southbound protocol clients (I/O), netdl (data types), the service
platform client, the database (whole files), the remaining REST handlers (they
forward one to one), the generated OPC UA server.

## Modules

```
WorkerPool --- implements --> JobService <--- instantiated by --- Scanner <--- Scanner_proofs
    ^                                                                |
WorkerPool_proofs                                                    v
                    MonitorLifecycle  DeviceOperations  CoreJobs  ProjectStatus
                           |                |      ^      |  ^       ^  ^  ^
                           |                |      |      |  |       |  |  |
                           |   DeviceOperations_proofs  CoreJobs_proofs |  |
                           +----------------+-------------+-------------+--+
                           |
               MonitorLifecycle_proofs

DeviceOperations --- implements (in DeviceOperations_proofs) --+
                                                               +--> DeviceLease
Scanner ------------ implements (in Scanner_proofs) -----------+

LinkTracking <---- LinkTracking_proofs
WsHub <---- WsHub_proofs <---- WsHubOrder_proofs
```

`MC_MonitorLifecycle` and `MC_LinkTracking` hold the symmetry and the small
network of their instances. The other modules are instantiated by their
configuration alone.

Operators whose comment begins with FAULT are variants of an action with a
plausible error in it; no specification uses them. They are there to see that
each property would notice.

### WorkerPool and JobService

`WorkerPool` follows `worker_pool_waitable.go` and `worker.go` statement by
statement: `pc` is where a client goroutine stands in a method (`locking` before
`mutex.Lock`, `inside` after it, `sending` in `pool.jobs <- job`, `waiting` in
`wg.Wait`). A job's function is abstracted to "runs and ends"; a panic is
recovered by the worker and ends it the same way. `accepted` and `finished` are
history variables. `JobService` is the promise: jobs are accepted until closing,
started at most once, at most `Parallelism` at a time. The refinement maps
`started` to the finished jobs and those in a worker's hands.

### ProjectStatus

The gate as an operator on `status`. It runs under `g_core.mutex_`, hence in one
step. Two peculiarities of the code are kept: `Finished` is stored as `Idle`,
and the branch of the compute statuses stores nothing.

### DeviceOperations

A call is one start request, in a goroutine of its own. It overwrites `wsConnId`
and `stopFlag` of its module's singleton (`Start`), claims the project
(`SendClaim`, `ServeClaim`, then `ClaimGranted` or `ClaimRefused`), works, and
runs its deferred function (`Close`, `ServeRelease`, `Return`). The HTTP request
is a message, so with `HttpTimeouts` the caller may give up while cogsworth
still serves it. The checkpoints on `stopFlag` are one place, `working`, which
is left by a checkpoint that sees the flag, by a failure, or by the last
checkpoint; after it, in `finishing`, the flag is looked at only by the deferred
function. Topology mapping may fail before it claims. The body between the
checkpoints is abstract: any call in it may fail. `answers` records terminal
responses with the connection they went to; `stopped`, `disturbed` and
`overrides` are history variables that state provisos.

`DeviceLease` is what the gate promises its clients, without projects, requests or
timeouts: a lease is granted while nobody holds it, devices are worked on only
under it, and it is given back after the work. A holder may vanish with it, as a
call does whose claim was served too late. After a user's override (`revoked`)
the gate hands out a second lease, and what is left is that nobody works without
having been granted one. The same abstraction is implemented by `Scanner`.

### CoreJobs

The pool of websocket job threads. A request holds `g_core.mutex_` from its
first to its last step (`handler`), also while it joins a thread. `StartRequest`
is `CheckWSJobCanStart` up to the system status; `StartWithEmptyPool`,
`StartJoins`, `StartAfterJoin` and `StartRefused` are the rest of it and the
spawning. `SignalAndJoin` and `RemoveAfterJoin` are `RemoveWSJob` in its callers
`StopWSJob`, `StopMonitor` and `DeleteProject`. Requests that are refused change
nothing and are left out. The kinds Computing, Scanning, DeviceConfiguring and
Monitoring stand for all thread kinds: they differ in whether they may run
beside the monitor, whether they keep the project's status, and whether they end
by themselves. A thread's steps are the points where it writes shared state.
A failed assignment to a joinable `std::thread` is `crashed`, after which
nothing happens.

### WsHub

The websocket hub of sebastian with the handler, the two workers and the client
of each connection. A sender is any goroutine that answers or notifies clients;
`pc` is `locking` before `hub.mutex.Lock`, `iterating` in the loop over the
connections found, `writing` before `writeLock.Lock` in `Write`, `sending` in
`writeChan <- msg`. A handler is `adding` before the mutex of `AddConnection`,
`serving` in `Wg.Wait`, `closing` before the write lock of `Close`, `removing`
before the mutex of `removeConnection`, `ending` before `close(writeChan)`.
Critical sections that cannot block are one step. `members` is `projectIdMap`
and, at `ProjectIdNone`, `systemMap`; the order of its slices is abstracted, a
loop may take the connections in any order. The reader looks at its context only
between messages, so after the writer has failed it may stay for ever. The
history `delivered`, the message in the writer's hands and the channel make up
the stream of a connection, which `SameOrder` speaks of. An empty message, which
the writer skips, is not sent by anything.

### MonitorLifecycle

`Start` and `Stop` first take `m.mutex`, which they try nine times and give up
on (`TryLock`, `GiveUp`), then `m.internalMutex`, for which they wait (`Lock`).
What follows is one sequence of steps for whoever holds `internalMutex`: `phase`
says where it is, `subject` for which project, and the deferred functions are
the steps `StartSucceeds`, `StartFails`, `StopReturns` and those of the reload.
A session is a context that `onStartMonitor` made; its goroutines (poller,
updater, dispatcher, jobs of the pool) are variables of the session, because
they may outlive it, and each acts only as far as its own context and the shared
state let it. NM, the monitor of the device manager, is the session it was last
started for. Requests to it and to cogsworth fail, and goroutines panic, at most
`MaxFaults` times; those about a deleted project always fail. A panic of a start is
recovered as its error (`LoadFails`, `NmStartFails`). A panic of a reload is
recovered too, but what the reload restores is the state Running, whether NM
runs or not (`ReloadPanics`); `leftBehind` is the history of that, and of a reload
that failed and could not be stopped, until NM is started again or stopped in
order. A status request may time out and stay in `late` until it is served. The
dispatcher adds one job per step to a pool that takes `PoolSize` before `AddJob`
blocks, as `WorkerPool` shows it does; its mutex is held while it adds (`adding`), which is what `WaitAndClose`
(`Drain`, `Close`) waits for. The settings of a project, the scan ranges and the
polling interval, are one value: `stored` in cogsworth, `found` by the last poll,
`applied` in the monitor. A reload writes what was found back to cogsworth
(`NewSettings`), over an edit made since the poll; the history `wanted` keeps what
the user set. The replies of the two mutexes' holders to their clients and the contents of the caches are left out.

### LinkTracking

What one session does to the links of its operation project. NM's callback and
the periodic update run in goroutines of their own; both create and delete links
in cogsworth over HTTP and record the outcome in `m.currentLinkMap`, under a
mutex per link. `network` and `alive` are what NM knows, `diffs` what it has not
told the callback yet, `maf` the monitor's cache of it. `core` gives for every
link the object cogsworth has, `current` the one the monitor believes in; `Gone`
is an object whose device was deleted. The callback is `Deliver`, `Examine` (the
lookup, before the mutex), then `CallbackCreates` or `CallbackDeletes` and
`CallbackRecords`. The updater's `phase` is the function or loop its round is
in: it reads NM, replaces the cache, deletes and creates devices, copies the
caches, and makes the six passes (prune, unchanged, new, rewired, restore,
info). In a pass it picks one link after the other in any order, as Go iterates
over maps, evicts what occupies its ports and creates it. A link has an identity
by its two ports, and a port is a device and an interface, as in `DiffLink`.
`unsure` is history: a request was done whose reply was lost.

### Scanner

The handler of the start command claims the project, calls the scanner and
releases the project whatever came of it. The scanner's `mutex` is only tried;
`ctx` and `cancel` are fields that a stop reads without it, one after the other.
`preparing` to `updating` are the stretches between the places where the context
is looked at; any of them may fail or panic. In between lies the batch query,
which never looks at the context: a producer sends the queries device by device
into a bounded channel, the scan takes one after the other, waits for a permit
of its device and adds it to a pool. The pool is not modelled again: it is an
instance of `JobService`, the specification `WorkerPool` is shown to implement,
with a bound on the jobs it has accepted and not started, its channel. The
tables the queries fill, the devices found and the progress messages are
abstract.

## Runs

| run | instance | shows |
|---|---|---|
| `worker_pool` | 2 clients, 2 workers, 3 jobs, channel of 1, all methods | the wait group counts, Wait is a barrier, the refinement, no lost job and no stuck call unless the queue was given up, workers end |
| `device_operations` | 2 calls, 2 projects, deploy and topology mapping, timeouts, a user who sets Idle or deletes, once | exclusion, answers, stop answers, release |
| `core_jobs` | 3 threads, 2 projects, one monitor among them, gate requests Idle and Deploying | all safety properties, requests return |
| `core_jobs_hang` | 2 threads, 1 project, device configuration and monitor | `StartBesideMonitorReturns` is violated |
| `ws_hub` | 2 senders, 2 connections, 2 projects, 2 messages, channels of 1 | all safety properties |
| `ws_hub_live` | 2 senders, 1 connection, 3 messages, a channel of 1 | workers leave, calls return while clients read |
| `ws_hub_lock_order` | 1 sender, 1 connection, 1 message | `WriteGetsItsLock` is violated |
| `monitor` | 3 calls, 2 projects, 2 sessions, 1 fault, 1 edit, timeouts, a user who sets Idle or deletes, once | a monitor runs under its status, NM for its session, a running one has all it needs, a stopped one nothing, each frees only its own project |
| `monitor_live` | 2 calls, 1 project, 2 sessions, 2 faults, 2 edits | calls return, goroutines end, edited settings reach NM unless the reload of an earlier edit writes over them |
| `link_tracking` | 3 links on 4 ports, a baseline of one, 2 changes of links, 2 of devices, 1 fault | map and cogsworth in step, the project converges |
| `link_tracking_lost` | the same, 1 change of links, 3 of devices, no fault | `NewLinksAreCreated` is violated |
| `scan` | 2 scans, 1 stop, 2 devices with 2 queries each, channel and pool queue of 1, 2 workers, 1 permit per device | one scan at a time, a scan that a stop met passes no checkpoint, results are complete, scans end |

Why the bounds are enough to be interesting. With a channel of one slot, two
workers and three jobs a sender blocks while others wait for the mutex, jobs are
queued and running at once, and the pool closes over both. Two calls can meet in
one singleton, in two singletons, on one project and on two. Three threads are
needed for a start that joins a predecessor beside a thread of another project.
Two senders, two connections and two messages are what a reversed order needs;
three messages fill a channel of one slot and the writer's hands.
The bound `MaxStarts` limits the threads ever spawned, `Jobs` the submissions
(each job is submitted once), `Calls` the start requests, `Messages` the sends
(a message can be sent again only if no connection got it), `Conns` the
connections ever opened, `MaxSessions` the monitors ever begun, `MaxEdits` the
edits of settings, `MaxFaults` the requests that fail and the panics, `MaxLinkChanges` and
`MaxDeviceChanges` the changes of the network, `MaxOverrides` how often a user
takes a project out of a device status, and `Stops` the stop requests. Two
sessions are what a goroutine needs to meet the session after its own. Two edits
are what it takes to lose one: the second comes between the poll that found the
first and the write-back. Two faults are a reload that fails and a stop after it
that fails as well, or a panic and a failure of the reload that would make it good;
with one fault, in `monitor`, `leftBehind` comes about by a panic, or by a deletion,
which makes the reload and its stop fail without a fault. Four queries and a channel, a
pool queue and one permit per device make the producer, the consumer and the
workers wait for each other. What the bounds do not
cover for safety, the proofs do.

`CHECK_DEADLOCK FALSE` appears where the system may really stop: jobs abandoned
by CancelAndClose leave Wait blocked for ever; a start that joins the monitor,
or a second monitor, stops the server; the websocket hub deadlocks; and the
monitor and the scan have done all there is to do once the bounded calls are
used up.

### What the three violated properties show

* `StartBesideMonitorReturns` (`act_core.cpp:434`, "Only device config job can
  be run concurrently with the monitor job"): the check admits the job and joins
  the thread in the pool, which is the monitor and was not told to stop. The
  request holds `g_core.mutex_` for ever.
* `WriteGetsItsLock` (`ws_conn.go:54`, "connection %s is closed"): the hub takes
  `hub.mutex` and then `writeLock`, `Close` takes `writeLock` and then
  `hub.mutex`. When a client leaves while a message is sent to it both wait for
  ever, with the hub's mutex held: no other client gets anything any more.
* `NewLinksAreCreated` (`monitor_diff.go:1490`, "create new link if not exist in
  project and not rewired link"): a device outside the baseline goes away, and
  with it its links in cogsworth, but their entries stay in `m.currentLinkMap`.
  When the device is back the pass takes the link for present, for good.

Other behaviour the models contain and the properties name as provisos: a
refused start clears the stop flag and takes the connection of the operation
that runs (`disturbed`); a claim served after its caller gave up is never
released (`Abandoned`); a late release can free the project of a later monitor
(`restopped`); a reload that panics after it has stopped NM, or fails and cannot stop
the monitor, leaves it Running without NM until the next reload or start
(`leftBehind`); an edit of the settings made while a reload is under way can be
written over by it and never reach NM (`EditLost`); two monitor jobs of cogsworth
can be started and crash
it (`crashed`); a stop before the scanner's fields are those of the scan is lost; a
scan that was stopped during a discovery that finds nothing is reported as
completed all the same (`NothingFound`), which `StopReachesItsScan` names as the one
way for a stopped scan to complete; and a release whose connection fails is only
logged (`deployer_default.go:82`), which leaves the project claimed and which
`ProjectsBecomeIdle` excludes by the fairness on serving requests.

## Fairness

* `WorkerPool`: goroutines that can run do (`WF` on the steps inside a method
  and on workers), jobs end, and `sync.Mutex` serves every waiter (`SF` on
  `Lock`; its starvation mode hands the lock over in FIFO order). Clients need
  not call anything.
* `DeviceOperations`: goroutines run and cogsworth serves what reaches it (`WF`).
  Every wait inside an operation has a timeout. Users owe nothing.
* `CoreJobs`: the thread that serves a request and the job threads are
  scheduled (`WF`). A job other than the monitor ends: its calls to devices and
  engines time out. The monitor ends on its promise only, which needs no
  fairness of the users because only stops that were made are claimed to return.
* `WsHub`: goroutines that can run do (`WF`), `sync.Mutex` serves every waiter
  (`SF` on senders and handlers). Clients owe nothing: a stalled one keeps
  `WriteMessage` from succeeding for ever, and only a read on a socket whose
  client has gone must return. `SendsReturn` therefore excepts histories in
  which a client has stalled or left or a write worker has ended.

* `MonitorLifecycle`: goroutines run and cogsworth serves late requests (`WF`),
  jobs end. Strong fairness where a goroutine must meet a moment in which a lock
  is free: `sync.Mutex` serves every waiter, also that of the dispatcher, a call
  gives up after nine attempts in any case, and of a select whose branches are
  both ready each is taken at some time. Calls have one condition together, and so
  do the ends of goroutines: each takes finitely many steps, so none can starve
  while others go on for ever. One assumption goes beyond what Go
  promises: that the polls (every 5 s), which only try the lock, do not always
  meet an update of the topology (every 7 s).
* `LinkTracking`: `WF` on each of the two goroutines; the network owes nothing
  and changes finitely often.
* `Scanner`: one `WF` on all steps of goroutines and cogsworth. Each request
  takes finitely many of them, so none can starve while others go on, and stops
  and users are free to come or not. It assumes that a discovery of the device
  manager and a query end, for which the code has no timeout of its own.

## Proofs

The proofs hold for every value of the constants that satisfies the named
assumption of the module (`PoolAssumption`, `OperationsAssumption`,
`CoreAssumption`, `HubAssumption`, `MonitorAssumption`, `LinkAssumption`,
`ScannerAssumption`: non-zero capacities, finite sets of jobs, workers and links, a
baseline without conflicts, names that do not collide). `WorkersAssumption` (there is
a worker) is used by the theorems about who serves a call; `NewWorkerPoolWaitable`
panics on a `workerCount` below one (`worker_pool_waitable.go:18`).

**WorkerPool_proofs.** `IInv` strengthens the properties with: the mutex is held
exactly between Lock and Unlock (`MutexInv`); what a client carries through a
call (`CallInv`); channel and flag are closed together, never under a sender
(`ClosedInv`); and each outstanding job is in exactly one place, its sender's
hand, the channel, or one worker (`QueueInv`, `RunningInv`). The last is needed
for the wait group: `wg` goes down by one with a worker's job, and equals the
number of outstanding jobs only if no other worker holds the same one. Proved:
`TypeCorrect`, `WaitGroupCounts`, `SendsStayOpen`, `WaitBarrier` (an action
property, from `wg = 0` and `WaitGroupCountsOutstanding`), and `Implementation`:
every step is a step of `JobService` or stutters. `PlaceInv` says of outstanding
jobs that they are with a sender, in the channel or with a worker, none is lost
between them, and `ExitInv` that workers leave a closed and, unless it was given up,
empty queue only, between two jobs. Hence `AcceptedJobsAreServed`, and
`BlockedCallsAreServed`: a call that blocks with the mutex in its hands waits for a
worker that is still there and has something to do.

**DeviceOperations_proofs.** `MutualExclusion` speaks of goroutines that work,
and is not inductive: a claim that timed out may be granted later. `OwnerInv`
says instead that a call owns the gate from the grant of its claim until its
release is served, whatever its goroutine believes, that its project's status
then says so, and that no other call owns it. `WorkInv` ties work to ownership.
Proved: `TypeCorrect`, `GateIsExclusive` (two projects are never in device
statuses), `OperationsExclude`. `AnsweredInv` says of an undisturbed call, step by
step, that its connection is the singleton's, which answers it has given, and
that a stop that reached it is still flagged until it closes; from it
`EndsAreAnswered` and `StopsAreAnswered`. `RequestInv` says where a goroutine is,
given what became of its request, and `HeldInv` that a project in a device status is
owned by a call; from them `ClaimsAreHeld`: such a project has a call that has still
to release it or whose release is on its way, except a claim granted to a call that
had given up on it. It supposes that users do not set device statuses by hand
(`UsersClaimNothing`, which the instance satisfies); nobody would take those back.
`LeaseIsImplemented` is the refinement of `DeviceLease`: `holders` are the calls that own
the gate by `OwnerInv`, `atWork` those that work, `revoked` says that a user
intervened. A grant finds every holder's project in a device status, by `OwnerInv`,
and no project in one, by its guard: hence no holder.

**CoreJobs_proofs.** `ThreadInv`, `PoolInv` and `HandlerInv` say what an entry
of the pool and a request in progress guarantee: an entry is an unjoined thread
of that project, a deleted project has none, a request that joins has something
to join. `StatusInv` sharpens `StatusHasAJob` to the part of a job in which the
status is set: the property alone is not kept when the thread ends. Proved:
`TypeCorrect`, `HandlesAreJoined`, `DeletionIsClean`, `NoOrphanedStatus`. `JoinsReturn`
is about the request that joins a thread with `g_core.mutex_` in its hands: the
thread has ended or can go on without another request, unless a start joins a
monitor, which is what `core_jobs_hang` shows. `SignalInv` (who is joined by anything
but a start was told to stop) and `EngineInv` (only a monitor waits for its engine)
are what it needs.

**WsHub_proofs.** `HubInv`: the hub's mutex is held exactly in a loop. `CallInv`
and `SendInv`: a sender in `writeChan <- msg` holds the write lock and found the
connection open. `CloseInv`: the handler holds the write lock from
`isClosed = true` to `close(writeChan)`. Proved: `TypeCorrect`, `SendsAreSafe`,
`MapsAreExact`. `HubBlocksOnlySo` counts the ways in which the hub can stand still for
good: its holder takes a step or is served by a write worker, but for the two locks
taken in opposite orders (`LocksAreInverted`, what `ws_hub_lock_order` shows) and a
channel that nobody empties (`NobodyReads`: the client stalled or left, or the worker
ended). There is no third. `LockInv` says who holds a write lock, `TodoInv` that a
sender's connections stay registered while it is in the hub, `WorkerInv` that the
workers of a connection are there from registration until its handler closes it.

**WsHubOrder_proofs.** `SameOrder` is not inductive: it does not know which
message comes next. `LatestInv` says that the message of the sender in the hub
is the last one of each stream that has it and absent where it is still to go;
`FreshInv` that the message of a sender that waits for the mutex is in no
stream. Appending to one stream keeps the order (`AppendKeepsOrder`); a worker
moves messages along its stream or drops one (`DropThins`), and a stream that
only loses messages keeps the order (`ThinningKeeps`). Proved:
`MulticastsAreOrdered`. With the two connections and the two messages the same it says
that no client gets a message twice.

**MonitorLifecycle_proofs.** `LockInv` says who holds the two mutexes in which
phase, and that the poller whose reload holds `internalMutex` is the one recorded.
`StateInv` ties the state map to the phase: `Starting`, `Reloading` and `Stopping`
are those of the holder's project only, and at most one project is active.
`SessionInv` follows the contexts: every session but the latest is cancelled, the
latest is live only while its project is active; hence a poller that finds its
context live under the mutex is that of the latest session. `PartsInv` says when
NM, subscription, settings and pool are there, `NmInv` when NM may be missing (inside
a reload, or after one that panicked or whose stop failed). `StatusInv` sharpens
`MonitorUnderStatus` with what a late release finds: a project still in Monitoring
that nobody monitors, so that no claim of it can be granted before the release is served. Proved:
`MonitorTypes`, `MonitorsAreUnderStatus`, `NmRunsForItsSession`,
`RunningIsBackedByNm`, `StoppedLeavesNothing`, and the action property
`ReleasesAreItsOwn`, for which only a failing start and the return of a stop leave
the two phases it speaks of. `HolderInv` is the other direction of `LockInv`: a mutex
that is taken has a goroutine in its section. `LocksAreHeld` says so of both mutexes:
no return of `Start`, `Stop`, a reload or an update of the topology leaves one taken.

**LinkTracking_proofs.** `InStep` alone is not inductive: it does not know that
the goroutine that holds a link is about to record what cogsworth did. `Shape`
says what the callback and the updater carry from step to step, `Truth` that the
outcome a holder will record is that of cogsworth. That a request of the other
goroutine fails on an object that is no longer there needs new objects to be
new: more identities exist than can be in use (`NewId`, by cardinality). Proved:
`TypeCorrect`, `StaysInStep`.

**Scanner_proofs.** `OwnerInv` is that of the device operations. `FieldInv` ties
`mutex`, `ctx` and `cancel` to where the scan at work is. `StopInv` follows a stop
from read to read: a call whose function it has read is past the place where the
fields are written (`Past`), so a scan still to come cannot be cancelled, and if
the scan it met is still at work then both fields it has read are that scan's. For
the batch, `SentInv` says that each query sent is in the channel, in the consumer's
hand or with the pool, and `SemInv` that the permits taken of a device are, by
cardinality, those of its queries in the pool and the one in the consumer's hand;
`ResultIsComplete` is what is left of both when channel and hand are empty and the
pool has finished. Proved: `ScannerTypes`, `ScansAreExclusive`, the action property
`StopsReachTheirScan` (only the end of an empty discovery completes a scan whose
context is cancelled), `ResultsAreComplete`, and `ConsumerIsNotStuck`: a consumer
waits for a permit only while a query of that device is with the pool. `PlaceInv` adds
that a query is in one place only, that producer and pool are there while the consumer
needs them, and that the producer is in the middle of one device at most; then
`BatchIsNotStuck`: producer, channel, consumer, semaphores and pool never all wait for
each other, whatever their sizes. `LeaseIsImplemented` is the refinement of `DeviceLease`
again, with the scans that own the gate as its holders.

**Only model-checked:** everything under fairness, which is out of the prover's
reach. Every safety property of a passing run is proved, and of some liveness
properties the safety half: that who waits, waits for somebody who can go on. The
theorem alone does not say that he does, which the run shows.

| liveness, model-checked | its safety half, proved |
|---|---|
| `AcceptedJobsFinish`, `CallsReturn` (worker pool) | `AcceptedJobsAreServed`, `BlockedCallsAreServed` |
| `WorkersLeaveAfterClose` (worker pool) | none |
| `ProjectsBecomeIdle` (device operations) | `ClaimsAreHeld` |
| `RequestsReturn` (core jobs) | `JoinsReturn` |
| `SendsReturn` (websocket hub) | `HubBlocksOnlySo` |
| `WorkersLeave` (websocket hub) | none |
| `CallsReturn` (monitor) | `LocksAreHeld`, for the two mutexes; not for the wait for the dispatcher |
| `GoroutinesEnd`, `SettingsConverge` (monitor) | none |
| `Converges` (link tracking) | none |
| `ScansEnd` (scan) | `ConsumerIsNotStuck`, `BatchIsNotStuck` |

`ImplementsDeviceLease` is proved and in no run.

## What is left out of the modelled parts

* Projects are never created: all exist at the start, and a deleted id does not
  come back (cogsworth does not reuse ids while it runs).
* Statuses written by job threads are atomic in `CoreJobs`; in the code they are
  unsynchronised writes to a map.
* `DeviceOperations` and `CoreJobs` share the gate but are not composed: gate
  requests appear in `CoreJobs` as arbitrary ones, job threads do not appear in
  `DeviceOperations`. A websocket job or stop on a project that sebastian has
  claimed overwrites the claim; exclusion is shown without such jobs.
* `Multicast` to a list of connection ids, which nothing calls, and what the
  handlers of received messages do (`onMessage`) are not in `WsHub`.
* `DestroyWSJob` and `DestroyWSJobMonitor` are called by nothing.
* `MonitorLifecycle` leaves out one-time tasks (`RegisterTask` with its channel,
  `TriggerTask`; nothing registers one), what the tasks query, the updates of device
  information and configuration, and two panics: that of the client of NM after its
  `StartMonitor` took effect for a start, and that of a stop, which the
  monitor does not recover. `LinkTracking` is one session of it: a round of an old
  session that writes the maps of the next is not shown.
* `LinkTracking` leaves out the hot reload, which resets the operation project to the
  baseline and fills `m.currentLinkMap` anew within the session (`monitor.go:801`),
  the address book of device mappings, the speed of
  links and the local host.
* `Scanner` leaves out what is found and queried, and the deletion of the old
  topology, whose failure is one of the failures of its stretch.

## Plan

1. `CoreJobs` with the probe system job; `DeviceOperations` composed with
   `CoreJobs` over one gate; `LinkTracking` over two sessions.
2. `MultiIndexCache`, `DeviceIdMapper`, `Transaction`: data structures against
   reference definitions.
3. An abstract totally ordered multicast that `WsHub` implements, which needs a
   history of the multicasts; the monitor as a client of `DeviceLease`, whose claim
   is granted and whose work begins in one step of `MonitorLifecycle`.
4. Safety halves of `WorkersLeave` and `GoroutinesEnd`: what a goroutine that has
   not ended waits for.
