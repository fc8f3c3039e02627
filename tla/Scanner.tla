------------------------------- MODULE Scanner -------------------------------
(***************************************************************************)
(* Topology scans: the websocket handlers that start and stop one          *)
(* (wsv2/scan.go), the Scanner singleton (modules/scan), whose fields ctx  *)
(* and cancel a stop reads without the mutex, and the batch of queries     *)
(* that ends a scan: a producer, a bounded channel, a consumer that limits *)
(* the jobs of each device by a semaphore, and a worker pool, here the     *)
(* abstract JobService that WorkerPool implements.                         *)
(*                                                                         *)
(* A scan never stops inside its batch; it looks at its context at         *)
(* checkpoints, and a phase below is what lies between two of them.        *)
(***************************************************************************)
EXTENDS ProjectStatus, Naturals, FiniteSets, Sequences

CONSTANTS
  Calls,         \* start requests
  Stops,         \* stop requests
  Devices,       \* devices the device manager may find
  PerDevice,     \* queries of a device (19 in the code)
  ChanSize,      \* capacity of jobChan
  PoolQueue,     \* jobs the pool holds before AddJob blocks
  Total,         \* MaxConcurrencyTotalQuery
  MaxPerDevice,  \* MaxConcurrencyPerDeviceQuery
  HttpTimeouts,  \* whether a status request may time out and be served later
  UserStatuses,  \* what users set a status to; "absent" is deleting the project
  MaxOverrides,  \* bound on the times a user takes a project out of a device status
  None

ASSUME ScannerAssumption ==
  /\ {PerDevice, ChanSize, PoolQueue, Total, MaxPerDevice} \subseteq Nat \ {0}
  /\ HttpTimeouts \in BOOLEAN /\ MaxOverrides \in Nat
  /\ UserStatuses \subseteq AllStatuses \cup {"absent"}
  /\ None \notin Calls /\ None \notin Stops /\ None \notin Projects

Queries == Devices \X (1 .. PerDevice)

VARIABLES
  pc,        \* of each call; see TypeOK
  project,   \* its project
  request,   \* its HTTP request: none, claim, granted, refused, release, released
  verdict,   \* what StartScanTopology returned, until the client is told
  mutex,     \* scanner.mutex: the call that holds it
  ctx,       \* scanner.ctx: the call it was made for, None for the initial one
  cancel,    \* scanner.cancel, likewise
  cancelled, \* calls whose context is cancelled
  stop,      \* of each stop request: where it is and the fields it has read
  mapped,    \* the devices created for which the device manager has an id
  produced,  \* queries produced for each device
  producer,  \* produceQueryJobs: off, on, closed
  queue,     \* jobChan
  taken,     \* the query received last
  sem,       \* permits of each device that are taken
  closed, accepted, started, finished, \* the worker pool
  stopped,    \* history: scans at work that a stop met from its begin to its end
  asked,      \* history: scans during which a stop called the cancel function it read
  overrides   \* history: how often a user took a project out of a device status

callVars == <<pc, project, request, verdict>>
fieldVars == <<mutex, ctx, cancel, cancelled>>
poolVars == <<closed, accepted, started, finished>>
batchVars == <<mapped, produced, producer, queue, taken, sem, poolVars>>
histVars == <<stopped, asked, overrides>>
vars == <<status, callVars, fieldVars, stop, batchVars, histVars>>

\* The pool of the batch under way.
Pool == INSTANCE JobService WITH Jobs <- Queries, Parallelism <- Total

NoStop == [at |-> "ready", ctx |-> None, cancel |-> None, met |-> None]

\* NewScanner
Init ==
  /\ InitStatus
  /\ pc = [c \in Calls |-> "ready"]
  /\ project = [c \in Calls |-> None]
  /\ request = [c \in Calls |-> "none"]
  /\ verdict = [c \in Calls |-> "none"]
  /\ mutex = None /\ ctx = None /\ cancel = None /\ cancelled = {}
  /\ stop = [s \in Stops |-> NoStop]
  /\ mapped = {} /\ produced = [d \in Devices |-> 0] /\ producer = "off"
  /\ queue = <<>> /\ taken = None /\ sem = [d \in Devices |-> 0]
  /\ Pool!Init
  /\ stopped = {} /\ asked = {} /\ overrides = 0

-----------------------------------------------------------------------------
(***************************************************************************)
(* The handler of a start request, and the gate.                           *)
(***************************************************************************)

Goto(c, label) == pc' = [pc EXCEPT ![c] = label]

Handler(c, from, to) ==
  /\ pc[c] = from
  /\ Goto(c, to)
  /\ UNCHANGED <<fieldVars, stop, batchVars, overrides>>

SendClaim(c, p) ==
  /\ Handler(c, "ready", "claiming")
  /\ project' = [project EXCEPT ![c] = p]
  /\ request' = [request EXCEPT ![c] = "claim"]
  /\ UNCHANGED <<status, verdict, stopped, asked>>

\* cogsworth serves the claim, or the release.
Serve(c) ==
  /\ \/ /\ request[c] = "claim"
        /\ UpdateProjectStatus(project[c], "Scanning")
        /\ request' = [request EXCEPT ![c] =
                         IF Accepts(project[c], "Scanning") THEN "granted" ELSE "refused"]
     \/ /\ request[c] = "release"
        /\ UpdateProjectStatus(project[c], "Idle")
        /\ request' = [request EXCEPT ![c] = "released"]
  /\ UNCHANGED <<pc, project, verdict, fieldVars, stop, batchVars, histVars>>

ClaimGranted(c) ==
  /\ Handler(c, "claiming", "entering")
  /\ request[c] = "granted"
  /\ UNCHANGED <<status, project, request, verdict, stopped, asked>>

\* FAULT: a refused start goes on.
ClaimIgnored(c) ==
  /\ Handler(c, "claiming", "entering")
  /\ request[c] = "refused"
  /\ UNCHANGED <<status, project, request, verdict, stopped, asked>>

\* Refused, or timed out and perhaps served later.
ClaimFails(c) ==
  /\ Handler(c, "claiming", "done")
  /\ request[c] = "refused" \/ HttpTimeouts
  /\ UNCHANGED <<status, project, request, verdict, stopped, asked>>

\* StartScanTopology has returned: the project is released.
SendRelease(c) ==
  /\ Handler(c, "returned", "releasing")
  /\ request' = [request EXCEPT ![c] = "release"]
  /\ UNCHANGED <<status, project, verdict, stopped, asked>>

\* The release was served, or timed out, which is only logged: the client is
\* told the verdict, and the goroutine ends.
Answer(c) ==
  /\ Handler(c, "releasing", "done")
  /\ request[c] = "released" \/ HttpTimeouts
  /\ verdict' = [verdict EXCEPT ![c] = "none"]
  /\ stopped' = stopped \ {c} /\ asked' = asked \ {c}
  /\ UNCHANGED <<status, project, request>>

-----------------------------------------------------------------------------
(***************************************************************************)
(* Scanner.StartScanTopology up to the batch.                              *)
(***************************************************************************)

Scan(c, from, to) ==
  /\ pc[c] = from
  /\ Goto(c, to)
  /\ UNCHANGED <<status, project, request, stop, histVars>>

TryLock(c) ==
  /\ Scan(c, "entering", "opening")
  /\ mutex = None
  /\ mutex' = c
  /\ UNCHANGED <<verdict, ctx, cancel, cancelled, batchVars>>

Busy(c) ==
  /\ Scan(c, "entering", "returned")
  /\ mutex # None
  /\ verdict' = [verdict EXCEPT ![c] = "busy"]
  /\ UNCHANGED <<fieldVars, batchVars>>

\* FAULT: the context of the scan before is taken again.
KeepContext(c) ==
  /\ Scan(c, "opening", "arming")
  /\ ctx' = IF ctx = None THEN c ELSE ctx
  /\ cancelled' = IF ctx \in cancelled THEN cancelled \cup {c} ELSE cancelled
  /\ UNCHANGED <<verdict, mutex, cancel, batchVars>>

\* scanner.ctx, scanner.cancel = ctx, cancel: each is written whole, the two
\* one after the other.
OpenContext(c) ==
  /\ Scan(c, "opening", "arming")
  /\ ctx' = c
  /\ UNCHANGED <<verdict, mutex, cancel, cancelled, batchVars>>

Arm(c) ==
  /\ Scan(c, "arming", "preparing")
  /\ cancel' = c
  /\ UNCHANGED <<verdict, mutex, ctx, cancelled, batchVars>>

\* A job runner and its worker pool as they are made, or when there is none.
NewBatch(ds, state) ==
  /\ mapped' = ds /\ produced' = [d \in Devices |-> 0] /\ producer' = state
  /\ queue' = <<>> /\ taken' = None /\ sem' = [d \in Devices |-> 0]
  /\ closed' = FALSE /\ accepted' = {} /\ started' = {} /\ finished' = {}

\* The deferred functions: the verdict is set and the mutex is freed; the job
\* runner and its pool, which are local, go.
Return(c, from, v) ==
  /\ Scan(c, from, "returned")
  /\ verdict' = [verdict EXCEPT ![c] = v]
  /\ mutex' = None
  /\ NewBatch({}, "off")
  /\ UNCHANGED <<ctx, cancel, cancelled>>

Phases == {"preparing", "discovering", "creating", "updating"}

\* A request to cogsworth or to the device manager fails.
Fail(c) == \E ph \in Phases \cup {"querying"} : Return(c, ph, "failed")

\* A panic is recovered with the status unknown and no error, so the handler
\* takes an empty result for a success.
Panic(c) == \E ph \in Phases : Return(c, ph, "unknown")

\* A checkpoint sees the context cancelled.
SeeCancel(c) ==
  /\ c \in cancelled
  /\ \E ph \in Phases : Return(c, ph, "cancelled")

Pass(c, from, to) ==
  /\ Scan(c, from, to)
  /\ c \notin cancelled
  /\ UNCHANGED <<verdict, fieldVars>>

\* Scan ranges, old devices, old links and the old mapping.
Prepared(c) ==
  /\ Pass(c, "preparing", "discovering")
  /\ status[project[c]] # "absent"
  /\ UNCHANGED batchVars

\* Device discovery found nothing: completed, without a look at the context.
NothingFound(c) == Return(c, "discovering", "completed")

Discovered(c) ==
  /\ Pass(c, "discovering", "creating")
  /\ UNCHANGED batchVars

\* The devices found are created and mapped, then their links.  A device that
\* cannot be created is left out.
Created(c) ==
  /\ Pass(c, "creating", "querying")
  /\ \E ds \in SUBSET Devices :
       /\ status[project[c]] = "absent" => ds = {}
       /\ mapped' = ds
  /\ UNCHANGED <<produced, producer, queue, taken, sem, poolVars>>

-----------------------------------------------------------------------------
(***************************************************************************)
(* BatchQuery, which never looks at the context.                           *)
(***************************************************************************)

Batch(c, from, to) ==
  /\ Scan(c, from, to)
  /\ UNCHANGED <<verdict, fieldVars>>

NoBatch(c) ==
  /\ Batch(c, "querying", "updating")
  /\ mapped = {}
  /\ UNCHANGED <<mapped, produced, producer, queue, taken, sem, poolVars>>

BeginBatch(c) ==
  /\ Batch(c, "querying", "receiving")
  /\ mapped # {}
  /\ NewBatch(mapped, "on")

\* The producer sends the queries device by device.
Produce(d) ==
  /\ producer = "on"
  /\ d \in mapped /\ produced[d] < PerDevice
  /\ \A e \in mapped \ {d} : produced[e] \in {0, PerDevice}
  /\ Len(queue) < ChanSize
  /\ produced' = [produced EXCEPT ![d] = @ + 1]
  /\ queue' = Append(queue, <<d, produced[d] + 1>>)
  /\ UNCHANGED <<status, callVars, fieldVars, stop, mapped, producer, taken, sem,
                 poolVars, histVars>>

CloseChannel ==
  /\ producer = "on"
  /\ \A d \in mapped : produced[d] = PerDevice
  /\ producer' = "closed"
  /\ UNCHANGED <<status, callVars, fieldVars, stop, mapped, produced, queue, taken, sem,
                 poolVars, histVars>>

Receive(c) ==
  /\ Batch(c, "receiving", "acquiring")
  /\ queue # <<>>
  /\ taken' = Head(queue)
  /\ queue' = Tail(queue)
  /\ UNCHANGED <<mapped, produced, producer, sem, poolVars>>

\* FAULT: the semaphore is not waited for.
AcquireUnbounded(c) ==
  /\ Batch(c, "acquiring", "adding")
  /\ sem' = [sem EXCEPT ![taken[1]] = @ + 1]
  /\ UNCHANGED <<mapped, produced, producer, queue, taken, poolVars>>

Acquire(c) ==
  /\ Batch(c, "acquiring", "adding")
  /\ sem[taken[1]] < MaxPerDevice
  /\ sem' = [sem EXCEPT ![taken[1]] = @ + 1]
  /\ UNCHANGED <<mapped, produced, producer, queue, taken, poolVars>>

AddJob(c) ==
  /\ Batch(c, "adding", "receiving")
  /\ Cardinality(accepted \ started) < PoolQueue
  /\ Pool!Accept(taken)
  /\ taken' = None
  /\ UNCHANGED <<mapped, produced, producer, queue, sem>>

JobStarts(q) ==
  /\ Pool!Start(q)
  /\ UNCHANGED <<status, callVars, fieldVars, stop, mapped, produced, producer, queue,
                 taken, sem, histVars>>

\* FAULT: a query that fails keeps its permit.
JobEndsHolding(q) ==
  /\ Pool!Finish(q)
  /\ sem' = sem \/ sem' = [sem EXCEPT ![q[1]] = @ - 1]
  /\ UNCHANGED <<status, callVars, fieldVars, stop, mapped, produced, producer, queue,
                 taken, histVars>>

\* A query ends, also by an error or a panic, and releases its permit.
JobEnds(q) ==
  /\ Pool!Finish(q)
  /\ sem' = [sem EXCEPT ![q[1]] = @ - 1]
  /\ UNCHANGED <<status, callVars, fieldVars, stop, mapped, produced, producer, queue,
                 taken, histVars>>

\* FAULT: the loop ends when it finds the channel empty.
DrainedWhenEmpty(c) ==
  /\ Batch(c, "receiving", "waiting")
  /\ queue = <<>>
  /\ UNCHANGED <<mapped, produced, producer, queue, taken, sem, poolVars>>

\* The channel is empty and closed.
Drained(c) ==
  /\ Batch(c, "receiving", "waiting")
  /\ queue = <<>> /\ producer = "closed"
  /\ UNCHANGED <<mapped, produced, producer, queue, taken, sem, poolVars>>

\* WaitAndClose; the tables are read and written to the project, whose
\* failure is only logged.
WaitAndClose(c) ==
  /\ Batch(c, "waiting", "updating")
  /\ accepted = finished
  /\ Pool!Shut
  /\ UNCHANGED <<mapped, produced, producer, queue, taken, sem>>

\* The last checkpoint.
Complete(c) ==
  /\ c \notin cancelled
  /\ Return(c, "updating", "completed")

-----------------------------------------------------------------------------
(***************************************************************************)
(* Stop requests, users and other operations.                              *)
(***************************************************************************)

\* The scan at work, once both fields are its own.
StoppableScan ==
  IF mutex # None /\ pc[mutex] \notin {"opening", "arming"} THEN mutex ELSE None

StopAt(s, from, new) ==
  /\ stop[s].at = from
  /\ stop' = [stop EXCEPT ![s] = new]
  /\ UNCHANGED <<status, callVars, mutex, ctx, cancel, batchVars, overrides>>

\* Scanner.StopScanTopology reads the context ...
ReadContext(s) ==
  /\ StopAt(s, "ready", [at |-> "reading", ctx |-> ctx, cancel |-> None,
                         met |-> StoppableScan])
  /\ UNCHANGED <<cancelled, stopped, asked>>

\* ... then the cancel function ...
ReadCancel(s) ==
  /\ StopAt(s, "reading", [stop[s] EXCEPT !.at = "read", !.cancel = cancel])
  /\ UNCHANGED <<cancelled, stopped, asked>>

\* ... and calls it, unless the context it read is cancelled.
CallCancel(s) ==
  /\ StopAt(s, "read", [NoStop EXCEPT !.at = "done"])
  /\ IF stop[s].ctx \in cancelled
       THEN UNCHANGED <<cancelled, asked>>
       ELSE /\ cancelled' = cancelled \cup ({stop[s].cancel} \ {None})
            /\ asked' = asked \cup ({mutex} \ {None})
  /\ stopped' = IF stop[s].met # None /\ stop[s].met = mutex
                  THEN stopped \cup {mutex} ELSE stopped

StatusUpdate == UNCHANGED <<callVars, fieldVars, stop, batchVars, stopped, asked>>

\* Another operation claims and releases a project; see DeviceOperations.
OtherClaims(p) ==
  /\ Accepts(p, "Deploying")
  /\ UpdateProjectStatus(p, "Deploying")
  /\ StatusUpdate
  /\ UNCHANGED overrides

OtherReleases(p) ==
  /\ status[p] = "Deploying"
  /\ UpdateProjectStatus(p, "Idle")
  /\ StatusUpdate
  /\ UNCHANGED overrides

Override(p) ==
  overrides' = overrides + IF status[p] \in DeviceStatuses /\ status'[p] # status[p]
                             THEN 1 ELSE 0

UserUpdatesStatus(p, s) ==
  /\ overrides < MaxOverrides
  /\ s \in UserStatuses \ {"absent"}
  /\ UpdateProjectStatus(p, s)
  /\ Override(p)
  /\ StatusUpdate

DeleteProject(p) ==
  /\ overrides < MaxOverrides
  /\ "absent" \in UserStatuses
  /\ status[p] # "absent"
  /\ status' = [status EXCEPT ![p] = "absent"]
  /\ Override(p)
  /\ StatusUpdate

-----------------------------------------------------------------------------

HandlerStep(c) == ClaimGranted(c) \/ ClaimFails(c) \/ SendRelease(c) \/ Answer(c)

ScanStep(c) ==
  \/ TryLock(c) \/ Busy(c) \/ OpenContext(c) \/ Arm(c)
  \/ Fail(c) \/ Panic(c) \/ SeeCancel(c)
  \/ Prepared(c) \/ NothingFound(c) \/ Discovered(c) \/ Created(c)
  \/ NoBatch(c) \/ BeginBatch(c) \/ Receive(c) \/ Acquire(c) \/ AddJob(c)
  \/ Drained(c) \/ WaitAndClose(c) \/ Complete(c)

ProducerStep == (\E d \in Devices : Produce(d)) \/ CloseChannel
JobStep(q) == JobStarts(q) \/ JobEnds(q)
StopStep(s) == ReadContext(s) \/ ReadCancel(s) \/ CallCancel(s)

\* What goroutines and cogsworth do, once a start request is there.
SystemStep ==
  \/ \E c \in Calls : HandlerStep(c) \/ ScanStep(c) \/ Serve(c)
  \/ ProducerStep
  \/ \E q \in Queries : JobStep(q)

Next ==
  \/ SystemStep
  \/ \E c \in Calls, p \in Projects : SendClaim(c, p)
  \/ \E s \in Stops : StopStep(s)
  \/ \E p \in Projects : \/ OtherClaims(p) \/ OtherReleases(p) \/ DeleteProject(p)
                         \/ \E s \in AllStatuses : UserUpdatesStatus(p, s)

Spec == Init /\ [][Next]_vars

\* Goroutines that can run do, cogsworth serves what reaches it, the device
\* manager ends its discoveries and the queries end; users owe nothing.  Each
\* request takes finitely many steps, so none starves while others go on.
Fairness == WF_vars(SystemStep)

FairSpec == Spec /\ Fairness

-----------------------------------------------------------------------------
(***************************************************************************)
(* Properties.                                                             *)
(***************************************************************************)

Verdicts == {"none", "busy", "failed", "unknown", "cancelled", "completed"}

\* Type invariant: in particular no semaphore holds more permits than it has,
\* or fewer than none.
TypeOK ==
  /\ StatusTypeOK
  /\ pc \in [Calls -> {"ready", "claiming", "entering", "opening", "arming", "querying",
                       "receiving", "acquiring", "adding", "waiting", "returned",
                       "releasing", "done"} \cup Phases]
  /\ project \in [Calls -> Projects \cup {None}]
  /\ request \in [Calls -> {"none", "claim", "granted", "refused", "release", "released"}]
  /\ verdict \in [Calls -> Verdicts]
  /\ mutex \in Calls \cup {None}
  /\ ctx \in Calls \cup {None}
  /\ cancel \in Calls \cup {None}
  /\ cancelled \subseteq Calls
  /\ stop \in [Stops -> [at : {"ready", "reading", "read", "done"}, ctx : Calls \cup {None},
                         cancel : Calls \cup {None}, met : Calls \cup {None}]]
  /\ mapped \subseteq Devices
  /\ produced \in [Devices -> 0 .. PerDevice]
  /\ producer \in {"off", "on", "closed"}
  /\ queue \in Seq(Queries)
  /\ taken \in Queries \cup {None}
  /\ sem \in [Devices -> 0 .. MaxPerDevice]
  /\ closed \in BOOLEAN
  /\ accepted \subseteq Queries /\ started \subseteq Queries /\ finished \subseteq Queries
  /\ stopped \subseteq Calls /\ asked \subseteq Calls /\ overrides \in 0 .. MaxOverrides

AtWork(c) == pc[c] \notin {"ready", "claiming", "releasing", "done"}

\* Whatever claims and releases time out or come late: unless a user takes the
\* status away, a scan at work has the gate to itself, so that no other scan
\* or operation works and scanner.mutex is never found taken.
ScanIsExclusive ==
  overrides = 0 =>
    \A c \in Calls : AtWork(c) =>
      /\ status[project[c]] = "Scanning"
      /\ verdict[c] # "busy"
      /\ \A d \in Calls : AtWork(d) => d = c

\* After a stop that began when both fields were a scan's own and ended while it
\* was at work, the scan passes no checkpoint: from where it looks at its context
\* it only returns, completed at most when its discovery finds nothing, which
\* is decided before the look.  And no scan is cancelled but by a stop that was
\* under way while it was, so one meant for an earlier scan reaches no later one.
StopReachesItsScan ==
  [][\A c \in Calls :
       /\ c \in stopped /\ pc[c] \in Phases /\ pc'[c] # pc[c] =>
            /\ pc'[c] = "returned"
            /\ verdict'[c] = "completed" => pc[c] = "discovering"
       /\ verdict'[c] = "cancelled" => c \in asked]_vars

\* The tables of a batch are read when every query of every device has ended,
\* with all permits returned and nothing left in the channel: no job still
\* writes to what the scan reads.
ResultIsComplete ==
  \A c \in Calls : pc[c] = "updating" /\ mapped # {} =>
    /\ finished = mapped \X (1 .. PerDevice)
    /\ queue = <<>> /\ producer = "closed"
    /\ \A d \in Devices : sem[d] = 0

\* A scan that has its project ends and tells its client, also when the batch
\* is larger than channel, pool and semaphores.
ScansEnd == \A c \in Calls : pc[c] = "entering" ~> pc[c] = "done"

=============================================================================
