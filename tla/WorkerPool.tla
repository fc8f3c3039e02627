------------------------------ MODULE WorkerPool ------------------------------
(***************************************************************************)
(* The waitable worker pool of sebastian/common/workerpool: a bounded job  *)
(* channel, a fixed set of worker goroutines, a wait group that counts     *)
(* accepted jobs, and a mutex that every call of the pool holds from its   *)
(* first to its last line - also while AddJob blocks on a full channel     *)
(* and while Wait and WaitAndClose wait for the wait group.                *)
(*                                                                         *)
(* A client is a goroutine that uses the pool.  A job is one submission;   *)
(* what it computes is abstracted to "it runs and ends" (a panic in it is  *)
(* recovered by the worker and ends it like a return).                     *)
(***************************************************************************)
EXTENDS Naturals, Sequences, FiniteSets

CONSTANTS
  Clients,    \* goroutines that call the pool
  Workers,    \* the worker goroutines NewWorkerPoolWaitable starts
  Jobs,       \* submissions; each is submitted at most once (a bound)
  Capacity,   \* jobQueueSize, the capacity of the job channel
  Ops,        \* the pool's methods these clients use
  None        \* no client / no job

AllOps == {"AddJob", "Close", "CancelAndClose", "Wait", "WaitAndClose"}

ASSUME PoolAssumption ==
  /\ Capacity \in Nat \ {0}
  /\ IsFiniteSet(Jobs)
  /\ IsFiniteSet(Workers)
  /\ Ops \subseteq AllOps
  /\ None \notin Jobs
  /\ None \notin Clients

\* NewWorkerPoolWaitable panics on a worker count of zero.
ASSUME WorkersAssumption == Workers # {}

VARIABLES
  mutex,      \* the client that holds pool.mutex, or None
  pc,         \* where each client is: idle, locking, inside, sending, waiting
  op,         \* the method each client is in, or "none"
  job,        \* the job an AddJob submits, or None
  isClosed,   \* pool.isClosed
  chanClosed, \* close(pool.jobs) has happened
  cancelled,  \* pool.ctx is done
  wg,         \* counter of the wait group
  queue,      \* content of the job channel
  running,    \* the job each worker executes, or None
  exited,     \* workers whose Start has returned
  accepted,   \* history: jobs whose AddJob passed the closed check
  finished    \* history: jobs whose function has ended

poolVars == <<isClosed, chanClosed, cancelled>>
history  == <<accepted, finished>>
vars == <<mutex, pc, op, job, isClosed, chanClosed, cancelled, wg, queue,
          running, exited, accepted, finished>>

Init ==
  /\ mutex = None
  /\ pc = [c \in Clients |-> "idle"]
  /\ op = [c \in Clients |-> "none"]
  /\ job = [c \in Clients |-> None]
  /\ isClosed = FALSE
  /\ chanClosed = FALSE
  /\ cancelled = FALSE
  /\ wg = 0
  /\ queue = <<>>
  /\ running = [w \in Workers |-> None]
  /\ exited = {}
  /\ accepted = {}
  /\ finished = {}

-----------------------------------------------------------------------------
(***************************************************************************)
(* Clients.                                                                *)
(***************************************************************************)

Submitted == {job[c] : c \in Clients} \cup accepted

\* A client enters a method of the pool and blocks on pool.mutex.
Call(c) ==
  /\ pc[c] = "idle"
  /\ \E method \in Ops :
       /\ op' = [op EXCEPT ![c] = method]
       /\ \/ /\ method = "AddJob"
             /\ \E j \in Jobs \ Submitted : job' = [job EXCEPT ![c] = j]
          \/ method # "AddJob" /\ UNCHANGED job
  /\ pc' = [pc EXCEPT ![c] = "locking"]
  /\ UNCHANGED <<mutex, wg, queue, running, exited>>
  /\ UNCHANGED poolVars
  /\ UNCHANGED history

\* pool.mutex.Lock()
Lock(c) ==
  /\ pc[c] = "locking"
  /\ mutex = None
  /\ mutex' = c
  /\ pc' = [pc EXCEPT ![c] = "inside"]
  /\ UNCHANGED <<op, job, wg, queue, running, exited>>
  /\ UNCHANGED poolVars
  /\ UNCHANGED history

Inside(c, method) == pc[c] = "inside" /\ op[c] = method

\* The deferred pool.mutex.Unlock() and the return of the method.
Return(c) ==
  /\ mutex' = None
  /\ pc' = [pc EXCEPT ![c] = "idle"]
  /\ op' = [op EXCEPT ![c] = "none"]
  /\ job' = [job EXCEPT ![c] = None]

\* FAULT: wg.Add(1) placed before the closed check and never undone.
ReturnAlreadyClosedCounted(c) ==
  /\ pc[c] = "inside"
  /\ op[c] \in {"AddJob", "Close", "CancelAndClose", "WaitAndClose"}
  /\ isClosed
  /\ Return(c)
  /\ cancelled' = (cancelled \/ op[c] = "CancelAndClose")
  /\ wg' = IF op[c] = "AddJob" THEN wg + 1 ELSE wg
  /\ UNCHANGED <<isClosed, chanClosed, queue, running, exited>>
  /\ UNCHANGED history

\* The closed check every method but Wait starts with: ErrAlreadyClosed.
ReturnAlreadyClosed(c) ==
  /\ pc[c] = "inside"
  /\ op[c] \in {"AddJob", "Close", "CancelAndClose", "WaitAndClose"}
  /\ isClosed
  /\ Return(c)
  /\ cancelled' = (cancelled \/ op[c] = "CancelAndClose")
  /\ UNCHANGED <<isClosed, chanClosed, wg, queue, running, exited>>
  /\ UNCHANGED history

\* FAULT: the job is not counted.
AddJobUncounted(c) ==
  /\ Inside(c, "AddJob")
  /\ ~isClosed
  /\ accepted' = accepted \cup {job[c]}
  /\ pc' = [pc EXCEPT ![c] = "sending"]
  /\ UNCHANGED <<mutex, op, job, wg, queue, running, exited, finished>>
  /\ UNCHANGED poolVars

\* FAULT: the closed check is missing.
AddJobUnchecked(c) ==
  /\ Inside(c, "AddJob")
  /\ wg' = wg + 1
  /\ accepted' = accepted \cup {job[c]}
  /\ pc' = [pc EXCEPT ![c] = "sending"]
  /\ UNCHANGED <<mutex, op, job, queue, running, exited, finished>>
  /\ UNCHANGED poolVars

\* AddJob after its check: the job is counted before it is sent.
AddJobCount(c) ==
  /\ Inside(c, "AddJob")
  /\ ~isClosed
  /\ wg' = wg + 1
  /\ accepted' = accepted \cup {job[c]}
  /\ pc' = [pc EXCEPT ![c] = "sending"]
  /\ UNCHANGED <<mutex, op, job, queue, running, exited, finished>>
  /\ UNCHANGED poolVars

\* pool.jobs <- job, which blocks while the channel is full.
AddJobSend(c) ==
  /\ pc[c] = "sending"
  /\ Len(queue) < Capacity
  /\ queue' = Append(queue, job[c])
  /\ Return(c)
  /\ UNCHANGED <<wg, running, exited>>
  /\ UNCHANGED poolVars
  /\ UNCHANGED history

\* FAULT: the channel is left open.
CloseFlagOnly(c) ==
  /\ Inside(c, "Close")
  /\ ~isClosed
  /\ isClosed' = TRUE
  /\ Return(c)
  /\ UNCHANGED <<chanClosed, cancelled, wg, queue, running, exited>>
  /\ UNCHANGED history

Close(c) ==
  /\ Inside(c, "Close")
  /\ ~isClosed
  /\ isClosed' = TRUE
  /\ chanClosed' = TRUE
  /\ Return(c)
  /\ UNCHANGED <<cancelled, wg, queue, running, exited>>
  /\ UNCHANGED history

CancelAndClose(c) ==
  /\ Inside(c, "CancelAndClose")
  /\ ~isClosed
  /\ cancelled' = TRUE
  /\ isClosed' = TRUE
  /\ chanClosed' = TRUE
  /\ Return(c)
  /\ UNCHANGED <<wg, queue, running, exited>>
  /\ UNCHANGED history

\* Wait, and WaitAndClose after its check, block in pool.wg.Wait().
BeginWait(c) ==
  /\ pc[c] = "inside"
  /\ \/ op[c] = "Wait"
     \/ op[c] = "WaitAndClose" /\ ~isClosed
  /\ pc' = [pc EXCEPT ![c] = "waiting"]
  /\ UNCHANGED <<mutex, op, job, wg, queue, running, exited>>
  /\ UNCHANGED poolVars
  /\ UNCHANGED history

\* FAULT: waits for the channel to drain, not for the jobs to end.
WaitForDrain(c) ==
  /\ pc[c] = "waiting"
  /\ op[c] = "Wait"
  /\ queue = <<>>
  /\ Return(c)
  /\ UNCHANGED <<wg, queue, running, exited>>
  /\ UNCHANGED poolVars
  /\ UNCHANGED history

WaitReturns(c) ==
  /\ pc[c] = "waiting"
  /\ op[c] = "Wait"
  /\ wg = 0
  /\ Return(c)
  /\ UNCHANGED <<wg, queue, running, exited>>
  /\ UNCHANGED poolVars
  /\ UNCHANGED history

WaitAndCloseReturns(c) ==
  /\ pc[c] = "waiting"
  /\ op[c] = "WaitAndClose"
  /\ wg = 0
  /\ cancelled' = TRUE
  /\ isClosed' = TRUE
  /\ chanClosed' = TRUE
  /\ Return(c)
  /\ UNCHANGED <<wg, queue, running, exited>>
  /\ UNCHANGED history

-----------------------------------------------------------------------------
(***************************************************************************)
(* Workers: the select loop of Worker.Start.  When a job is queued and the *)
(* context is done both cases are ready and either may be taken.           *)
(***************************************************************************)

Selecting(w) == w \notin exited /\ running[w] = None

TakeJob(w) ==
  /\ Selecting(w)
  /\ queue # <<>>
  /\ running' = [running EXCEPT ![w] = Head(queue)]
  /\ queue' = Tail(queue)
  /\ UNCHANGED <<mutex, pc, op, job, wg, exited>>
  /\ UNCHANGED poolVars
  /\ UNCHANGED history

\* FAULT: wg.Done is not deferred and a panicking job skips it.
FinishJobMayPanic(w) ==
  /\ running[w] # None
  /\ finished' = finished \cup {running[w]}
  /\ running' = [running EXCEPT ![w] = None]
  /\ wg' \in {wg, wg - 1}
  /\ UNCHANGED <<mutex, pc, op, job, queue, exited, accepted>>
  /\ UNCHANGED poolVars

\* The job's function ends or panics; the deferred wg.Done runs either way.
FinishJob(w) ==
  /\ running[w] # None
  /\ finished' = finished \cup {running[w]}
  /\ running' = [running EXCEPT ![w] = None]
  /\ wg' = wg - 1
  /\ UNCHANGED <<mutex, pc, op, job, queue, exited, accepted>>
  /\ UNCHANGED poolVars

\* FAULT: a worker leaves a closed channel that still holds jobs.
ExitBeforeDrain(w) ==
  /\ Selecting(w)
  /\ chanClosed \/ cancelled
  /\ exited' = exited \cup {w}
  /\ UNCHANGED <<mutex, pc, op, job, wg, queue, running>>
  /\ UNCHANGED poolVars
  /\ UNCHANGED history

\* The channel is closed and drained, or ctx.Done is ready.
ExitWorker(w) ==
  /\ Selecting(w)
  /\ (chanClosed /\ queue = <<>>) \/ cancelled
  /\ exited' = exited \cup {w}
  /\ UNCHANGED <<mutex, pc, op, job, wg, queue, running>>
  /\ UNCHANGED poolVars
  /\ UNCHANGED history

-----------------------------------------------------------------------------

\* What a client does once it is inside a method.
Proceed(c) ==
  \/ ReturnAlreadyClosed(c)
  \/ AddJobCount(c)
  \/ AddJobSend(c)
  \/ Close(c)
  \/ CancelAndClose(c)
  \/ BeginWait(c)
  \/ WaitReturns(c)
  \/ WaitAndCloseReturns(c)

WorkerStep(w) == TakeJob(w) \/ FinishJob(w) \/ ExitWorker(w)

Next ==
  \/ \E c \in Clients : Call(c) \/ Lock(c) \/ Proceed(c)
  \/ \E w \in Workers : WorkerStep(w)

Spec == Init /\ [][Next]_vars

\* Running goroutines are scheduled, jobs end, and sync.Mutex serves every
\* waiter (its starvation mode hands the lock over in FIFO order).
Fairness ==
  /\ \A c \in Clients : SF_vars(Lock(c)) /\ WF_vars(Proceed(c))
  /\ \A w \in Workers : WF_vars(WorkerStep(w))

FairSpec == Spec /\ Fairness

-----------------------------------------------------------------------------
(***************************************************************************)
(* Properties.                                                             *)
(***************************************************************************)

\* Type invariant: in particular the wait group's counter never goes below
\* zero, which sync.WaitGroup answers with a panic.
TypeOK ==
  /\ mutex \in Clients \cup {None}
  /\ pc \in [Clients -> {"idle", "locking", "inside", "sending", "waiting"}]
  /\ op \in [Clients -> AllOps \cup {"none"}]
  /\ job \in [Clients -> Jobs \cup {None}]
  /\ isClosed \in BOOLEAN
  /\ chanClosed \in BOOLEAN
  /\ cancelled \in BOOLEAN
  /\ wg \in Nat
  /\ queue \in Seq(Jobs)
  /\ running \in [Workers -> Jobs \cup {None}]
  /\ exited \subseteq Workers
  /\ accepted \subseteq Jobs
  /\ finished \subseteq Jobs

Outstanding == accepted \ finished

\* The wait group counts exactly the jobs whose AddJob succeeded or still
\* blocks and which have not ended: AddJob's error return adds nothing, a
\* panicking job is subtracted once.
WaitGroupCountsOutstanding == wg = Cardinality(Outstanding)

\* A client blocked on the full channel never finds the channel closed
\* under it (Go panics on a send on a closed channel): the mutex is held
\* across the send.
NoSendOnClosedChannel ==
  \A c \in Clients : pc[c] = "sending" => ~chanClosed

\* Wait and WaitAndClose are barriers: when one returns, every job any
\* client added before has ended.
WaitIsABarrier ==
  [][\A c \in Clients :
       (pc[c] = "waiting" /\ pc'[c] # "waiting") => Outstanding = {}]_vars

\* The pool implements the abstract job service: no job is accepted after
\* closing, started twice, or started without having been accepted.
InProgressJobs == {running[w] : w \in Workers} \ {None}

Service == INSTANCE JobService WITH
  Parallelism <- Cardinality(Workers),
  closed      <- isClosed,
  started     <- finished \cup InProgressJobs

ImplementsJobService == Service!Spec

\* Unless CancelAndClose gave the queue up, an accepted job ends.
AcceptedJobsFinish ==
  \A j \in Jobs : j \in accepted ~> (j \in finished \/ cancelled)

\* Unless CancelAndClose gave the queue up, every call returns although the
\* mutex is held while AddJob and Wait block.
CallsReturn ==
  \A c \in Clients : pc[c] = "locking" ~> (pc[c] = "idle" \/ cancelled)

\* Closing in any of the three ways ends every worker goroutine.
WorkersLeaveAfterClose == isClosed ~> exited = Workers

=============================================================================
