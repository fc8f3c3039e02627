-------------------------- MODULE WorkerPool_proofs --------------------------
(***************************************************************************)
(* Safety of the worker pool for every set of clients, workers and jobs    *)
(* and every capacity.                                                     *)
(***************************************************************************)
EXTENDS WorkerPool, FiniteSetTheorems, TLAPS

Holding == {"inside", "sending", "waiting"}

\* pool.mutex is held exactly while its owner is between Lock and Unlock.
MutexInv ==
  \A c \in Clients : pc[c] \in Holding <=> mutex = c

\* What a client carries through a call.
CallInv ==
  /\ \A c \in Clients :
       /\ pc[c] = "idle" => job[c] = None
       /\ pc[c] = "waiting" => job[c] = None
       /\ pc[c] = "sending" => job[c] \in Outstanding
       /\ pc[c] \in {"locking", "inside"} =>
            IF op[c] = "AddJob" THEN job[c] \in Jobs \ accepted
                                ELSE job[c] = None
  /\ \A c, d \in Clients :
       (c # d /\ job[c] = job[d]) => job[c] = None

\* The channel is closed with the flag, and never under a blocked sender.
ClosedInv ==
  /\ chanClosed = isClosed
  /\ \A c \in Clients : pc[c] = "sending" => ~isClosed

\* An outstanding job is in one place: with its sender, queued or running.
QueueInv ==
  \A i \in 1 .. Len(queue) :
    /\ queue[i] \in Outstanding
    /\ \A k \in 1 .. Len(queue) : queue[i] = queue[k] => i = k
    /\ \A w \in Workers : running[w] # queue[i]
    /\ \A c \in Clients : pc[c] = "sending" => job[c] # queue[i]

RunningInv ==
  \A w \in Workers : running[w] # None =>
    /\ running[w] \in Outstanding
    /\ \A v \in Workers : running[v] = running[w] => v = w
    /\ \A c \in Clients : pc[c] = "sending" => job[c] # running[w]

IInv ==
  /\ TypeOK
  /\ MutexInv
  /\ CallInv
  /\ ClosedInv
  /\ QueueInv
  /\ RunningInv
  /\ finished \subseteq accepted
  /\ WaitGroupCountsOutstanding

-----------------------------------------------------------------------------

LEMMA InitIInv == Init => IInv
<1> SUFFICES ASSUME Init PROVE IInv
  OBVIOUS
<1> USE PoolAssumption DEF Init
<1>1. TypeOK
  <2>1. queue \in Seq(Jobs)
    OBVIOUS
  <2>2. pc \in [Clients -> {"idle", "locking", "inside", "sending", "waiting"}]
    OBVIOUS
  <2>3. op \in [Clients -> AllOps \cup {"none"}]
    OBVIOUS
  <2>4. /\ job \in [Clients -> Jobs \cup {None}]
        /\ running \in [Workers -> Jobs \cup {None}]
    OBVIOUS
  <2>5. QED
    BY <2>1, <2>2, <2>3, <2>4 DEF TypeOK
<1>2. MutexInv
  BY DEF MutexInv, Holding
<1>3. CallInv
  BY DEF CallInv
<1>4. ClosedInv
  BY DEF ClosedInv
<1>5. QueueInv
  BY DEF QueueInv
<1>6. RunningInv
  BY DEF RunningInv
<1>7. WaitGroupCountsOutstanding
  <2>1. Outstanding = {}
    BY DEF Outstanding
  <2>2. QED
    BY <2>1, FS_EmptySet DEF WaitGroupCountsOutstanding
<1>8. QED
  BY <1>1, <1>2, <1>3, <1>4, <1>5, <1>6, <1>7 DEF IInv

LEMMA SendStep ==
  ASSUME IInv, NEW c \in Clients, AddJobSend(c)
  PROVE  IInv'
<1> USE PoolAssumption DEF IInv, AddJobSend, Return, poolVars, history
<1>1. TypeOK'
  <2>1. queue' \in Seq(Jobs)
    BY DEF TypeOK, CallInv, Outstanding
  <2>2. pc' \in [Clients -> {"idle", "locking", "inside", "sending", "waiting"}]
    BY DEF TypeOK
  <2>3. op' \in [Clients -> AllOps \cup {"none"}]
    BY DEF TypeOK
  <2>4. job' \in [Clients -> Jobs \cup {None}]
    BY DEF TypeOK
  <2>5. QED
    BY <2>1, <2>2, <2>3, <2>4 DEF TypeOK
<1>2. MutexInv'
  BY DEF MutexInv, Holding, TypeOK
<1>3. CallInv'
  BY DEF CallInv, TypeOK, Outstanding
<1>4. ClosedInv'
  BY DEF ClosedInv, TypeOK
<1>5. QueueInv'
  BY DEF QueueInv, TypeOK, Outstanding, CallInv, RunningInv, MutexInv, Holding
<1>6. RunningInv'
  BY DEF RunningInv, TypeOK, Outstanding
<1>7. (finished \subseteq accepted)' /\ WaitGroupCountsOutstanding'
  BY DEF WaitGroupCountsOutstanding, Outstanding
<1> QED BY <1>1, <1>2, <1>3, <1>4, <1>5, <1>6, <1>7

LEMMA TakeStep ==
  ASSUME IInv, NEW w \in Workers, TakeJob(w)
  PROVE  IInv'
<1> USE PoolAssumption DEF IInv, TakeJob, Selecting, poolVars, history
<1>1. TypeOK'
  BY DEF TypeOK
<1>2. MutexInv'
  BY DEF MutexInv, Holding, TypeOK
<1>3. CallInv'
  BY DEF CallInv, TypeOK, Outstanding
<1>4. ClosedInv'
  BY DEF ClosedInv, TypeOK
<1>5. QueueInv'
  BY DEF QueueInv, TypeOK, Outstanding, CallInv
<1>6. RunningInv'
  BY DEF RunningInv, QueueInv, TypeOK, Outstanding
<1>7. (finished \subseteq accepted)' /\ WaitGroupCountsOutstanding'
  BY DEF WaitGroupCountsOutstanding, Outstanding
<1> QED BY <1>1, <1>2, <1>3, <1>4, <1>5, <1>6, <1>7

\* The returns that move no job: what a closed check, Close, CancelAndClose
\* and the two waits do to the invariant is the same.

LEMMA ReturnStep ==
  ASSUME IInv, NEW c \in Clients, pc[c] \in {"inside", "waiting"}, Return(c),
         isClosed' \in BOOLEAN, cancelled' \in BOOLEAN, chanClosed' = isClosed',
         UNCHANGED <<wg, queue, running, exited, accepted, finished>>
  PROVE  IInv'
<1> USE PoolAssumption DEF IInv, Return
<1>1. TypeOK'
  <2>1. pc' \in [Clients -> {"idle", "locking", "inside", "sending", "waiting"}]
    BY DEF TypeOK
  <2>2. op' \in [Clients -> AllOps \cup {"none"}]
    BY DEF TypeOK
  <2>3. job' \in [Clients -> Jobs \cup {None}]
    BY DEF TypeOK
  <2>4. QED
    BY <2>1, <2>2, <2>3 DEF TypeOK
<1>2. MutexInv'
  BY DEF MutexInv, Holding, TypeOK
<1>3. CallInv'
  BY DEF CallInv, TypeOK, Outstanding
<1>4. ClosedInv'
  BY DEF ClosedInv, TypeOK, MutexInv, Holding
<1>5. QueueInv'
  BY DEF QueueInv, TypeOK, Outstanding
<1>6. RunningInv'
  BY DEF RunningInv, TypeOK, Outstanding
<1>7. (finished \subseteq accepted)' /\ WaitGroupCountsOutstanding'
  BY DEF WaitGroupCountsOutstanding, Outstanding
<1> QED BY <1>1, <1>2, <1>3, <1>4, <1>5, <1>6, <1>7

LEMMA CallStep ==
  ASSUME IInv, NEW c \in Clients, Call(c)
  PROVE  IInv'
<1> USE PoolAssumption DEF IInv, Call, poolVars, history
<1>1. TypeOK'
  <2>1. pc' \in [Clients -> {"idle", "locking", "inside", "sending", "waiting"}]
    BY DEF TypeOK
  <2>2. op' \in [Clients -> AllOps \cup {"none"}]
    BY DEF TypeOK
  <2>3. job' \in [Clients -> Jobs \cup {None}]
    BY DEF TypeOK
  <2>4. QED
    BY <2>1, <2>2, <2>3 DEF TypeOK
<1>2. MutexInv'
  BY DEF MutexInv, Holding, TypeOK
<1>3. CallInv'
  BY DEF CallInv, TypeOK, Outstanding, Submitted
<1>4. ClosedInv'
  BY DEF ClosedInv, TypeOK
<1>5. QueueInv'
  BY DEF QueueInv, TypeOK, Outstanding
<1>6. RunningInv'
  BY DEF RunningInv, TypeOK, Outstanding
<1>7. (finished \subseteq accepted)' /\ WaitGroupCountsOutstanding'
  BY DEF WaitGroupCountsOutstanding, Outstanding
<1> QED BY <1>1, <1>2, <1>3, <1>4, <1>5, <1>6, <1>7

LEMMA LockStep ==
  ASSUME IInv, NEW c \in Clients, Lock(c)
  PROVE  IInv'
<1> USE PoolAssumption DEF IInv, Lock, poolVars, history
<1>1. TypeOK'
  BY DEF TypeOK
<1>2. MutexInv'
  BY DEF MutexInv, Holding, TypeOK
<1>3. CallInv'
  BY DEF CallInv, TypeOK, Outstanding
<1>4. ClosedInv'
  BY DEF ClosedInv, TypeOK
<1>5. QueueInv'
  BY DEF QueueInv, TypeOK, Outstanding
<1>6. RunningInv'
  BY DEF RunningInv, TypeOK, Outstanding
<1>7. (finished \subseteq accepted)' /\ WaitGroupCountsOutstanding'
  BY DEF WaitGroupCountsOutstanding, Outstanding
<1> QED BY <1>1, <1>2, <1>3, <1>4, <1>5, <1>6, <1>7

LEMMA BeginWaitStep ==
  ASSUME IInv, NEW c \in Clients, BeginWait(c)
  PROVE  IInv'
<1> USE PoolAssumption DEF IInv, BeginWait, poolVars, history
<1>1. TypeOK'
  BY DEF TypeOK
<1>2. MutexInv'
  BY DEF MutexInv, Holding, TypeOK
<1>3. CallInv'
  BY DEF CallInv, TypeOK, Outstanding
<1>4. ClosedInv'
  BY DEF ClosedInv, TypeOK
<1>5. QueueInv'
  BY DEF QueueInv, TypeOK, Outstanding
<1>6. RunningInv'
  BY DEF RunningInv, TypeOK, Outstanding
<1>7. (finished \subseteq accepted)' /\ WaitGroupCountsOutstanding'
  BY DEF WaitGroupCountsOutstanding, Outstanding
<1> QED BY <1>1, <1>2, <1>3, <1>4, <1>5, <1>6, <1>7

LEMMA CountStep ==
  ASSUME IInv, NEW c \in Clients, AddJobCount(c)
  PROVE  IInv'
<1> USE PoolAssumption DEF IInv, AddJobCount, Inside, poolVars
<1>1. TypeOK'
  BY DEF TypeOK, CallInv
<1>2. MutexInv'
  BY DEF MutexInv, Holding, TypeOK
<1>3. CallInv'
  BY DEF CallInv, TypeOK, Outstanding
<1>4. ClosedInv'
  BY DEF ClosedInv, TypeOK
<1>5. QueueInv'
  BY DEF QueueInv, TypeOK, Outstanding, CallInv
<1>6. RunningInv'
  BY DEF RunningInv, TypeOK, Outstanding, CallInv
<1>7. (finished \subseteq accepted)' /\ WaitGroupCountsOutstanding'
  <2>1. job[c] \in Jobs \ accepted
    BY DEF CallInv
  <2>2. Outstanding' = Outstanding \cup {job[c]} /\ job[c] \notin Outstanding
    BY <2>1 DEF Outstanding
  <2>3. IsFiniteSet(Outstanding)
    BY FS_Subset DEF TypeOK, Outstanding
  <2>4. Cardinality(Outstanding') = Cardinality(Outstanding) + 1
    BY <2>2, <2>3, FS_AddElement
  <2>5. QED
    BY <2>4 DEF WaitGroupCountsOutstanding
<1> QED BY <1>1, <1>2, <1>3, <1>4, <1>5, <1>6, <1>7

LEMMA FinishStep ==
  ASSUME IInv, NEW w \in Workers, FinishJob(w)
  PROVE  IInv'
<1> USE PoolAssumption DEF IInv, FinishJob, poolVars
<1>1. TypeOK'
  <2>1. running[w] \in Outstanding
    BY DEF RunningInv
  <2>2. IsFiniteSet(Outstanding)
    BY FS_Subset DEF TypeOK, Outstanding
  <2>3. Cardinality(Outstanding) # 0
    BY <2>1, <2>2, FS_EmptySet
  <2>4. wg - 1 \in Nat
    BY <2>3 DEF TypeOK, WaitGroupCountsOutstanding
  <2>5. QED
    BY <2>1, <2>4 DEF TypeOK, Outstanding
<1>2. MutexInv'
  BY DEF MutexInv, Holding, TypeOK
<1>3. CallInv'
  BY DEF CallInv, TypeOK, Outstanding, RunningInv
<1>4. ClosedInv'
  BY DEF ClosedInv, TypeOK
<1>5. QueueInv'
  BY DEF QueueInv, TypeOK, Outstanding, RunningInv
<1>6. RunningInv'
  BY DEF RunningInv, TypeOK, Outstanding
<1>7. (finished \subseteq accepted)' /\ WaitGroupCountsOutstanding'
  <2>1. running[w] \in Outstanding
    BY DEF RunningInv
  <2>2. IsFiniteSet(Outstanding)
    BY FS_Subset DEF TypeOK, Outstanding
  <2>3. Outstanding' = Outstanding \ {running[w]}
    BY <2>1 DEF Outstanding
  <2>4. Cardinality(Outstanding') = Cardinality(Outstanding) - 1
    BY <2>1, <2>2, <2>3, FS_RemoveElement
  <2>5. QED
    BY <2>1, <2>4 DEF WaitGroupCountsOutstanding, Outstanding
<1> QED BY <1>1, <1>2, <1>3, <1>4, <1>5, <1>6, <1>7

LEMMA ExitStep ==
  ASSUME IInv, NEW w \in Workers, ExitWorker(w)
  PROVE  IInv'
<1> USE PoolAssumption DEF IInv, ExitWorker, Selecting, poolVars, history
<1>1. TypeOK'
  BY DEF TypeOK
<1>2. MutexInv'
  BY DEF MutexInv, Holding, TypeOK
<1>3. CallInv'
  BY DEF CallInv, TypeOK, Outstanding
<1>4. ClosedInv'
  BY DEF ClosedInv, TypeOK
<1>5. QueueInv'
  BY DEF QueueInv, TypeOK, Outstanding
<1>6. RunningInv'
  BY DEF RunningInv, TypeOK, Outstanding
<1>7. (finished \subseteq accepted)' /\ WaitGroupCountsOutstanding'
  BY DEF WaitGroupCountsOutstanding, Outstanding
<1> QED BY <1>1, <1>2, <1>3, <1>4, <1>5, <1>6, <1>7

LEMMA NextIInv == IInv /\ [Next]_vars => IInv'
<1> SUFFICES ASSUME IInv, [Next]_vars PROVE IInv'
  OBVIOUS
<1>1. ASSUME NEW c \in Clients, Call(c) PROVE IInv'
  BY <1>1, CallStep
<1>2. ASSUME NEW c \in Clients, Lock(c) PROVE IInv'
  BY <1>2, LockStep
<1>3. ASSUME NEW c \in Clients, Proceed(c) PROVE IInv'
  <2>1. CASE AddJobCount(c)
    BY <2>1, CountStep
  <2>2. CASE AddJobSend(c)
    BY <2>2, SendStep
  <2>3. CASE BeginWait(c)
    BY <2>3, BeginWaitStep
  <2>4. CASE ReturnAlreadyClosed(c)
    BY <2>4, ReturnStep DEF ReturnAlreadyClosed, IInv, TypeOK, ClosedInv, history
  <2>5. CASE Close(c)
    BY <2>5, ReturnStep DEF Close, Inside, IInv, TypeOK, history
  <2>6. CASE CancelAndClose(c)
    BY <2>6, ReturnStep DEF CancelAndClose, Inside, IInv, TypeOK, history
  <2>7. CASE WaitReturns(c)
    BY <2>7, ReturnStep DEF WaitReturns, IInv, TypeOK, ClosedInv, poolVars, history
  <2>8. CASE WaitAndCloseReturns(c)
    BY <2>8, ReturnStep DEF WaitAndCloseReturns, IInv, TypeOK, history
  <2> QED
    BY <1>3, <2>1, <2>2, <2>3, <2>4, <2>5, <2>6, <2>7, <2>8 DEF Proceed
<1>4. ASSUME NEW w \in Workers, WorkerStep(w) PROVE IInv'
  BY <1>4, TakeStep, FinishStep, ExitStep DEF WorkerStep
<1>5. CASE UNCHANGED vars
  BY <1>5 DEF vars, IInv, TypeOK, MutexInv, CallInv, ClosedInv, QueueInv,
     RunningInv, WaitGroupCountsOutstanding, Outstanding, Holding
<1> QED
  BY <1>1, <1>2, <1>3, <1>4, <1>5 DEF Next

LEMMA SpecIInv == Spec => []IInv
<1>1. Init => IInv
  BY InitIInv
<1>2. IInv /\ [Next]_vars => IInv'
  BY NextIInv
<1> QED
  BY <1>1, <1>2, PTL DEF Spec

-----------------------------------------------------------------------------

\* Every variable keeps its type; wg.Done never takes the counter below zero,
\* for any number of clients, workers and jobs.
THEOREM TypeCorrect == Spec => []TypeOK
<1>1. IInv => TypeOK
  BY DEF IInv
<1> QED
  BY <1>1, SpecIInv, PTL

\* The wait group counts the accepted jobs that have not ended.
THEOREM WaitGroupCounts == Spec => []WaitGroupCountsOutstanding
<1>1. IInv => WaitGroupCountsOutstanding
  BY DEF IInv
<1> QED
  BY <1>1, SpecIInv, PTL

\* A send blocked on the full channel never meets a closed channel.
THEOREM SendsStayOpen == Spec => []NoSendOnClosedChannel
<1>1. IInv => NoSendOnClosedChannel
  BY DEF IInv, ClosedInv, NoSendOnClosedChannel
<1> QED
  BY <1>1, SpecIInv, PTL

\* Wait and WaitAndClose return only when every accepted job has ended.
THEOREM WaitBarrier == Spec => WaitIsABarrier
<1> DEFINE Barrier ==
      \A c \in Clients :
        (pc[c] = "waiting" /\ pc'[c] # "waiting") => Outstanding = {}
<1>1. IInv /\ [Next]_vars => [Barrier]_vars
  <2> SUFFICES ASSUME IInv, Next, NEW c \in Clients,
                      pc[c] = "waiting", pc'[c] # "waiting"
               PROVE  Outstanding = {}
    OBVIOUS
  <2>1. wg = 0
    <3>1. ASSUME NEW d \in Clients, Call(d) \/ Lock(d) \/ Proceed(d)
          PROVE  wg = 0
      BY <3>1 DEF IInv, TypeOK, Call, Lock, Proceed, ReturnAlreadyClosed,
         AddJobCount, AddJobSend, Close, CancelAndClose, BeginWait,
         WaitReturns, WaitAndCloseReturns, Return, Inside
    <3>2. ASSUME NEW w \in Workers, WorkerStep(w) PROVE wg = 0
      BY <3>2 DEF WorkerStep, TakeJob, FinishJob, ExitWorker
    <3> QED
      BY <3>1, <3>2 DEF Next
  <2>2. IsFiniteSet(Outstanding)
    BY FS_Subset, PoolAssumption DEF IInv, TypeOK, Outstanding
  <2> QED
    BY <2>1, <2>2, FS_EmptySet DEF IInv, WaitGroupCountsOutstanding
<1> QED
  BY <1>1, SpecIInv, PTL DEF Spec, WaitIsABarrier

-----------------------------------------------------------------------------
(***************************************************************************)
(* The pool implements JobService.                                         *)
(***************************************************************************)

LEMMA BusyBound ==
  ASSUME NEW run \in [Workers -> Jobs \cup {None}]
  PROVE  LET busy == {run[w] : w \in Workers} \ {None}
         IN  IsFiniteSet(busy) /\ Cardinality(busy) <= Cardinality(Workers)
<1> DEFINE busy == {run[w] : w \in Workers} \ {None}
           W == {w \in Workers : run[w] # None}
           f == [w \in W |-> run[w]]
<1>1. IsFiniteSet(W) /\ Cardinality(W) <= Cardinality(Workers)
  BY PoolAssumption, FS_Subset
<1>2. f \in Surjection(W, busy)
  BY DEF Surjection
<1>3. IsFiniteSet(busy) /\ Cardinality(busy) <= Cardinality(W)
  <2> HIDE DEF busy, W, f
  <2> QED BY <1>1, <1>2, FS_Surjection
<1>4. Cardinality(busy) \in Nat /\ Cardinality(W) \in Nat
      /\ Cardinality(Workers) \in Nat
  BY <1>1, <1>3, PoolAssumption, FS_CardinalityType
<1> HIDE DEF busy, W
<1>5. IsFiniteSet(busy) /\ Cardinality(busy) <= Cardinality(Workers)
  BY <1>1, <1>3, <1>4
<1> QED
  BY <1>5 DEF busy

LEMMA ServiceInit == Init => Service!Init
BY PoolAssumption DEF Init, Service!Init, InProgressJobs

LEMMA ServiceStep == IInv /\ IInv' /\ [Next]_vars => [Service!Next]_(Service!vars)
<1> SUFFICES ASSUME IInv, IInv', [Next]_vars,
                    ~ UNCHANGED Service!vars
             PROVE  Service!Next
  OBVIOUS
<1> USE DEF Service!vars
<1>1. ASSUME NEW c \in Clients, Call(c) \/ Lock(c) PROVE Service!Next
  BY <1>1 DEF Call, Lock, poolVars, history, InProgressJobs
<1>2. ASSUME NEW c \in Clients, Proceed(c) PROVE Service!Next
  <2>1. CASE AddJobCount(c)
    <3>1. job[c] \in Jobs \ accepted
      BY <2>1 DEF AddJobCount, Inside, IInv, CallInv
    <3>2. Service!Accept(job[c])
      BY <2>1, <3>1 DEF AddJobCount, Inside, poolVars, Service!Accept,
         InProgressJobs
    <3> QED
      BY <3>1, <3>2 DEF Service!Next
  <2>2. CASE Close(c) \/ CancelAndClose(c) \/ WaitAndCloseReturns(c)
    <3>1. isClosed' = TRUE
          /\ UNCHANGED <<accepted, finished, running>>
      BY <2>2 DEF Close, CancelAndClose, WaitAndCloseReturns, history
    <3>2. InProgressJobs' = InProgressJobs
      BY <3>1 DEF InProgressJobs
    <3>3. isClosed = FALSE
      BY <3>1, <3>2 DEF IInv, TypeOK
    <3>4. Service!Shut
      BY <3>1, <3>2, <3>3 DEF Service!Shut
    <3> QED
      BY <3>4 DEF Service!Next
  <2>3. CASE ReturnAlreadyClosed(c) \/ AddJobSend(c) \/ BeginWait(c)
             \/ WaitReturns(c)
    BY <2>3 DEF ReturnAlreadyClosed, AddJobSend, BeginWait, WaitReturns,
       poolVars, history, InProgressJobs
  <2> QED
    BY <1>2, <2>1, <2>2, <2>3 DEF Proceed
<1>3. ASSUME NEW w \in Workers, TakeJob(w) PROVE Service!Next
  <2> DEFINE j == Head(queue)
  <2>1. queue # <<>> /\ queue[1] = j /\ 1 \in 1 .. Len(queue) /\ j \in Jobs
    BY <1>3 DEF TakeJob, IInv, TypeOK
  <2>2. j \in Outstanding /\ \A v \in Workers : running[v] # j
    BY <2>1 DEF IInv, QueueInv
  <2>3. running' = [running EXCEPT ![w] = j] /\ running[w] = None
        /\ UNCHANGED <<isClosed, accepted, finished>>
    BY <1>3 DEF TakeJob, Selecting, poolVars, history
  <2> HIDE DEF j
  <2>4. InProgressJobs' = InProgressJobs \cup {j}
    BY <2>1, <2>3, PoolAssumption DEF IInv, TypeOK, InProgressJobs
  <2>5. j \notin finished \cup InProgressJobs /\ j \in accepted
    BY <2>2, <2>1, PoolAssumption DEF Outstanding, InProgressJobs
  <2>6. Cardinality(Service!InProgress') <= Cardinality(Workers)
    <3>1. /\ IsFiniteSet(InProgressJobs')
          /\ Cardinality(InProgressJobs') <= Cardinality(Workers)
      BY BusyBound DEF IInv, TypeOK, InProgressJobs
    <3>2. Service!InProgress' \in SUBSET (InProgressJobs')
      BY DEF Service!InProgress
    <3>3. /\ IsFiniteSet(Service!InProgress')
          /\ Cardinality(Service!InProgress') <= Cardinality(InProgressJobs')
      BY <3>1, <3>2, FS_Subset
    <3>4. /\ Cardinality(Service!InProgress') \in Nat
          /\ Cardinality(InProgressJobs') \in Nat
          /\ Cardinality(Workers) \in Nat
      BY <3>1, <3>3, FS_CardinalityType, PoolAssumption
    <3> QED
      BY <3>1, <3>3, <3>4
  <2>7. Service!Cardinality(Service!InProgress') = Cardinality(Service!InProgress')
    BY DEF Service!Cardinality, Cardinality
  <2>8. Service!Start(j)
    BY <2>3, <2>4, <2>5, <2>6, <2>7 DEF Service!Start
  <2> QED
    BY <2>1, <2>8 DEF Service!Next
<1>4. ASSUME NEW w \in Workers, FinishJob(w) PROVE Service!Next
  <2> DEFINE j == running[w]
  <2>1. j \in Outstanding /\ j \in Jobs /\ j # None
        /\ \A v \in Workers : running[v] = j => v = w
    BY <1>4, PoolAssumption DEF FinishJob, IInv, TypeOK, RunningInv
  <2>2. running' = [running EXCEPT ![w] = None]
        /\ finished' = finished \cup {j}
        /\ UNCHANGED <<isClosed, accepted>>
    BY <1>4 DEF FinishJob, poolVars
  <2>3. finished' \cup InProgressJobs' = finished \cup InProgressJobs
    BY <2>1, <2>2 DEF IInv, TypeOK, InProgressJobs
  <2>4. j \in InProgressJobs /\ j \notin finished
    BY <2>1 DEF InProgressJobs, Outstanding
  <2>5. Service!Finish(j)
    BY <2>2, <2>3, <2>4 DEF Service!Finish, Service!InProgress
  <2> QED
    BY <2>1, <2>5 DEF Service!Next
<1>5. ASSUME NEW w \in Workers, ExitWorker(w) PROVE Service!Next
  BY <1>5 DEF ExitWorker, poolVars, history, InProgressJobs
<1>6. CASE UNCHANGED vars
  BY <1>6 DEF vars, InProgressJobs
<1> QED
  BY <1>1, <1>2, <1>3, <1>4, <1>5, <1>6 DEF Next, WorkerStep

\* The pool does what the abstract job service allows: jobs are accepted only
\* before closing, each starts at most once, at most one per worker at a time.
THEOREM Implementation == Spec => ImplementsJobService
<1>1. Init => Service!Init
  BY ServiceInit
<1>2. IInv /\ IInv' /\ [Next]_vars => [Service!Next]_(Service!vars)
  BY ServiceStep
<1> QED
  BY <1>1, <1>2, SpecIInv, PTL DEF Spec, ImplementsJobService, Service!Spec

-----------------------------------------------------------------------------
(***************************************************************************)
(* Where the accepted jobs are, and who serves a call that blocks.         *)
(***************************************************************************)

Sent(j) == \E c \in Clients : pc[c] = "sending" /\ job[c] = j
Queued(j) == \E i \in 1 .. Len(queue) : queue[i] = j
Runs(w, j) == running[w] = j

\* No outstanding job is dropped between its sender, the channel and a worker.
PlaceInv ==
  \A j \in Outstanding : Sent(j) \/ Queued(j) \/ \E w \in Workers : Runs(w, j)

\* Workers leave only a pool that is closed, between two jobs, and - unless
\* the queue was given up - when nothing is queued or can still be sent.
ExitInv ==
  /\ cancelled => isClosed
  /\ \A w \in exited : isClosed /\ running[w] = None
  /\ ~cancelled /\ exited # {} => queue = <<>>

\* An accepted job that has not ended is with its sender, or queued for
\* workers none of which has left (unless CancelAndClose gave the queue up),
\* or with a worker that has not left.
OutstandingIsServed ==
  \A j \in Outstanding :
    \/ Sent(j)
    \/ Queued(j) /\ (cancelled \/ exited = {})
    \/ \E w \in Workers \ exited : Runs(w, j)

\* A call that blocks in the pool: a send on the full channel, a wait for jobs.
Blocked(c) ==
  \/ pc[c] = "sending" /\ Len(queue) >= Capacity
  \/ pc[c] = "waiting" /\ wg # 0

\* Unless the queue was given up, a call that blocks with the mutex in its
\* hands waits for a worker that runs a job or for one that can take the next.
BlockedIsServed ==
  \A c \in Clients : Blocked(c) /\ ~cancelled =>
    \E w \in Workers \ exited : running[w] # None \/ queue # <<>>

LEMMA PlaceInit == Init => PlaceInv /\ ExitInv
BY PoolAssumption DEF Init, PlaceInv, ExitInv, Outstanding

\* The steps that leave every job where it is.
LEMMA PlaceKept ==
  ASSUME PlaceInv, UNCHANGED <<queue, running, accepted, finished>>,
         \A c \in Clients : pc[c] = "sending" => pc'[c] = "sending" /\ job'[c] = job[c]
  PROVE  PlaceInv'
<1> SUFFICES ASSUME NEW j \in Outstanding'
             PROVE  (Sent(j) \/ Queued(j) \/ \E w \in Workers : Runs(w, j))'
  BY DEF PlaceInv
<1>1. j \in Outstanding
  BY DEF Outstanding
<1>2. CASE Sent(j)
  BY <1>2 DEF Sent
<1>3. CASE Queued(j)
  BY <1>3 DEF Queued
<1>4. CASE \E w \in Workers : Runs(w, j)
  BY <1>4 DEF Runs
<1> QED
  BY <1>1, <1>2, <1>3, <1>4 DEF PlaceInv

LEMMA PlaceSend ==
  ASSUME IInv, PlaceInv, NEW c \in Clients, AddJobSend(c)
  PROVE  PlaceInv'
<1> SUFFICES ASSUME NEW j \in Outstanding'
             PROVE  (Sent(j) \/ Queued(j) \/ \E w \in Workers : Runs(w, j))'
  BY DEF PlaceInv
<1>0. /\ queue \in Seq(Jobs) /\ job[c] \in Jobs
      /\ queue' = Append(queue, job[c])
      /\ UNCHANGED <<running, accepted, finished>>
      /\ pc' = [pc EXCEPT ![c] = "idle"] /\ job' = [job EXCEPT ![c] = None]
  BY DEF IInv, TypeOK, CallInv, Outstanding, AddJobSend, Return, history
<1>1. j \in Outstanding
  BY <1>0 DEF Outstanding
<1>2. CASE Sent(j)
  <2>1. PICK d \in Clients : pc[d] = "sending" /\ job[d] = j
    BY <1>2 DEF Sent
  <2>2. CASE d = c
    <3>1. queue'[Len(queue) + 1] = j /\ Len(queue') = Len(queue) + 1
          /\ Len(queue) \in Nat
      BY <1>0, <2>1, <2>2
    <3> QED
      BY <3>1 DEF Queued
  <2>3. CASE d # c
    BY <1>0, <2>1, <2>3 DEF IInv, TypeOK, Sent
  <2> QED
    BY <2>2, <2>3
<1>3. CASE Queued(j)
  <2>1. PICK i \in 1 .. Len(queue) : queue[i] = j
    BY <1>3 DEF Queued
  <2>2. queue'[i] = j /\ i \in 1 .. Len(queue')
    BY <1>0, <2>1
  <2> QED
    BY <2>2 DEF Queued
<1>4. CASE \E w \in Workers : Runs(w, j)
  BY <1>0, <1>4 DEF Runs
<1> QED
  BY <1>1, <1>2, <1>3, <1>4 DEF PlaceInv

LEMMA PlaceCount ==
  ASSUME IInv, PlaceInv, NEW c \in Clients, AddJobCount(c)
  PROVE  PlaceInv'
<1> SUFFICES ASSUME NEW j \in Outstanding'
             PROVE  (Sent(j) \/ Queued(j) \/ \E w \in Workers : Runs(w, j))'
  BY DEF PlaceInv
<1>0. /\ UNCHANGED <<queue, running, job, finished>>
      /\ accepted' = accepted \cup {job[c]}
      /\ pc' = [pc EXCEPT ![c] = "sending"] /\ DOMAIN pc = Clients
  BY DEF IInv, TypeOK, AddJobCount
<1>1. CASE j = job[c]
  BY <1>0, <1>1 DEF Sent
<1>2. CASE j # job[c]
  <2>1. j \in Outstanding
    BY <1>0, <1>2 DEF Outstanding
  <2>2. CASE Sent(j)
    BY <1>0, <2>2 DEF Sent
  <2>3. CASE Queued(j)
    BY <1>0, <2>3 DEF Queued
  <2>4. CASE \E w \in Workers : Runs(w, j)
    BY <1>0, <2>4 DEF Runs
  <2> QED
    BY <2>1, <2>2, <2>3, <2>4 DEF PlaceInv
<1> QED
  BY <1>1, <1>2

LEMMA PlaceTake ==
  ASSUME IInv, PlaceInv, NEW w \in Workers, TakeJob(w)
  PROVE  PlaceInv'
<1> SUFFICES ASSUME NEW j \in Outstanding'
             PROVE  (Sent(j) \/ Queued(j) \/ \E v \in Workers : Runs(v, j))'
  BY DEF PlaceInv
<1>0. /\ queue \in Seq(Jobs) /\ queue # <<>> /\ queue' = Tail(queue)
      /\ running' = [running EXCEPT ![w] = Head(queue)] /\ running[w] = None
      /\ running \in [Workers -> Jobs \cup {None}]
      /\ UNCHANGED <<pc, job, accepted, finished>>
  BY DEF IInv, TypeOK, TakeJob, Selecting, history
<1>1. j \in Outstanding /\ j # None
  BY <1>0, PoolAssumption DEF Outstanding, IInv, TypeOK
<1>2. CASE Sent(j)
  BY <1>0, <1>2 DEF Sent
<1>3. CASE Queued(j)
  <2>1. PICK i \in 1 .. Len(queue) : queue[i] = j
    BY <1>3 DEF Queued
  <2>2. CASE i = 1
    <3>1. running'[w] = j
      BY <1>0, <2>1, <2>2
    <3> QED
      BY <3>1 DEF Runs
  <2>3. CASE i # 1
    <3>1. queue'[i - 1] = j /\ i - 1 \in 1 .. Len(queue')
      BY <1>0, <2>1, <2>3
    <3> QED
      BY <3>1 DEF Queued
  <2> QED
    BY <2>2, <2>3
<1>4. CASE \E v \in Workers : Runs(v, j)
  <2>1. PICK v \in Workers : running[v] = j
    BY <1>4 DEF Runs
  <2>2. running'[v] = j
    BY <1>0, <1>1, <2>1
  <2> QED
    BY <2>2 DEF Runs
<1> QED
  BY <1>1, <1>2, <1>3, <1>4 DEF PlaceInv

LEMMA PlaceFinish ==
  ASSUME IInv, PlaceInv, NEW w \in Workers, FinishJob(w)
  PROVE  PlaceInv'
<1> SUFFICES ASSUME NEW j \in Outstanding'
             PROVE  (Sent(j) \/ Queued(j) \/ \E v \in Workers : Runs(v, j))'
  BY DEF PlaceInv
<1>0. /\ UNCHANGED <<pc, job, queue, accepted>>
      /\ running \in [Workers -> Jobs \cup {None}]
      /\ running' = [running EXCEPT ![w] = None]
      /\ finished' = finished \cup {running[w]}
  BY DEF IInv, TypeOK, FinishJob
<1>1. j \in Outstanding /\ j # running[w]
  BY <1>0 DEF Outstanding
<1>2. CASE Sent(j)
  BY <1>0, <1>2 DEF Sent
<1>3. CASE Queued(j)
  BY <1>0, <1>3 DEF Queued
<1>4. CASE \E v \in Workers : Runs(v, j)
  BY <1>0, <1>1, <1>4 DEF Runs
<1> QED
  BY <1>1, <1>2, <1>3, <1>4 DEF PlaceInv

LEMMA NextPlace == IInv /\ PlaceInv /\ [Next]_vars => PlaceInv'
<1> SUFFICES ASSUME IInv, PlaceInv, [Next]_vars PROVE PlaceInv'
  OBVIOUS
<1>1. ASSUME NEW c \in Clients, Call(c) \/ Lock(c) PROVE PlaceInv'
  BY <1>1, PlaceKept DEF Call, Lock, history, IInv, TypeOK
<1>2. ASSUME NEW c \in Clients, Proceed(c) PROVE PlaceInv'
  <2>1. CASE AddJobCount(c)
    BY <2>1, PlaceCount
  <2>2. CASE AddJobSend(c)
    BY <2>2, PlaceSend
  <2>3. CASE BeginWait(c)
    BY <2>3, PlaceKept DEF BeginWait, history, IInv, TypeOK
  <2>4. CASE \/ ReturnAlreadyClosed(c) \/ Close(c) \/ CancelAndClose(c)
             \/ WaitReturns(c) \/ WaitAndCloseReturns(c)
    <3>1. /\ pc[c] \in {"inside", "waiting"} /\ Return(c)
          /\ UNCHANGED <<queue, running, accepted, finished>>
      BY <2>4 DEF ReturnAlreadyClosed, Close, CancelAndClose, WaitReturns,
         WaitAndCloseReturns, Inside, history
    <3> QED
      BY <3>1, PlaceKept DEF Return, IInv, TypeOK
  <2> QED
    BY <1>2, <2>1, <2>2, <2>3, <2>4 DEF Proceed
<1>3. ASSUME NEW w \in Workers, ExitWorker(w) PROVE PlaceInv'
  BY <1>3, PlaceKept DEF ExitWorker, history
<1>4. ASSUME NEW w \in Workers, WorkerStep(w) PROVE PlaceInv'
  BY <1>3, <1>4, PlaceTake, PlaceFinish DEF WorkerStep
<1>5. CASE UNCHANGED vars
  BY <1>5, PlaceKept DEF vars
<1> QED
  BY <1>1, <1>2, <1>4, <1>5 DEF Next

LEMMA NextExit == IInv /\ ExitInv /\ [Next]_vars => ExitInv'
<1> SUFFICES ASSUME IInv, ExitInv, [Next]_vars PROVE ExitInv'
  OBVIOUS
<1> USE DEF ExitInv
<1>1. ASSUME NEW c \in Clients, Call(c) \/ Lock(c) PROVE ExitInv'
  BY <1>1 DEF Call, Lock, poolVars
<1>2. ASSUME NEW c \in Clients, Proceed(c) PROVE ExitInv'
  <2>1. CASE AddJobCount(c) \/ BeginWait(c) \/ WaitReturns(c)
    BY <2>1 DEF AddJobCount, BeginWait, WaitReturns, poolVars
  <2>2. CASE AddJobSend(c)
    <3>1. ~isClosed
      BY <2>2 DEF AddJobSend, IInv, ClosedInv
    <3>2. exited = {} /\ exited' = {} /\ cancelled' = cancelled /\ ~cancelled
      BY <2>2, <3>1 DEF AddJobSend, poolVars
    <3> QED
      BY <3>2
  <2>3. CASE ReturnAlreadyClosed(c)
    BY <2>3 DEF ReturnAlreadyClosed
  <2>4. CASE Close(c) \/ CancelAndClose(c) \/ WaitAndCloseReturns(c)
    BY <2>4 DEF Close, CancelAndClose, WaitAndCloseReturns
  <2> QED
    BY <1>2, <2>1, <2>2, <2>3, <2>4 DEF Proceed
<1>3. ASSUME NEW w \in Workers, WorkerStep(w) PROVE ExitInv'
  <2>1. CASE TakeJob(w)
    <3>1. /\ w \notin exited /\ queue # <<>> /\ exited' = exited
          /\ UNCHANGED <<isClosed, cancelled>>
          /\ running' = [running EXCEPT ![w] = Head(queue)]
      BY <2>1 DEF TakeJob, Selecting, poolVars
    <3> QED
      BY <3>1
  <2>2. CASE FinishJob(w)
    BY <2>2 DEF FinishJob, poolVars, IInv, TypeOK
  <2>3. CASE ExitWorker(w)
    BY <2>3 DEF ExitWorker, Selecting, poolVars, IInv, ClosedInv
  <2> QED
    BY <1>3, <2>1, <2>2, <2>3 DEF WorkerStep
<1>4. CASE UNCHANGED vars
  BY <1>4 DEF vars
<1> QED
  BY <1>1, <1>2, <1>3, <1>4 DEF Next

LEMMA SpecPlaces == Spec => [](IInv /\ PlaceInv /\ ExitInv)
<1>1. Init => PlaceInv /\ ExitInv
  BY PlaceInit
<1>2. IInv /\ PlaceInv /\ [Next]_vars => PlaceInv'
  BY NextPlace
<1>3. IInv /\ ExitInv /\ [Next]_vars => ExitInv'
  BY NextExit
<1> QED
  BY <1>1, <1>2, <1>3, SpecIInv, PTL DEF Spec

\* No job AddJob accepted is lost between the sender, the channel and the
\* workers, in whatever order calls, jobs and closing come, and workers leave
\* a job behind only when CancelAndClose gave the queue up.
THEOREM AcceptedJobsAreServed == Spec => []OutstandingIsServed
<1>1. IInv /\ PlaceInv /\ ExitInv => OutstandingIsServed
  <2> SUFFICES ASSUME IInv, PlaceInv, ExitInv, NEW j \in Outstanding
               PROVE  \/ Sent(j)
                      \/ Queued(j) /\ (cancelled \/ exited = {})
                      \/ \E w \in Workers \ exited : Runs(w, j)
    BY DEF OutstandingIsServed
  <2>1. CASE Sent(j)
    BY <2>1
  <2>2. CASE Queued(j)
    <3>1. queue # <<>>
      BY <2>2 DEF Queued, IInv, TypeOK
    <3> QED
      BY <2>2, <3>1 DEF ExitInv
  <2>3. CASE \E w \in Workers : Runs(w, j)
    <3>1. j # None
      BY PoolAssumption DEF Outstanding, IInv, TypeOK
    <3> QED
      BY <2>3, <3>1 DEF Runs, ExitInv
  <2> QED
    BY <2>1, <2>2, <2>3 DEF PlaceInv
<1> QED
  BY <1>1, SpecPlaces, PTL

\* The pool's mutex is held across a blocking send and a blocking wait, and
\* still no call waits for itself: what it waits for is a job that runs, or a
\* worker that is free to take the next one.  With workers scheduled and jobs
\* that end, this is why calls return.
THEOREM BlockedCallsAreServed == Spec => []BlockedIsServed
<1>1. IInv /\ PlaceInv /\ ExitInv => BlockedIsServed
  <2> SUFFICES ASSUME IInv, PlaceInv, ExitInv, NEW c \in Clients, Blocked(c),
                      ~cancelled
               PROVE  \E w \in Workers \ exited : running[w] # None \/ queue # <<>>
    BY DEF BlockedIsServed
  <2>1. ASSUME queue # <<>>
        PROVE  \E w \in Workers \ exited : running[w] # None \/ queue # <<>>
    <3>1. exited = {}
      BY <2>1 DEF ExitInv
    <3> QED
      BY <2>1, <3>1, WorkersAssumption
  <2>2. CASE pc[c] = "sending" /\ Len(queue) >= Capacity
    <3>1. queue # <<>>
      BY <2>2, PoolAssumption
    <3> QED
      BY <2>1, <3>1
  <2>3. CASE pc[c] = "waiting" /\ wg # 0
    <3>1. PICK j \in Outstanding : TRUE
      <4>1. Outstanding # {}
        BY <2>3, FS_EmptySet DEF IInv, WaitGroupCountsOutstanding
      <4> QED
        BY <4>1
    <3>2. ~ Sent(j)
      BY <2>3 DEF Sent, IInv, MutexInv, Holding
    <3>3. CASE Queued(j)
      <4>1. queue # <<>>
        BY <3>3 DEF Queued, IInv, TypeOK
      <4> QED
        BY <2>1, <4>1
    <3>4. CASE \E w \in Workers : Runs(w, j)
      <4>1. j # None
        BY PoolAssumption DEF Outstanding, IInv, TypeOK
      <4> QED
        BY <3>4, <4>1 DEF Runs, ExitInv
    <3> QED
      BY <3>2, <3>3, <3>4 DEF PlaceInv
  <2> QED
    BY <2>2, <2>3 DEF Blocked
<1> QED
  BY <1>1, SpecPlaces, PTL

=============================================================================
