----------------------------- MODULE WsHub_proofs -----------------------------
(***************************************************************************)
(* Safety of the websocket hub for any number of senders, connections,     *)
(* projects and messages and any capacity of the channels.                 *)
(***************************************************************************)
EXTENDS WsHub, TLAPS

InHub(s) == pc[s] \in {"iterating", "writing", "sending"}

\* The hub's mutex is held from the lookup to the end of the loop.
HubInv == \A s \in Senders : InHub(s) <=> hubMutex = s

\* What a sender carries through its call.
CallInv ==
  \A s \in Senders :
    /\ pc[s] # "idle" => msg[s] \in Messages
    /\ pc[s] \in {"writing", "sending"} => at[s] \in Conns
    /\ pc[s] = "sending" => writeLock[at[s]] = s

\* Close holds the write lock from isClosed = true until the channel is
\* closed.
CloseInv ==
  \A c \in Conns :
    /\ handler[c] # "absent" => group[c] \in Groups
    /\ handler[c] \in {"removing", "ending"} <=> writeLock[c] = c
    /\ isClosed[c] <=> handler[c] \in {"removing", "ending", "closed"}
    /\ chanClosed[c] <=> handler[c] = "closed"

\* A Write that holds the lock found the connection open.
SendInv == \A s \in Senders : pc[s] = "sending" => ~isClosed[at[s]]

IInv == TypeOK /\ HubInv /\ CallInv /\ CloseInv /\ SendInv /\ RegisteredWhileServed

-----------------------------------------------------------------------------

LEMMA InitIInv == Init => IInv
<1> SUFFICES ASSUME Init PROVE IInv
  OBVIOUS
<1> USE HubAssumption DEF Init
<1>1. TypeOK
  <2>1. channel \in [Conns -> Seq(Messages)] /\ delivered \in [Conns -> Seq(Messages)]
    OBVIOUS
  <2>2. \A c \in Conns : Len(channel[c]) <= Capacity
    OBVIOUS
  <2> QED
    BY <2>1, <2>2 DEF TypeOK
<1>2. HubInv /\ CallInv /\ CloseInv /\ SendInv /\ RegisteredWhileServed
  BY DEF HubInv, InHub, CallInv, CloseInv, SendInv, RegisteredWhileServed, Registered
<1> QED
  BY <1>1, <1>2 DEF IInv

Labels == {"idle", "locking", "iterating", "writing", "sending"}

\* Steps of a sender that leave the channels alone.
LEMMA SendStep ==
  ASSUME IInv, NEW s \in Senders, Send(s)
  PROVE  IInv'
<1> USE HubAssumption DEF Send, indexVars, workerVars
<1>0. Unsent \subseteq Messages
  BY DEF Unsent
<1>1. TypeOK'
  BY <1>0 DEF IInv, TypeOK
<1>2. HubInv' /\ CallInv' /\ SendInv'
  BY <1>0 DEF IInv, TypeOK, HubInv, InHub, CallInv, SendInv
<1>3. CloseInv' /\ RegisteredWhileServed'
  BY DEF IInv, CloseInv, RegisteredWhileServed, Registered
<1> QED
  BY <1>1, <1>2, <1>3 DEF IInv

LEMMA HubLockStep ==
  ASSUME IInv, NEW s \in Senders, HubLock(s)
  PROVE  IInv'
<1> USE HubAssumption DEF HubLock, indexVars, workerVars
<1>1. TypeOK'
  <2>1. Addressed(audience[s]) \subseteq Conns
    BY DEF IInv, TypeOK, Addressed
  <2> QED
    BY <2>1 DEF IInv, TypeOK
<1>2. HubInv' /\ CallInv' /\ SendInv'
  BY DEF IInv, TypeOK, HubInv, InHub, CallInv, SendInv
<1>3. CloseInv' /\ RegisteredWhileServed'
  BY DEF IInv, CloseInv, RegisteredWhileServed, Registered
<1> QED
  BY <1>1, <1>2, <1>3 DEF IInv

LEMMA NextConnectionStep ==
  ASSUME IInv, NEW s \in Senders, NextConnection(s)
  PROVE  IInv'
<1> USE HubAssumption DEF NextConnection, indexVars, workerVars
<1>1. TypeOK'
  BY DEF IInv, TypeOK
<1>2. HubInv' /\ CallInv' /\ SendInv'
  BY DEF IInv, TypeOK, HubInv, InHub, CallInv, SendInv
<1>3. CloseInv' /\ RegisteredWhileServed'
  BY DEF IInv, CloseInv, RegisteredWhileServed, Registered
<1> QED
  BY <1>1, <1>2, <1>3 DEF IInv

LEMMA WriteLockStep ==
  ASSUME IInv, NEW s \in Senders, WriteLock(s)
  PROVE  IInv'
<1> USE HubAssumption DEF indexVars, workerVars
<1>1. PICK c \in Conns : c = at[s]
  BY DEF IInv, CallInv, WriteLock
<1>0. /\ pc[s] = "writing"
      /\ writeLock[c] = None
      /\ UNCHANGED <<hubMutex, msg, audience, todo, handler, isClosed,
                     chanClosed, channel>>
      /\ UNCHANGED <<connections, members, group>>
      /\ UNCHANGED <<cancelled, reader, writer, peer, delivered>>
  BY <1>1 DEF WriteLock
<1>2. CASE isClosed[c]
  <2>0. /\ pc' = [pc EXCEPT ![s] = "iterating"]
        /\ at' = [at EXCEPT ![s] = None]
        /\ UNCHANGED writeLock
    BY <1>1, <1>2 DEF WriteLock
  <2>1. TypeOK'
    BY <1>0, <1>1, <1>2, <2>0 DEF IInv, TypeOK
  <2>2. HubInv' /\ CallInv' /\ SendInv'
    BY <1>0, <1>1, <1>2, <2>0 DEF IInv, TypeOK, HubInv, InHub, CallInv, SendInv
  <2>3. CloseInv' /\ RegisteredWhileServed'
    BY <1>0, <1>1, <1>2, <2>0 DEF IInv, CloseInv, RegisteredWhileServed, Registered
  <2> QED
    BY <2>1, <2>2, <2>3 DEF IInv
<1>3. CASE ~isClosed[c]
  <2>0. /\ pc' = [pc EXCEPT ![s] = "sending"]
        /\ writeLock' = [writeLock EXCEPT ![c] = s]
        /\ UNCHANGED at
    BY <1>1, <1>3 DEF WriteLock
  <2>1. TypeOK'
    BY <1>0, <1>1, <1>3, <2>0 DEF IInv, TypeOK
  <2>2. HubInv' /\ SendInv'
    BY <1>0, <1>1, <1>3, <2>0 DEF IInv, TypeOK, HubInv, InHub, SendInv
  <2>3. CallInv'
    <3>1. \A r \in Senders \ {s} : pc[r] = "sending" => at[r] # c
      BY <1>0 DEF IInv, CallInv
    <3> QED
      BY <1>0, <1>1, <1>3, <2>0, <3>1 DEF IInv, TypeOK, CallInv
  <2>4. CloseInv' /\ RegisteredWhileServed'
    BY <1>0, <1>1, <1>3, <2>0 DEF IInv, TypeOK, CloseInv, RegisteredWhileServed, Registered
  <2> QED
    BY <2>1, <2>2, <2>3, <2>4 DEF IInv
<1> QED
  BY <1>2, <1>3

LEMMA EnqueueStep ==
  ASSUME IInv, NEW s \in Senders, Enqueue(s)
  PROVE  IInv'
<1> USE HubAssumption DEF Enqueue, Unlocked, indexVars, workerVars
<1>1. at[s] \in Conns /\ msg[s] \in Messages /\ writeLock[at[s]] = s
  BY DEF IInv, CallInv
<1>2. TypeOK'
  <2>1. channel[at[s]] \in Seq(Messages)
    BY <1>1 DEF IInv, TypeOK
  <2>2. /\ Append(channel[at[s]], msg[s]) \in Seq(Messages)
        /\ Len(Append(channel[at[s]], msg[s])) = Len(channel[at[s]]) + 1
    BY <1>1, <2>1
  <2>3. channel' \in [Conns -> Seq(Messages)]
    BY <2>2 DEF IInv, TypeOK
  <2>4. \A c \in Conns : Len(channel'[c]) <= Capacity
    BY <2>1, <2>2 DEF IInv, TypeOK
  <2>5. /\ writeLock' \in [Conns -> Senders \cup Conns \cup {None}]
        /\ pc' \in [Senders -> Labels]
        /\ at' \in [Senders -> Conns \cup {None}]
    BY <1>1 DEF IInv, TypeOK, Labels
  <2> QED
    BY <2>3, <2>4, <2>5 DEF IInv, TypeOK, Labels
<1>3. HubInv' /\ CallInv' /\ SendInv'
  BY <1>1 DEF IInv, TypeOK, HubInv, InHub, CallInv, SendInv
<1>4. CloseInv' /\ RegisteredWhileServed'
  BY <1>1 DEF IInv, TypeOK, CloseInv, RegisteredWhileServed, Registered
<1> QED
  BY <1>2, <1>3, <1>4 DEF IInv

LEMMA HubUnlockStep ==
  ASSUME IInv, NEW s \in Senders, HubUnlock(s)
  PROVE  IInv'
<1> USE HubAssumption DEF HubUnlock, indexVars, workerVars
<1>1. TypeOK'
  BY DEF IInv, TypeOK
<1>2. HubInv' /\ CallInv' /\ SendInv'
  BY DEF IInv, TypeOK, HubInv, InHub, CallInv, SendInv
<1>3. CloseInv' /\ RegisteredWhileServed'
  BY DEF IInv, CloseInv, RegisteredWhileServed, Registered
<1> QED
  BY <1>1, <1>2, <1>3 DEF IInv

-----------------------------------------------------------------------------

\* Steps of a handler.
LEMMA HandlerSteps ==
  ASSUME IInv, NEW c \in Conns, Accept(c) \/ HandlerStep(c)
  PROVE  IInv'
<1> USE HubAssumption DEF senderVars, indexVars, workerVars
<1>1. CASE Accept(c)
  <2>1. TypeOK'
    BY <1>1 DEF IInv, TypeOK, Accept
  <2>2. HubInv' /\ CallInv' /\ SendInv' /\ CloseInv'
    BY <1>1 DEF IInv, TypeOK, HubInv, InHub, CallInv, SendInv, CloseInv, Accept
  <2>3. RegisteredWhileServed'
    BY <1>1 DEF IInv, TypeOK, RegisteredWhileServed, Registered, Accept
  <2> QED
    BY <2>1, <2>2, <2>3 DEF IInv
<1>2. CASE AddConnection(c)
  <2>0. group[c] \in Groups
    BY <1>2 DEF IInv, CloseInv, AddConnection
  <2>1. TypeOK'
    BY <1>2, <2>0 DEF IInv, TypeOK, AddConnection
  <2>2. HubInv' /\ CallInv' /\ SendInv' /\ CloseInv'
    BY <1>2 DEF IInv, TypeOK, HubInv, InHub, CallInv, SendInv, CloseInv, AddConnection
  <2>3. RegisteredWhileServed'
    BY <1>2, <2>0 DEF IInv, TypeOK, RegisteredWhileServed, Registered, AddConnection
  <2> QED
    BY <2>1, <2>2, <2>3 DEF IInv
<1>3. CASE WaitReturns(c)
  <2>1. TypeOK'
    BY <1>3 DEF IInv, TypeOK, WaitReturns
  <2>2. HubInv' /\ CallInv' /\ SendInv' /\ CloseInv'
    BY <1>3 DEF IInv, TypeOK, HubInv, InHub, CallInv, SendInv, CloseInv, WaitReturns
  <2>3. RegisteredWhileServed'
    BY <1>3 DEF IInv, TypeOK, RegisteredWhileServed, Registered, WaitReturns
  <2> QED
    BY <2>1, <2>2, <2>3 DEF IInv
<1>4. CASE CloseLock(c)
  <2>1. TypeOK'
    BY <1>4 DEF IInv, TypeOK, CloseLock
  <2>2. HubInv' /\ CallInv' /\ SendInv' /\ CloseInv'
    BY <1>4 DEF IInv, TypeOK, HubInv, InHub, CallInv, SendInv, CloseInv, CloseLock
  <2>3. RegisteredWhileServed'
    BY <1>4 DEF IInv, TypeOK, RegisteredWhileServed, Registered, CloseLock
  <2> QED
    BY <2>1, <2>2, <2>3 DEF IInv
<1>5. CASE RemoveConnection(c)
  <2>0. group[c] \in Groups
    BY <1>5 DEF IInv, CloseInv, RemoveConnection
  <2>1. TypeOK'
    BY <1>5, <2>0 DEF IInv, TypeOK, RemoveConnection
  <2>2. HubInv' /\ CallInv' /\ SendInv' /\ CloseInv'
    BY <1>5 DEF IInv, TypeOK, HubInv, InHub, CallInv, SendInv, CloseInv, RemoveConnection
  <2>3. RegisteredWhileServed'
    BY <1>5, <2>0 DEF IInv, TypeOK, RegisteredWhileServed, Registered, RemoveConnection
  <2> QED
    BY <2>1, <2>2, <2>3 DEF IInv
<1>6. CASE CloseChannel(c)
  <2>1. TypeOK'
    BY <1>6 DEF IInv, TypeOK, CloseChannel
  <2>2. HubInv' /\ CallInv' /\ SendInv' /\ CloseInv'
    BY <1>6 DEF IInv, TypeOK, HubInv, InHub, CallInv, SendInv, CloseInv, CloseChannel
  <2>3. RegisteredWhileServed'
    BY <1>6 DEF IInv, TypeOK, RegisteredWhileServed, Registered, CloseChannel
  <2> QED
    BY <2>1, <2>2, <2>3 DEF IInv
<1> QED
  BY <1>1, <1>2, <1>3, <1>4, <1>5, <1>6 DEF HandlerStep

\* Steps of the workers and of the client: only types can be disturbed.
LEMMA WorkerSteps ==
  ASSUME IInv, NEW c \in Conns,
         \/ ReadFails(c) \/ ReadStops(c) \/ WriterStep(c)
         \/ PeerStalls(c) \/ PeerLeaves(c)
  PROVE  IInv'
<1> USE DEF ReadFails, ReadStops, ReaderExits, WriterStep, TakeMessage,
            WriteStops, WriteSucceeds, WriteFails, WriterExits, PeerStalls,
            PeerLeaves, PeerFrame
<1>1. WorkerFrame
  OBVIOUS
<1>2. channel' \in [Conns -> Seq(Messages)] /\ \A d \in Conns : Len(channel'[d]) <= Capacity
  <2>1. CASE TakeMessage(c)
    <3>1. channel[c] \in Seq(Messages) /\ channel[c] # <<>>
      BY <2>1 DEF IInv, TypeOK
    <3>2. Tail(channel[c]) \in Seq(Messages) /\ Len(Tail(channel[c])) = Len(channel[c]) - 1
      BY <3>1
    <3>3. channel' = [channel EXCEPT ![c] = Tail(channel[c])]
      BY <2>1
    <3>4. Len(Tail(channel[c])) <= Capacity
      BY <3>1, <3>2, HubAssumption DEF IInv, TypeOK
    <3>5. channel \in [Conns -> Seq(Messages)] /\ \A d \in Conns : Len(channel[d]) <= Capacity
      BY DEF IInv, TypeOK
    <3> HIDE DEF TakeMessage
    <3> QED
      BY <3>2, <3>3, <3>4, <3>5
  <2>2. CASE UNCHANGED channel
    BY <2>2 DEF IInv, TypeOK
  <2> QED
    BY <2>1, <2>2
<1>3. writer' \in [Conns -> Messages \cup {"off", "selecting", "exited"}]
  <2>1. CASE TakeMessage(c)
    <3>1. channel[c] \in Seq(Messages) /\ channel[c] # <<>>
      BY <2>1 DEF IInv, TypeOK
    <3>2. Head(channel[c]) \in Messages
      BY <3>1
    <3> QED
      BY <2>1, <3>2 DEF IInv, TypeOK
  <2>2. CASE ~TakeMessage(c)
    BY <2>2 DEF IInv, TypeOK
  <2> QED
    BY <2>1, <2>2
<1>4. delivered' \in [Conns -> Seq(Messages)]
  <2>1. CASE WriteSucceeds(c)
    <3>1. delivered[c] \in Seq(Messages) /\ writer[c] \in Messages
      BY <2>1 DEF IInv, TypeOK
    <3>2. Append(delivered[c], writer[c]) \in Seq(Messages)
      BY <3>1
    <3> QED
      BY <2>1, <3>2 DEF IInv, TypeOK
  <2>2. CASE UNCHANGED delivered
    BY <2>2 DEF IInv, TypeOK
  <2> QED
    BY <2>1, <2>2
<1>5. /\ cancelled' \in [Conns -> BOOLEAN]
      /\ reader' \in [Conns -> {"off", "reading", "exited"}]
      /\ peer' \in [Conns -> {"connected", "stalled", "gone"}]
  <2>1. cancelled' \in [Conns -> BOOLEAN]
    <3>1. UNCHANGED cancelled \/ cancelled' = [cancelled EXCEPT ![c] = TRUE]
      OBVIOUS
    <3> QED
      BY <3>1 DEF IInv, TypeOK
  <2>2. reader' \in [Conns -> {"off", "reading", "exited"}]
    <3>1. UNCHANGED reader \/ reader' = [reader EXCEPT ![c] = "exited"]
      OBVIOUS
    <3> QED
      BY <3>1 DEF IInv, TypeOK
  <2>3. peer' \in [Conns -> {"connected", "stalled", "gone"}]
    <3>1. \/ UNCHANGED peer
          \/ peer' = [peer EXCEPT ![c] = "stalled"]
          \/ peer' = [peer EXCEPT ![c] = "gone"]
      <4>1. CASE PeerStalls(c)
        BY <4>1
      <4>2. CASE PeerLeaves(c)
        BY <4>2
      <4>3. CASE ~PeerStalls(c) /\ ~PeerLeaves(c)
        <5> HIDE DEF PeerStalls, PeerLeaves
        <5> QED
          BY <4>3
      <4> QED
        BY <4>1, <4>2, <4>3
    <3>2. peer \in [Conns -> {"connected", "stalled", "gone"}]
      BY DEF IInv, TypeOK
    <3> HIDE DEF ReadFails, ReadStops, WriterStep, PeerStalls, PeerLeaves
    <3> QED
      BY <3>1, <3>2
  <2> QED
    BY <2>1, <2>2, <2>3
<1> HIDE DEF ReadFails, ReadStops, ReaderExits, WriterStep, TakeMessage,
            WriteStops, WriteSucceeds, WriteFails, WriterExits, PeerStalls,
            PeerLeaves, PeerFrame
<1> USE DEF WorkerFrame, senderVars, indexVars
<1>6. TypeOK'
  BY <1>1, <1>2, <1>3, <1>4, <1>5 DEF IInv, TypeOK
<1>7. HubInv' /\ CallInv' /\ SendInv' /\ CloseInv' /\ RegisteredWhileServed'
  BY <1>1 DEF IInv, HubInv, InHub, CallInv, SendInv, CloseInv,
              RegisteredWhileServed, Registered
<1> QED
  BY <1>6, <1>7 DEF IInv

LEMMA NextIInv == IInv /\ [Next]_vars => IInv'
<1> SUFFICES ASSUME IInv, [Next]_vars PROVE IInv'
  OBVIOUS
<1>1. CASE UNCHANGED vars
  BY <1>1 DEF vars, IInv, TypeOK, HubInv, InHub, CallInv, CloseInv, SendInv,
              RegisteredWhileServed, Registered
<1>2. ASSUME NEW s \in Senders, Send(s) \/ SenderStep(s) PROVE IInv'
  BY <1>2, SendStep, HubLockStep, NextConnectionStep, WriteLockStep,
     EnqueueStep, HubUnlockStep DEF SenderStep
<1>3. ASSUME NEW c \in Conns, Accept(c) \/ HandlerStep(c) PROVE IInv'
  BY <1>3, HandlerSteps
<1>4. ASSUME NEW c \in Conns,
             \/ ReadFails(c) \/ ReadStops(c) \/ WriterStep(c)
             \/ PeerStalls(c) \/ PeerLeaves(c)
      PROVE  IInv'
  BY <1>4, WorkerSteps
<1> QED
  BY <1>1, <1>2, <1>3, <1>4 DEF Next

LEMMA Inductive == Spec => []IInv
<1>1. Init => IInv
  BY InitIInv
<1>2. IInv /\ [Next]_vars => IInv'
  BY NextIInv
<1> QED
  BY <1>1, <1>2, PTL DEF Spec

\* Every state of the hub is well typed, and no channel of a connection is
\* ever filled over its capacity.
THEOREM TypeCorrect == Spec => []TypeOK
<1>1. IInv => TypeOK
  BY DEF IInv
<1> QED
  BY <1>1, Inductive, PTL

\* No goroutine ever sends on the channel of a connection that Close has
\* closed.
THEOREM SendsAreSafe == Spec => []NoSendOnClosedChannel
<1>1. IInv => NoSendOnClosedChannel
  BY DEF IInv, CallInv, CloseInv, SendInv, NoSendOnClosedChannel
<1> QED
  BY <1>1, Inductive, PTL

\* The hub's maps hold exactly the connections whose handlers serve or close.
THEOREM MapsAreExact == Spec => []RegisteredWhileServed
<1>1. IInv => RegisteredWhileServed
  BY DEF IInv
<1> QED
  BY <1>1, Inductive, PTL

-----------------------------------------------------------------------------
(***************************************************************************)
(* What the holder of hub.mutex waits for.                                 *)
(***************************************************************************)

\* A write lock is held by the sender that sends on its channel, or by the
\* connection's own handler.
LockInv ==
  \A c \in Conns :
    /\ writeLock[c] \in Conns => writeLock[c] = c
    /\ \A s \in Senders : writeLock[c] = s => pc[s] = "sending" /\ at[s] = c

\* While a sender is in the hub, whom it has still to write to stays there.
TodoInv ==
  \A s \in Senders :
    /\ InHub(s) => todo[s] \subseteq connections
    /\ pc[s] \in {"writing", "sending"} => at[s] \in connections

\* The workers run from AddConnection on, and have ended when Wg.Wait returns.
WorkerInv ==
  \A c \in Conns :
    /\ handler[c] \notin {"absent", "adding"} => writer[c] # "off"
    /\ handler[c] \in {"closing", "removing", "ending", "closed"} =>
         reader[c] = "exited" /\ writer[c] = "exited"

WaitInv == LockInv /\ TodoInv /\ WorkerInv

Full(c) == Len(channel[c]) >= Capacity

\* The sender can take its next step.
MayStep(s) ==
  \/ pc[s] = "iterating"
  \/ pc[s] = "writing" /\ writeLock[at[s]] = None
  \/ pc[s] = "sending" /\ ~Full(at[s])

\* It waits for the connection's write worker, which can take its next step.
IsServed(s) ==
  /\ pc[s] = "sending" /\ Full(at[s])
  /\ \/ writer[at[s]] = "selecting" /\ channel[at[s]] # <<>>
     \/ writer[at[s]] \in Messages /\ peer[at[s]] = "connected"

\* Its connection is being closed by a handler that holds the write lock and
\* waits for hub.mutex: they wait for each other.
LocksAreInverted(s) ==
  /\ pc[s] = "writing" /\ handler[at[s]] = "removing"
  /\ writeLock[at[s]] = at[s] /\ hubMutex = s
  /\ reader[at[s]] = "exited" /\ writer[at[s]] = "exited"

\* The channel is full, and the client does not read or the worker that
\* would empty it has ended.
NobodyReads(s) ==
  /\ pc[s] = "sending" /\ Full(at[s])
  /\ peer[at[s]] # "connected" \/ writer[at[s]] = "exited"

\* The goroutine that holds hub.mutex, and everyone who waits for it, goes on
\* but in these two cases.
HolderGoesOn ==
  \A s \in Senders : hubMutex = s =>
    MayStep(s) \/ IsServed(s) \/ LocksAreInverted(s) \/ NobodyReads(s)

LEMMA WaitInit == Init => WaitInv
BY HubAssumption DEF Init, WaitInv, LockInv, TodoInv, InHub, WorkerInv

\* Senders move their own obligations only, and one of them at a time.
LEMMA SenderKeepsWaits ==
  ASSUME IInv, WaitInv, NEW s \in Senders, Send(s) \/ SenderStep(s)
  PROVE  WaitInv'
<1> USE HubAssumption
<1>0. /\ pc \in [Senders -> Labels] /\ at \in [Senders -> Conns \cup {None}]
      /\ todo \in [Senders -> SUBSET Conns]
      /\ writeLock \in [Conns -> Senders \cup Conns \cup {None}]
  BY DEF IInv, TypeOK, Labels
<1>1. UNCHANGED <<handler, reader, writer, connections>>
  BY DEF Send, SenderStep, HubLock, NextConnection, WriteLock, Enqueue, HubUnlock,
     workerVars, indexVars
<1>2. WorkerInv'
  BY <1>1 DEF WaitInv, WorkerInv
<1>3. CASE Send(s)
  <2>1. pc[s] = "idle" /\ pc' = [pc EXCEPT ![s] = "locking"]
        /\ UNCHANGED <<writeLock, todo, at>>
    BY <1>3 DEF Send
  <2>2. LockInv'
    BY <1>0, <2>1 DEF WaitInv, LockInv
  <2>3. TodoInv'
    BY <1>0, <1>1, <2>1 DEF WaitInv, TodoInv, InHub
  <2> QED
    BY <1>2, <2>2, <2>3 DEF WaitInv
<1>4. CASE HubLock(s)
  <2>1. /\ pc[s] = "locking" /\ pc' = [pc EXCEPT ![s] = "iterating"]
        /\ todo' = [todo EXCEPT ![s] = Addressed(audience[s])]
        /\ UNCHANGED <<writeLock, at>>
    BY <1>4 DEF HubLock
  <2>2. LockInv'
    BY <1>0, <2>1 DEF WaitInv, LockInv
  <2>3. Addressed(audience[s]) \subseteq connections
    BY DEF Addressed
  <2>4. TodoInv'
    BY <1>0, <1>1, <2>1, <2>3 DEF WaitInv, TodoInv, InHub
  <2> QED
    BY <1>2, <2>2, <2>4 DEF WaitInv
<1>5. CASE NextConnection(s)
  <2>1. PICK c \in todo[s] : /\ at' = [at EXCEPT ![s] = c]
                            /\ todo' = [todo EXCEPT ![s] = todo[s] \ {c}]
    BY <1>5 DEF NextConnection
  <2>2. /\ pc[s] = "iterating" /\ pc' = [pc EXCEPT ![s] = "writing"]
        /\ UNCHANGED writeLock
    BY <1>5 DEF NextConnection
  <2>3. LockInv'
    BY <1>0, <2>1, <2>2 DEF WaitInv, LockInv
  <2>4. TodoInv'
    BY <1>0, <1>1, <2>1, <2>2 DEF WaitInv, TodoInv, InHub
  <2> QED
    BY <1>2, <2>3, <2>4 DEF WaitInv
<1>6. CASE WriteLock(s)
  <2>1. /\ pc[s] = "writing" /\ writeLock[at[s]] = None /\ UNCHANGED todo
        /\ \/ /\ pc' = [pc EXCEPT ![s] = "iterating"] /\ UNCHANGED writeLock
              /\ at' = [at EXCEPT ![s] = None]
           \/ /\ pc' = [pc EXCEPT ![s] = "sending"] /\ UNCHANGED at
              /\ writeLock' = [writeLock EXCEPT ![at[s]] = s]
    BY <1>6 DEF WriteLock
  <2>2. LockInv'
    BY <1>0, <2>1 DEF WaitInv, LockInv
  <2>3. TodoInv'
    BY <1>0, <1>1, <2>1 DEF WaitInv, TodoInv, InHub
  <2> QED
    BY <1>2, <2>2, <2>3 DEF WaitInv
<1>7. CASE Enqueue(s)
  <2>1. /\ pc[s] = "sending" /\ pc' = [pc EXCEPT ![s] = "iterating"] /\ UNCHANGED todo
        /\ writeLock' = [writeLock EXCEPT ![at[s]] = None]
        /\ at' = [at EXCEPT ![s] = None]
    BY <1>7 DEF Enqueue, Unlocked
  <2>2. LockInv'
    BY <1>0, <2>1 DEF WaitInv, LockInv
  <2>3. TodoInv'
    BY <1>0, <1>1, <2>1 DEF WaitInv, TodoInv, InHub
  <2> QED
    BY <1>2, <2>2, <2>3 DEF WaitInv
<1>8. CASE HubUnlock(s)
  <2>1. /\ pc[s] = "iterating" /\ pc' = [pc EXCEPT ![s] = "idle"]
        /\ UNCHANGED <<writeLock, todo, at>>
    BY <1>8 DEF HubUnlock
  <2>2. LockInv'
    BY <1>0, <2>1 DEF WaitInv, LockInv
  <2>3. TodoInv'
    BY <1>0, <1>1, <2>1 DEF WaitInv, TodoInv, InHub
  <2> QED
    BY <1>2, <2>2, <2>3 DEF WaitInv
<1> QED
  BY <1>3, <1>4, <1>5, <1>6, <1>7, <1>8 DEF SenderStep

\* A connection leaves the maps only while no sender is in the hub.
LEMMA HandlerKeepsWaits ==
  ASSUME IInv, WaitInv, NEW c \in Conns, Accept(c) \/ HandlerStep(c)
  PROVE  WaitInv'
<1> USE HubAssumption
<1>0. /\ handler \in [Conns -> {"absent", "adding", "serving", "closing",
                                "removing", "ending", "closed"}]
      /\ DOMAIN reader = Conns /\ DOMAIN writer = Conns
      /\ writeLock \in [Conns -> Senders \cup Conns \cup {None}]
      /\ hubMutex \in Senders \cup {None}
  BY DEF IInv, TypeOK
<1>1. UNCHANGED senderVars
  BY DEF HandlerStep, Accept, AddConnection, WaitReturns, CloseLock, RemoveConnection,
     CloseChannel
<1>2. LockInv'
  <2>1. \/ UNCHANGED writeLock
        \/ writeLock' = [writeLock EXCEPT ![c] = c]
        \/ writeLock' = [writeLock EXCEPT ![c] = None]
    BY DEF HandlerStep, Accept, AddConnection, WaitReturns, CloseLock, RemoveConnection,
       CloseChannel, workerVars
  <2> QED
    BY <1>0, <1>1, <2>1 DEF senderVars, WaitInv, LockInv
<1>3. TodoInv'
  <2>1. CASE RemoveConnection(c)
    <3>1. hubMutex = None
      BY <2>1 DEF RemoveConnection
    <3>2. \A s \in Senders : ~InHub(s)
      BY <3>1 DEF IInv, HubInv
    <3> QED
      BY <1>1, <3>2 DEF senderVars, TodoInv, InHub
  <2>2. connections \subseteq connections' \/ RemoveConnection(c)
    BY DEF HandlerStep, Accept, AddConnection, WaitReturns, CloseLock, CloseChannel,
       workerVars, indexVars
  <2> QED
    BY <1>1, <2>1, <2>2 DEF senderVars, WaitInv, TodoInv, InHub
<1>4. WorkerInv'
  <2>1. CASE AddConnection(c)
    <3>1. /\ handler' = [handler EXCEPT ![c] = "serving"]
          /\ writer' = [writer EXCEPT ![c] = "selecting"]
          /\ reader' = [reader EXCEPT ![c] = "reading"]
      BY <2>1 DEF AddConnection
    <3> QED
      BY <1>0, <3>1 DEF WaitInv, WorkerInv
  <2>2. CASE WaitReturns(c)
    <3>1. /\ handler' = [handler EXCEPT ![c] = "closing"]
          /\ reader[c] = "exited" /\ writer[c] = "exited"
          /\ UNCHANGED <<reader, writer>>
      BY <2>2 DEF WaitReturns, workerVars
    <3> QED
      BY <1>0, <3>1 DEF WaitInv, WorkerInv
  <2>3. CASE Accept(c)
    <3>1. handler' = [handler EXCEPT ![c] = "adding"] /\ UNCHANGED <<reader, writer>>
      BY <2>3 DEF Accept, workerVars
    <3> QED
      BY <1>0, <3>1 DEF WaitInv, WorkerInv
  <2>4. CASE CloseLock(c) \/ RemoveConnection(c) \/ CloseChannel(c)
    <3>1. PICK h \in {"removing", "ending", "closed"} :
            /\ handler' = [handler EXCEPT ![c] = h]
            /\ handler[c] \in {"closing", "removing", "ending"}
            /\ UNCHANGED <<reader, writer>>
      BY <2>4 DEF CloseLock, RemoveConnection, CloseChannel, workerVars
    <3> QED
      BY <1>0, <3>1 DEF WaitInv, WorkerInv
  <2> QED
    BY <2>1, <2>2, <2>3, <2>4 DEF HandlerStep
<1> QED
  BY <1>2, <1>3, <1>4 DEF WaitInv

\* A worker that has ended takes no further step.
LEMMA WorkerKeepsWaits ==
  ASSUME IInv, WaitInv, NEW c \in Conns,
         \/ ReadFails(c) \/ ReadStops(c) \/ WriterStep(c)
         \/ PeerStalls(c) \/ PeerLeaves(c)
  PROVE  WaitInv'
<1> USE HubAssumption
<1>1. /\ WorkerFrame
      /\ \/ UNCHANGED reader
         \/ reader[c] # "exited" /\ reader' = [reader EXCEPT ![c] = "exited"]
      /\ \/ UNCHANGED writer
         \/ /\ writer[c] # "exited"
            /\ \E v \in Messages \cup {"selecting", "exited"} :
                 writer' = [writer EXCEPT ![c] = v]
  <2>1. CASE ReadFails(c) \/ ReadStops(c)
    BY <2>1 DEF ReadFails, ReadStops, ReaderExits
  <2>2. CASE TakeMessage(c)
    <3>1. Head(channel[c]) \in Messages
      BY <2>2 DEF TakeMessage, IInv, TypeOK
    <3> QED
      BY <2>2, <3>1 DEF TakeMessage
  <2>3. CASE WriteStops(c) \/ WriteFails(c)
    BY <2>3 DEF WriteStops, WriteFails, WriterExits
  <2>4. CASE WriteSucceeds(c)
    BY <2>4 DEF WriteSucceeds
  <2>5. CASE PeerStalls(c) \/ PeerLeaves(c)
    BY <2>5 DEF PeerStalls, PeerLeaves, PeerFrame
  <2> QED
    BY <2>1, <2>2, <2>3, <2>4, <2>5 DEF WriterStep
<1>2. LockInv' /\ TodoInv'
  BY <1>1 DEF WorkerFrame, senderVars, indexVars, WaitInv, LockInv, TodoInv, InHub
<1>3. WorkerInv'
  BY <1>1 DEF WorkerFrame, WaitInv, WorkerInv, IInv, TypeOK
<1> QED
  BY <1>2, <1>3 DEF WaitInv

LEMMA NextWaits == IInv /\ WaitInv /\ [Next]_vars => WaitInv'
<1> SUFFICES ASSUME IInv, WaitInv, [Next]_vars PROVE WaitInv'
  OBVIOUS
<1>1. CASE UNCHANGED vars
  BY <1>1 DEF vars, WaitInv, LockInv, TodoInv, InHub, WorkerInv
<1>2. ASSUME NEW s \in Senders, Send(s) \/ SenderStep(s) PROVE WaitInv'
  BY <1>2, SenderKeepsWaits
<1>3. ASSUME NEW c \in Conns, Accept(c) \/ HandlerStep(c) PROVE WaitInv'
  BY <1>3, HandlerKeepsWaits
<1>4. ASSUME NEW c \in Conns,
             \/ ReadFails(c) \/ ReadStops(c) \/ WriterStep(c)
             \/ PeerStalls(c) \/ PeerLeaves(c)
      PROVE  WaitInv'
  BY <1>4, WorkerKeepsWaits
<1> QED
  BY <1>1, <1>2, <1>3, <1>4 DEF Next

\* The hub keeps its mutex over blocking writes; what blocks the holder, and
\* with it the hub, is a client that does not read, a channel left full by a
\* worker that failed, or the handler of the connection, which takes the two
\* locks in the other order - and nothing else, for any number of senders and
\* connections.
THEOREM HubBlocksOnlySo == Spec => []HolderGoesOn
<1>1. Init => WaitInv
  BY WaitInit
<1>2. IInv /\ WaitInv /\ [Next]_vars => WaitInv'
  BY NextWaits
<1>3. IInv /\ WaitInv => HolderGoesOn
  <2> SUFFICES ASSUME IInv, WaitInv, NEW s \in Senders, hubMutex = s
               PROVE  MayStep(s) \/ IsServed(s) \/ LocksAreInverted(s) \/ NobodyReads(s)
    BY DEF HolderGoesOn
  <2>1. InHub(s) /\ \A r \in Senders : InHub(r) => r = s
    BY DEF IInv, HubInv
  <2>2. CASE pc[s] = "iterating"
    BY <2>2 DEF MayStep
  <2>3. CASE pc[s] = "writing"
    <3>1. at[s] \in Conns /\ Registered(at[s])
      BY <2>3 DEF IInv, CallInv, WaitInv, TodoInv, RegisteredWhileServed
    <3>2. CASE writeLock[at[s]] = None
      BY <2>3, <3>2 DEF MayStep
    <3>3. CASE writeLock[at[s]] \in Senders
      <4>1. pc[writeLock[at[s]]] = "sending"
        BY <3>1, <3>3 DEF WaitInv, LockInv
      <4>2. InHub(writeLock[at[s]])
        BY <4>1 DEF InHub
      <4> QED
        BY <2>1, <2>3, <3>3, <4>1, <4>2
    <3>4. CASE writeLock[at[s]] \in Conns
      <4>1. writeLock[at[s]] = at[s]
        BY <3>1, <3>4 DEF WaitInv, LockInv
      <4>2. handler[at[s]] = "removing"
        BY <3>1, <4>1 DEF IInv, CloseInv, Registered
      <4>3. reader[at[s]] = "exited" /\ writer[at[s]] = "exited"
        BY <3>1, <4>2 DEF WaitInv, WorkerInv
      <4> QED
        BY <2>3, <4>1, <4>2, <4>3 DEF LocksAreInverted
    <3> QED
      BY <3>1, <3>2, <3>3, <3>4 DEF IInv, TypeOK
  <2>4. CASE pc[s] = "sending"
    <3>1. at[s] \in Conns /\ Registered(at[s])
      BY <2>4 DEF IInv, CallInv, WaitInv, TodoInv, RegisteredWhileServed
    <3>2. writer[at[s]] \in Messages \cup {"selecting", "exited"}
      BY <3>1 DEF Registered, WaitInv, WorkerInv, IInv, TypeOK
    <3>3. Full(at[s]) => channel[at[s]] # <<>>
      BY HubAssumption DEF Full
    <3> QED
      BY <2>4, <3>2, <3>3 DEF MayStep, IsServed, NobodyReads
  <2> QED
    BY <2>1, <2>2, <2>3, <2>4 DEF InHub
<1> QED
  BY <1>1, <1>2, <1>3, Inductive, PTL DEF Spec

=============================================================================
