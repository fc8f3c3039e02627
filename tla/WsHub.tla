-------------------------------- MODULE WsHub --------------------------------
(***************************************************************************)
(* The websocket hub of sebastian/controller/ws/wsconn and the handler of  *)
(* a connection in controller/ws/route.go.  A sender is a goroutine that   *)
(* answers or notifies clients: it holds hub.mutex while it writes to each *)
(* connection it addresses, and a write takes the connection's writeLock   *)
(* and sends on its bounded channel.  The handler of a connection, when it *)
(* closes, takes writeLock first and then hub.mutex.                       *)
(*                                                                         *)
(* The socket and the client behind it are external: a client is           *)
(* connected, has stopped reading, or has gone.                            *)
(***************************************************************************)
EXTENDS Naturals, Sequences

CONSTANTS
  Senders,   \* goroutines that call the hub
  Conns,     \* websocket connections; each is opened at most once (a bound)
  Groups,    \* project ids, and ProjectIdNone for the system connections
  All,       \* the audience of Broadcast
  Messages,  \* each is sent at most once (a bound)
  Capacity,  \* defaultWriteChannelSize
  None       \* no holder / no message / no connection / no group

ASSUME HubAssumption ==
  /\ Capacity \in Nat \ {0}
  /\ None \notin Senders \cup Conns \cup Messages \cup Groups
  /\ Senders \cap Conns = {}
  /\ Conns \cap Groups = {}
  /\ All \notin Conns \cup Groups
  /\ Messages \cap {"off", "selecting", "exited"} = {}

VARIABLES
  hubMutex,    \* who holds hub.mutex: a sender, or None
  writeLock,   \* who holds each connection's writeLock: a sender, the
               \* connection's own handler, or None
  connections, \* hub.connections
  members,     \* hub.projectIdMap and, at ProjectIdNone, hub.systemMap
  pc,          \* each sender: idle, locking, iterating, writing, sending
  msg,         \* the message of each sender
  audience,    \* whom it addresses: a connection, a group or All
  todo,        \* connections it has still to write to
  at,          \* the connection it writes to
  handler,     \* each handler: absent, adding, serving, closing, removing,
               \* ending, closed
  group,       \* conn.ProjectId
  isClosed,    \* conn.isClosed
  chanClosed,  \* close(conn.writeChan) has happened
  channel,     \* content of conn.writeChan
  cancelled,   \* conn.ctx is done
  reader,      \* ReadWorker: off, reading, exited
  writer,      \* WriteWorker: off, selecting, exited, or the message it writes
  peer,        \* the client: connected, stalled (no longer reads), gone
  delivered    \* history: messages written to the socket

senderVars == <<pc, msg, audience, todo, at>>
workerVars == <<cancelled, reader, writer, peer, delivered>>
indexVars  == <<connections, members, group>>
vars == <<hubMutex, writeLock, connections, members, pc, msg, audience, todo,
          at, handler, group, isClosed, chanClosed, channel, cancelled, reader,
          writer, peer, delivered>>

Init ==
  /\ hubMutex = None
  /\ writeLock = [c \in Conns |-> None]
  /\ connections = {}
  /\ members = [g \in Groups |-> {}]
  /\ pc = [s \in Senders |-> "idle"]
  /\ msg = [s \in Senders |-> None]
  /\ audience = [s \in Senders |-> None]
  /\ todo = [s \in Senders |-> {}]
  /\ at = [s \in Senders |-> None]
  /\ handler = [c \in Conns |-> "absent"]
  /\ group = [c \in Conns |-> None]
  /\ isClosed = [c \in Conns |-> FALSE]
  /\ chanClosed = [c \in Conns |-> FALSE]
  /\ channel = [c \in Conns |-> <<>>]
  /\ cancelled = [c \in Conns |-> FALSE]
  /\ reader = [c \in Conns |-> "off"]
  /\ writer = [c \in Conns |-> "off"]
  /\ peer = [c \in Conns |-> "connected"]
  /\ delivered = [c \in Conns |-> <<>>]

-----------------------------------------------------------------------------
(***************************************************************************)
(* Senders.                                                                *)
(***************************************************************************)

SocketMessages(c) ==
  IF writer[c] \in Messages THEN Append(delivered[c], writer[c])
                            ELSE delivered[c]

\* What connection c has been given so far, in order.
Stream(c) == SocketMessages(c) \o channel[c]

InStream(m, c) == \E i \in 1..Len(Stream(c)) : Stream(c)[i] = m

Unsent == {m \in Messages :
             /\ \A s \in Senders : msg[s] # m
             /\ \A c \in Conns : ~InStream(m, c)}

\* A goroutine calls Unicast, MulticastToSpecifiedProjectId,
\* MulticastToSystem or Broadcast and blocks on hub.mutex.
Send(s) ==
  /\ pc[s] = "idle"
  /\ \E m \in Unsent : msg' = [msg EXCEPT ![s] = m]
  /\ \E a \in Conns \cup Groups \cup {All} :
       audience' = [audience EXCEPT ![s] = a]
  /\ pc' = [pc EXCEPT ![s] = "locking"]
  /\ UNCHANGED <<hubMutex, writeLock, todo, at, handler, isClosed, chanClosed,
                 channel>>
  /\ UNCHANGED indexVars
  /\ UNCHANGED workerVars

\* The registered connections an audience stands for; an unknown id or
\* project has none.
Addressed(a) ==
  {c \in connections : a = All \/ a = c \/ (a \in Groups /\ c \in members[a])}

\* FAULT: the connections are copied under the mutex and written to after it
\* has been released.
HubLockCopies(s) ==
  /\ pc[s] = "locking"
  /\ hubMutex = None
  /\ todo' = [todo EXCEPT ![s] = Addressed(audience[s])]
  /\ pc' = [pc EXCEPT ![s] = "iterating"]
  /\ UNCHANGED <<hubMutex, writeLock, msg, audience, at, handler, isClosed,
                 chanClosed, channel>>
  /\ UNCHANGED indexVars
  /\ UNCHANGED workerVars

\* hub.mutex.Lock() and the lookup in the maps.
HubLock(s) ==
  /\ pc[s] = "locking"
  /\ hubMutex = None
  /\ hubMutex' = s
  /\ todo' = [todo EXCEPT ![s] = Addressed(audience[s])]
  /\ pc' = [pc EXCEPT ![s] = "iterating"]
  /\ UNCHANGED <<writeLock, msg, audience, at, handler, isClosed, chanClosed,
                 channel>>
  /\ UNCHANGED indexVars
  /\ UNCHANGED workerVars

\* The loop's next connection: conn.Write blocks on its writeLock.
NextConnection(s) ==
  /\ pc[s] = "iterating"
  /\ \E c \in todo[s] :
       /\ at' = [at EXCEPT ![s] = c]
       /\ todo' = [todo EXCEPT ![s] = @ \ {c}]
  /\ pc' = [pc EXCEPT ![s] = "writing"]
  /\ UNCHANGED <<hubMutex, writeLock, msg, audience, handler, isClosed,
                 chanClosed, channel>>
  /\ UNCHANGED indexVars
  /\ UNCHANGED workerVars

\* conn.writeLock.Lock(); on a closed connection Write returns an error,
\* which the hub logs.
WriteLock(s) ==
  /\ pc[s] = "writing"
  /\ writeLock[at[s]] = None
  /\ IF isClosed[at[s]]
       THEN /\ pc' = [pc EXCEPT ![s] = "iterating"]
            /\ at' = [at EXCEPT ![s] = None]
            /\ UNCHANGED writeLock
       ELSE /\ pc' = [pc EXCEPT ![s] = "sending"]
            /\ writeLock' = [writeLock EXCEPT ![at[s]] = s]
            /\ UNCHANGED at
  /\ UNCHANGED <<hubMutex, msg, audience, todo, handler, isClosed, chanClosed,
                 channel>>
  /\ UNCHANGED indexVars
  /\ UNCHANGED workerVars

Unlocked(s) ==
  /\ writeLock' = [writeLock EXCEPT ![at[s]] = None]
  /\ at' = [at EXCEPT ![s] = None]
  /\ pc' = [pc EXCEPT ![s] = "iterating"]

\* FAULT: the channel has no bound of its own.
EnqueueUnbounded(s) ==
  /\ pc[s] = "sending"
  /\ channel' = [channel EXCEPT ![at[s]] = Append(@, msg[s])]
  /\ Unlocked(s)
  /\ UNCHANGED <<hubMutex, msg, audience, todo, handler, isClosed, chanClosed>>
  /\ UNCHANGED indexVars
  /\ UNCHANGED workerVars

\* conn.writeChan <- msg, which blocks while the channel is full, and the
\* deferred unlock of writeLock.
Enqueue(s) ==
  /\ pc[s] = "sending"
  /\ Len(channel[at[s]]) < Capacity
  /\ channel' = [channel EXCEPT ![at[s]] = Append(@, msg[s])]
  /\ Unlocked(s)
  /\ UNCHANGED <<hubMutex, msg, audience, todo, handler, isClosed, chanClosed>>
  /\ UNCHANGED indexVars
  /\ UNCHANGED workerVars

\* FAULT: the mutex is not released when the lookup has found nothing.
HubUnlockForgotten(s) ==
  /\ pc[s] = "iterating"
  /\ todo[s] = {}
  /\ hubMutex' = IF Addressed(audience[s]) = {} THEN hubMutex ELSE None
  /\ pc' = [pc EXCEPT ![s] = "idle"]
  /\ msg' = [msg EXCEPT ![s] = None]
  /\ audience' = [audience EXCEPT ![s] = None]
  /\ UNCHANGED <<writeLock, todo, at, handler, isClosed, chanClosed, channel>>
  /\ UNCHANGED indexVars
  /\ UNCHANGED workerVars

\* The loop is over: the deferred hub.mutex.Unlock().
HubUnlock(s) ==
  /\ pc[s] = "iterating"
  /\ todo[s] = {}
  /\ hubMutex' = None
  /\ pc' = [pc EXCEPT ![s] = "idle"]
  /\ msg' = [msg EXCEPT ![s] = None]
  /\ audience' = [audience EXCEPT ![s] = None]
  /\ UNCHANGED <<writeLock, todo, at, handler, isClosed, chanClosed, channel>>
  /\ UNCHANGED indexVars
  /\ UNCHANGED workerVars

-----------------------------------------------------------------------------
(***************************************************************************)
(* The handler of a connection, WebsocketRouteV2.                          *)
(***************************************************************************)

\* The upgrade succeeds, the project id of the path is accepted, and
\* AddConnection blocks on hub.mutex.
Accept(c) ==
  /\ handler[c] = "absent"
  /\ handler' = [handler EXCEPT ![c] = "adding"]
  /\ \E g \in Groups : group' = [group EXCEPT ![c] = g]
  /\ UNCHANGED <<hubMutex, writeLock, connections, members, isClosed,
                 chanClosed, channel>>
  /\ UNCHANGED senderVars
  /\ UNCHANGED workerVars

\* AddConnection's critical section, and the start of the two workers.
AddConnection(c) ==
  /\ handler[c] = "adding"
  /\ hubMutex = None
  /\ connections' = connections \cup {c}
  /\ members' = [members EXCEPT ![group[c]] = @ \cup {c}]
  /\ handler' = [handler EXCEPT ![c] = "serving"]
  /\ reader' = [reader EXCEPT ![c] = "reading"]
  /\ writer' = [writer EXCEPT ![c] = "selecting"]
  /\ UNCHANGED <<hubMutex, writeLock, group, isClosed, chanClosed, channel,
                 cancelled, peer, delivered>>
  /\ UNCHANGED senderVars

\* Wg.Wait() returns and the deferred Close blocks on writeLock.
WaitReturns(c) ==
  /\ handler[c] = "serving"
  /\ reader[c] = "exited"
  /\ writer[c] = "exited"
  /\ handler' = [handler EXCEPT ![c] = "closing"]
  /\ UNCHANGED <<hubMutex, writeLock, isClosed, chanClosed, channel>>
  /\ UNCHANGED senderVars
  /\ UNCHANGED indexVars
  /\ UNCHANGED workerVars

\* FAULT: the channel is closed first and without the lock, so that Close
\* does not wait for a blocked Write.
CloseFirst(c) ==
  /\ handler[c] = "closing"
  /\ isClosed' = [isClosed EXCEPT ![c] = TRUE]
  /\ chanClosed' = [chanClosed EXCEPT ![c] = TRUE]
  /\ handler' = [handler EXCEPT ![c] = "removing"]
  /\ UNCHANGED <<hubMutex, writeLock, channel>>
  /\ UNCHANGED senderVars
  /\ UNCHANGED indexVars
  /\ UNCHANGED workerVars

\* writeLock.Lock(), isClosed = true; removeConnection blocks on hub.mutex.
CloseLock(c) ==
  /\ handler[c] = "closing"
  /\ writeLock[c] = None
  /\ writeLock' = [writeLock EXCEPT ![c] = c]
  /\ isClosed' = [isClosed EXCEPT ![c] = TRUE]
  /\ handler' = [handler EXCEPT ![c] = "removing"]
  /\ UNCHANGED <<hubMutex, chanClosed, channel>>
  /\ UNCHANGED senderVars
  /\ UNCHANGED indexVars
  /\ UNCHANGED workerVars

\* FAULT: removeConnection deletes the connection from hub.connections only.
RemoveFromOneMap(c) ==
  /\ handler[c] = "removing"
  /\ hubMutex = None
  /\ connections' = connections \ {c}
  /\ handler' = [handler EXCEPT ![c] = "ending"]
  /\ UNCHANGED <<hubMutex, writeLock, members, group, isClosed, chanClosed,
                 channel>>
  /\ UNCHANGED senderVars
  /\ UNCHANGED workerVars

\* removeConnection's critical section.
RemoveConnection(c) ==
  /\ handler[c] = "removing"
  /\ hubMutex = None
  /\ connections' = connections \ {c}
  /\ members' = [members EXCEPT ![group[c]] = @ \ {c}]
  /\ handler' = [handler EXCEPT ![c] = "ending"]
  /\ UNCHANGED <<hubMutex, writeLock, group, isClosed, chanClosed, channel>>
  /\ UNCHANGED senderVars
  /\ UNCHANGED workerVars

\* close(writeChan), the deferred unlock of writeLock, and the socket.
CloseChannel(c) ==
  /\ handler[c] = "ending"
  /\ chanClosed' = [chanClosed EXCEPT ![c] = TRUE]
  /\ writeLock' = [writeLock EXCEPT ![c] = None]
  /\ peer' = [peer EXCEPT ![c] = "gone"]
  /\ handler' = [handler EXCEPT ![c] = "closed"]
  /\ UNCHANGED <<hubMutex, isClosed, channel, cancelled, reader, writer,
                 delivered>>
  /\ UNCHANGED senderVars
  /\ UNCHANGED indexVars

-----------------------------------------------------------------------------
(***************************************************************************)
(* The workers of a connection, and its client.                            *)
(***************************************************************************)

\* What a worker's step leaves alone.
WorkerFrame ==
  /\ UNCHANGED <<hubMutex, writeLock, handler, isClosed, chanClosed>>
  /\ UNCHANGED senderVars
  /\ UNCHANGED indexVars

ReaderExits(c) ==
  /\ reader[c] = "reading"
  /\ reader' = [reader EXCEPT ![c] = "exited"]
  /\ cancelled' = [cancelled EXCEPT ![c] = TRUE]
  /\ UNCHANGED <<channel, writer, peer, delivered>>
  /\ WorkerFrame

\* ReadMessage returns an error.
ReadFails(c) == peer[c] = "gone" /\ ReaderExits(c)

\* The context is looked at only between messages: a message of the client
\* ends the worker after the context is done.
ReadStops(c) == peer[c] # "gone" /\ cancelled[c] /\ ReaderExits(c)

\* The select of WriteWorker chooses the channel.
TakeMessage(c) ==
  /\ writer[c] = "selecting"
  /\ channel[c] # <<>>
  /\ writer' = [writer EXCEPT ![c] = Head(channel[c])]
  /\ channel' = [channel EXCEPT ![c] = Tail(@)]
  /\ UNCHANGED <<cancelled, reader, peer, delivered>>
  /\ WorkerFrame

WriterExits(c) ==
  /\ writer' = [writer EXCEPT ![c] = "exited"]
  /\ cancelled' = [cancelled EXCEPT ![c] = TRUE]
  /\ UNCHANGED <<channel, reader, peer, delivered>>
  /\ WorkerFrame

\* FAULT: the select has no case for the context.
WriteStopsOnCloseOnly(c) ==
  /\ writer[c] = "selecting"
  /\ chanClosed[c] /\ channel[c] = <<>>
  /\ WriterExits(c)

\* The select chooses the context, or the channel is closed and drained.
WriteStops(c) ==
  /\ writer[c] = "selecting"
  /\ cancelled[c] \/ (chanClosed[c] /\ channel[c] = <<>>)
  /\ WriterExits(c)

\* WriteMessage returns; it blocks while the client does not read.
WriteSucceeds(c) ==
  /\ writer[c] \in Messages
  /\ peer[c] = "connected"
  /\ delivered' = [delivered EXCEPT ![c] = Append(@, writer[c])]
  /\ writer' = [writer EXCEPT ![c] = "selecting"]
  /\ UNCHANGED <<channel, cancelled, reader, peer>>
  /\ WorkerFrame

\* WriteMessage returns an error.
WriteFails(c) == writer[c] \in Messages /\ WriterExits(c)

PeerFrame ==
  /\ UNCHANGED <<channel, cancelled, reader, writer, delivered>>
  /\ WorkerFrame

PeerStalls(c) ==
  /\ handler[c] # "absent" /\ peer[c] = "connected"
  /\ peer' = [peer EXCEPT ![c] = "stalled"]
  /\ PeerFrame

PeerLeaves(c) ==
  /\ handler[c] # "absent" /\ peer[c] # "gone"
  /\ peer' = [peer EXCEPT ![c] = "gone"]
  /\ PeerFrame

-----------------------------------------------------------------------------

SenderStep(s) ==
  HubLock(s) \/ NextConnection(s) \/ WriteLock(s) \/ Enqueue(s) \/ HubUnlock(s)

HandlerStep(c) ==
  \/ AddConnection(c)
  \/ WaitReturns(c)
  \/ CloseLock(c)
  \/ RemoveConnection(c)
  \/ CloseChannel(c)

WriterStep(c) ==
  TakeMessage(c) \/ WriteStops(c) \/ WriteSucceeds(c) \/ WriteFails(c)

Next ==
  \/ \E s \in Senders : Send(s) \/ SenderStep(s)
  \/ \E c \in Conns : Accept(c) \/ HandlerStep(c)
  \/ \E c \in Conns : ReadFails(c) \/ ReadStops(c) \/ WriterStep(c)
  \/ \E c \in Conns : PeerStalls(c) \/ PeerLeaves(c)

Spec == Init /\ [][Next]_vars

\* Goroutines that can run do, and sync.Mutex serves every waiter.  Clients
\* owe nothing: they need not read, write or leave, and a read that has not
\* failed need not return.
Fairness ==
  /\ \A s \in Senders : SF_vars(SenderStep(s))
  /\ \A c \in Conns : SF_vars(HandlerStep(c))
  /\ \A c \in Conns : WF_vars(ReadFails(c)) /\ WF_vars(WriterStep(c))

FairSpec == Spec /\ Fairness

-----------------------------------------------------------------------------
(***************************************************************************)
(* Properties.                                                             *)
(***************************************************************************)

\* Type invariant; a channel never holds more than its capacity.
TypeOK ==
  /\ hubMutex \in Senders \cup {None}
  /\ writeLock \in [Conns -> Senders \cup Conns \cup {None}]
  /\ connections \subseteq Conns
  /\ members \in [Groups -> SUBSET Conns]
  /\ pc \in [Senders -> {"idle", "locking", "iterating", "writing", "sending"}]
  /\ msg \in [Senders -> Messages \cup {None}]
  /\ audience \in [Senders -> Conns \cup Groups \cup {All, None}]
  /\ todo \in [Senders -> SUBSET Conns]
  /\ at \in [Senders -> Conns \cup {None}]
  /\ handler \in [Conns -> {"absent", "adding", "serving", "closing",
                            "removing", "ending", "closed"}]
  /\ group \in [Conns -> Groups \cup {None}]
  /\ isClosed \in [Conns -> BOOLEAN]
  /\ chanClosed \in [Conns -> BOOLEAN]
  /\ channel \in [Conns -> Seq(Messages)]
  /\ \A c \in Conns : Len(channel[c]) <= Capacity
  /\ cancelled \in [Conns -> BOOLEAN]
  /\ reader \in [Conns -> {"off", "reading", "exited"}]
  /\ writer \in [Conns -> Messages \cup {"off", "selecting", "exited"}]
  /\ peer \in [Conns -> {"connected", "stalled", "gone"}]
  /\ delivered \in [Conns -> Seq(Messages)]

\* A Write blocked on a full channel never finds the channel closed under it
\* (Go panics on a send on a closed channel): Close waits for the Write.
NoSendOnClosedChannel ==
  \A s \in Senders : pc[s] = "sending" => ~chanClosed[at[s]]

\* A connection is in the hub's maps, in the one of its project as in the one
\* of all connections, exactly while its handler serves or has not yet
\* removed it: no message is addressed to a connection whose channel is
\* closed, and none that is served misses a multicast.
Registered(c) == handler[c] \in {"serving", "closing", "removing"}

RegisteredWhileServed ==
  /\ connections = {c \in Conns : Registered(c)}
  /\ \A g \in Groups :
       members[g] = {c \in Conns : Registered(c) /\ group[c] = g}

\* Two connections get the messages they both get in the same order, however
\* many goroutines multicast: the hub's mutex is held over a whole multicast.
\* A client that sees "started" before "finished" relies on it.
Before(c, m, n) ==
  \E i, j \in 1..Len(Stream(c)) :
    i < j /\ Stream(c)[i] = m /\ Stream(c)[j] = n

SameOrder ==
  \A c, d \in Conns : \A m, n \in Messages :
    Before(c, m, n) => ~Before(d, n, m)

\* When the client has gone, both workers of its connection end, even if the
\* hub is blocked and the connection can never be removed.
WorkersLeave ==
  \A c \in Conns :
    (handler[c] = "serving" /\ peer[c] = "gone")
      ~> (reader[c] = "exited" /\ writer[c] = "exited")

\* As long as every client reads and no write to a socket fails, a call of the
\* hub returns, although it holds the hub's mutex while it waits for room in
\* the channels of others.
Disturbed ==
  \E c \in Conns : peer[c] # "connected" \/ writer[c] = "exited"

SendsReturn ==
  \A s \in Senders : pc[s] = "locking" ~> (pc[s] = "idle" \/ Disturbed)

\* A Write that waits for the lock of a connection gets it, and with it the
\* error that the connection is closed.  This is what the code means to do
\* (ws_conn.go:54, hub.go:62) and it does not hold.
WriteGetsItsLock ==
  \A s \in Senders : pc[s] = "writing" ~> pc[s] # "writing"

=============================================================================
