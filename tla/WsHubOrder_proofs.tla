-------------------------- MODULE WsHubOrder_proofs --------------------------
(***************************************************************************)
(* Two connections never get the same two messages in different orders,   *)
(* for any number of senders, connections and messages, although workers  *)
(* fail and drop messages and connections come and go.                     *)
(***************************************************************************)
EXTENDS WsHub_proofs

Occurs(q, m) == \E i \in 1..Len(q) : q[i] = m

Precedes(q, m, n) == \E i, j \in 1..Len(q) : i < j /\ q[i] = m /\ q[j] = n

\* If m is in q at all, it is the last element and only there.
LastOnly(q, m) == \A i \in 1..Len(q) : q[i] = m => i = Len(q)

Ordered(S) ==
  \A c, d \in Conns : \A m, n \in Messages :
    Precedes(S[c], m, n) => ~Precedes(S[d], n, m)

Streams == [c \in Conns |-> Stream(c)]

FreshInv ==
  /\ \A s, r \in Senders : s # r /\ msg[s] \in Messages => msg[r] # msg[s]
  /\ \A s \in Senders : pc[s] = "locking" =>
       \A c \in Conns : ~Occurs(Streams[c], msg[s])

\* While a sender is in the hub its message is the last of every stream that
\* has it, and the connections it has still to write to do not have it.
LatestInv ==
  \A s \in Senders :
    /\ InHub(s) => \A c \in Conns : LastOnly(Streams[c], msg[s])
    /\ InHub(s) => \A c \in todo[s] : ~Occurs(Streams[c], msg[s])
    /\ pc[s] \in {"writing", "sending"} =>
         at[s] \notin todo[s] /\ ~Occurs(Streams[at[s]], msg[s])

\* Before AddConnection the workers have not been started.
StartInv ==
  \A c \in Conns : handler[c] \in {"absent", "adding"} => writer[c] = "off"

OrderInv == FreshInv /\ LatestInv /\ Ordered(Streams)

-----------------------------------------------------------------------------
(***************************************************************************)
(* Sequences.                                                              *)
(***************************************************************************)

\* The message m, which is nowhere but at the end of a stream, is appended to
\* the stream of c, which does not have it.
Appends(S, T, c, m) ==
  /\ Ordered(S)
  /\ ~Occurs(S[c], m)
  /\ \A d \in Conns : LastOnly(S[d], m)
  /\ T = [S EXCEPT ![c] = Append(S[c], m)]

\* The order is kept, m is still nowhere but at ends, and nothing else is new.
Keeps(S, T, c, m) ==
  /\ Ordered(T)
  /\ \A d \in Conns : LastOnly(T[d], m)
  /\ \A d \in Conns : \A n \in Messages :
       Occurs(T[d], n) => Occurs(S[d], n) \/ (d = c /\ n = m)

LEMMA AppendKeepsOrder ==
  ASSUME NEW S \in [Conns -> Seq(Messages)], NEW T \in [Conns -> Seq(Messages)],
         NEW c \in Conns, NEW m \in Messages, Appends(S, T, c, m)
  PROVE  Keeps(S, T, c, m)
<1>0. /\ Ordered(S)
      /\ ~Occurs(S[c], m)
      /\ \A d \in Conns : LastOnly(S[d], m)
  BY DEF Appends
<1>1. /\ Len(T[c]) = Len(S[c]) + 1
      /\ \A i \in 1..Len(S[c]) : T[c][i] = S[c][i]
      /\ T[c][Len(S[c]) + 1] = m
      /\ Len(S[c]) \in Nat
  BY DEF Appends
<1>2. \A d \in Conns \ {c} : T[d] = S[d]
  BY DEF Appends
<1>3. \A d \in Conns : LastOnly(T[d], m)
  <2>1. LastOnly(T[c], m)
    <3> SUFFICES ASSUME NEW i \in 1..Len(T[c]), T[c][i] = m
                 PROVE  i = Len(T[c])
      BY DEF LastOnly
    <3>1. \A j \in 1..Len(S[c]) : T[c][j] # m
      BY <1>0, <1>1 DEF Occurs
    <3> QED
      BY <1>1, <3>1
  <2>2. \A d \in Conns \ {c} : LastOnly(T[d], m)
    BY <1>0, <1>2
  <2> QED
    BY <2>1, <2>2
<1>4. \A d \in Conns : \A n \in Messages :
        Occurs(T[d], n) => Occurs(S[d], n) \/ (d = c /\ n = m)
  BY <1>1, <1>2 DEF Occurs
<1>5. \A d \in Conns : Len(T[d]) \in Nat
  OBVIOUS
<1>6. \A d \in Conns : \A n \in Messages : ~Precedes(T[d], m, n)
  BY <1>3, <1>5 DEF Precedes, LastOnly
<1>7. ASSUME NEW d \in Conns, NEW k \in Messages, NEW n \in Messages, n # m,
             Precedes(T[d], k, n)
      PROVE  Precedes(S[d], k, n)
  <2>1. CASE d = c
    <3>1. PICK i, j \in 1..Len(T[c]) : i < j /\ T[c][i] = k /\ T[c][j] = n
      BY <1>7, <2>1 DEF Precedes
    <3>2. j \in 1..Len(S[c]) /\ i \in 1..Len(S[c])
      BY <3>1, <1>1, <1>7
    <3> QED
      BY <3>1, <3>2, <1>1, <2>1 DEF Precedes
  <2>2. CASE d # c
    BY <2>2, <1>2, <1>7
  <2> QED
    BY <2>1, <2>2
<1>8. Ordered(T)
  <2> SUFFICES ASSUME NEW d \in Conns, NEW e \in Conns,
                      NEW k \in Messages, NEW n \in Messages,
                      Precedes(T[d], k, n), Precedes(T[e], n, k)
               PROVE  FALSE
    BY DEF Ordered
  <2>1. k # m /\ n # m
    BY <1>6
  <2> QED
    BY <1>0, <2>1, <1>7 DEF Ordered
<1> QED
  BY <1>3, <1>4, <1>8 DEF Keeps

\* q has the elements of p and perhaps more, in the same order.
Thins(p, q) ==
  \E f \in [1..Len(p) -> 1..Len(q)] :
    /\ \A i \in 1..Len(p) : p[i] = q[f[i]]
    /\ \A i, j \in 1..Len(p) : i < j => f[i] < f[j]

LEMMA ThinningKeeps ==
  ASSUME NEW p \in Seq(Messages), NEW q \in Seq(Messages), Thins(p, q)
  PROVE  /\ \A m : Occurs(p, m) => Occurs(q, m)
         /\ \A m, n : Precedes(p, m, n) => Precedes(q, m, n)
         /\ \A m : LastOnly(q, m) => LastOnly(p, m)
<1>1. PICK f \in [1..Len(p) -> 1..Len(q)] :
        /\ \A i \in 1..Len(p) : p[i] = q[f[i]]
        /\ \A i, j \in 1..Len(p) : i < j => f[i] < f[j]
  BY DEF Thins
<1>2. Len(p) \in Nat /\ Len(q) \in Nat
  OBVIOUS
<1>3. \A m : Occurs(p, m) => Occurs(q, m)
  BY <1>1 DEF Occurs
<1>4. \A m, n : Precedes(p, m, n) => Precedes(q, m, n)
  BY <1>1 DEF Precedes
<1>5. ASSUME NEW m, LastOnly(q, m), NEW i \in 1..Len(p), p[i] = m, i # Len(p)
      PROVE  FALSE
  <2>1. f[i] = Len(q)
    BY <1>1, <1>5 DEF LastOnly
  <2>2. Len(p) \in 1..Len(p) /\ i < Len(p)
    BY <1>2, <1>5
  <2>3. f[Len(p)] \in 1..Len(q) /\ f[i] < f[Len(p)]
    BY <1>1, <2>2
  <2> QED
    BY <2>1, <2>3, <1>2
<1> QED
  BY <1>3, <1>4, <1>5 DEF LastOnly

\* Without one element in the middle a sequence is thinner.
LEMMA DropThins ==
  ASSUME NEW a \in Seq(Messages), NEW b \in Seq(Messages), NEW x \in Messages
  PROVE  Thins(a \o b, Append(a, x) \o b)
<1> DEFINE p == a \o b
           q == Append(a, x) \o b
           f == [i \in 1..Len(p) |-> IF i <= Len(a) THEN i ELSE i + 1]
<1>1. Len(a) \in Nat /\ Len(b) \in Nat
  OBVIOUS
<1>2. /\ Append(a, x) \in Seq(Messages)
      /\ Len(Append(a, x)) = Len(a) + 1
      /\ \A i \in 1..Len(a) : Append(a, x)[i] = a[i]
  OBVIOUS
<1>3. /\ Len(p) = Len(a) + Len(b)
      /\ \A i \in 1..Len(p) : p[i] = IF i <= Len(a) THEN a[i] ELSE b[i - Len(a)]
  OBVIOUS
<1>4. /\ Len(q) = Len(a) + 1 + Len(b)
      /\ \A i \in 1..Len(q) :
           q[i] = IF i <= Len(a) + 1 THEN Append(a, x)[i] ELSE b[i - (Len(a) + 1)]
  BY <1>2
<1> HIDE DEF p, q
<1>5. f \in [1..Len(p) -> 1..Len(q)]
  BY <1>1, <1>3, <1>4
<1>6. ASSUME NEW i \in 1..Len(p) PROVE p[i] = q[f[i]]
  <2>1. CASE i <= Len(a)
    BY <2>1, <1>1, <1>2, <1>3, <1>4
  <2>2. CASE ~(i <= Len(a))
    <3>1. f[i] = i + 1 /\ i + 1 \in 1..Len(q) /\ ~(i + 1 <= Len(a) + 1)
      BY <2>2, <1>1, <1>3, <1>4
    <3>2. (i + 1) - (Len(a) + 1) = i - Len(a)
      BY <1>1
    <3> QED
      BY <2>2, <3>1, <3>2, <1>3, <1>4
  <2> QED
    BY <2>1, <2>2
<1>7. \A i, j \in 1..Len(p) : i < j => f[i] < f[j]
  BY <1>1, <1>3
<1> HIDE DEF f
<1>8. Thins(p, q)
  BY <1>5, <1>6, <1>7 DEF Thins
<1> QED
  BY <1>8 DEF p, q

\* Moving the head of b to the end of a does not change their concatenation.
LEMMA HeadTailMoves ==
  ASSUME NEW a \in Seq(Messages), NEW b \in Seq(Messages), b # <<>>
  PROVE  Append(a, Head(b)) \o Tail(b) = a \o b
<1> DEFINE p == Append(a, Head(b)) \o Tail(b)
           q == a \o b
<1>1. /\ Len(a) \in Nat /\ Len(b) \in Nat \ {0}
      /\ Head(b) \in Messages /\ Head(b) = b[1]
      /\ Tail(b) \in Seq(Messages) /\ Len(Tail(b)) = Len(b) - 1
      /\ \A i \in 1..Len(Tail(b)) : Tail(b)[i] = b[i + 1]
  OBVIOUS
<1>2. /\ Append(a, Head(b)) \in Seq(Messages)
      /\ Len(Append(a, Head(b))) = Len(a) + 1
      /\ \A i \in 1..Len(a) : Append(a, Head(b))[i] = a[i]
      /\ Append(a, Head(b))[Len(a) + 1] = b[1]
  BY <1>1
<1>3. /\ p \in Seq(Messages) /\ q \in Seq(Messages)
      /\ Len(p) = Len(a) + Len(b) /\ Len(q) = Len(a) + Len(b)
  BY <1>1, <1>2
<1>4. \A i \in 1..Len(q) : q[i] = IF i <= Len(a) THEN a[i] ELSE b[i - Len(a)]
  OBVIOUS
<1>5. \A i \in 1..Len(p) :
        p[i] = IF i <= Len(a) + 1 THEN Append(a, Head(b))[i]
                                  ELSE Tail(b)[i - (Len(a) + 1)]
  BY <1>1, <1>2
<1> HIDE DEF p, q
<1>6. ASSUME NEW i \in 1..Len(q) PROVE p[i] = q[i]
  <2>1. CASE i <= Len(a) + 1
    BY <2>1, <1>1, <1>2, <1>3, <1>4, <1>5
  <2>2. CASE ~(i <= Len(a) + 1)
    <3>1. i - (Len(a) + 1) \in 1..Len(Tail(b))
      BY <2>2, <1>1, <1>3
    <3>2. (i - (Len(a) + 1)) + 1 = i - Len(a)
      BY <1>1
    <3>3. p[i] = Tail(b)[i - (Len(a) + 1)]
      BY <2>2, <1>3, <1>5
    <3>4. Tail(b)[i - (Len(a) + 1)] = b[i - Len(a)]
      BY <3>1, <3>2, <1>1
    <3>5. q[i] = b[i - Len(a)]
      BY <2>2, <1>1, <1>4
    <3> QED
      BY <3>3, <3>4, <3>5
  <2> QED
    BY <2>1, <2>2
<1>7. p = q
  BY <1>3, <1>6
<1> QED
  BY <1>7 DEF p, q

LEMMA AppendMoves ==
  ASSUME NEW a \in Seq(Messages), NEW b \in Seq(Messages), NEW x \in Messages
  PROVE  a \o Append(b, x) = Append(a \o b, x)
OBVIOUS

LEMMA SameThins ==
  ASSUME NEW p \in Seq(Messages)
  PROVE  Thins(p, p)
<1> DEFINE f == [i \in 1..Len(p) |-> i]
<1>1. f \in [1..Len(p) -> 1..Len(p)]
  OBVIOUS
<1>2. /\ \A i \in 1..Len(p) : p[i] = p[f[i]]
      /\ \A i, j \in 1..Len(p) : i < j => f[i] < f[j]
  OBVIOUS
<1> HIDE DEF f
<1> QED
  BY <1>1, <1>2 DEF Thins

-----------------------------------------------------------------------------
(***************************************************************************)
(* The streams, step by step.                                              *)
(***************************************************************************)

LEMMA StreamsType == TypeOK => Streams \in [Conns -> Seq(Messages)]
<1> SUFFICES ASSUME TypeOK, NEW c \in Conns
             PROVE  Stream(c) \in Seq(Messages)
  BY DEF Streams
<1>1. delivered[c] \in Seq(Messages) /\ channel[c] \in Seq(Messages)
  BY DEF TypeOK
<1>2. SocketMessages(c) \in Seq(Messages)
  BY <1>1 DEF SocketMessages
<1> QED
  BY <1>1, <1>2 DEF Stream

LEMMA StreamsTypeNext == TypeOK' => Streams' \in [Conns -> Seq(Messages)]
<1> SUFFICES ASSUME TypeOK', NEW c \in Conns
             PROVE  Stream(c)' \in Seq(Messages)
  BY DEF Streams
<1>1. delivered'[c] \in Seq(Messages) /\ channel'[c] \in Seq(Messages)
  BY DEF TypeOK
<1>2. SocketMessages(c)' \in Seq(Messages)
  BY <1>1 DEF SocketMessages
<1> QED
  BY <1>1, <1>2 DEF Stream

LEMMA StreamsAreBuilt ==
  ASSUME UNCHANGED <<delivered, writer, channel>>
  PROVE  UNCHANGED Streams
BY DEF Streams, Stream, SocketMessages

\* A worker moves messages along a stream, or drops the one it could not
\* write.
LEMMA WorkersThin ==
  ASSUME IInv, IInv', NEW c \in Conns,
         \/ ReadFails(c) \/ ReadStops(c) \/ WriterStep(c)
         \/ PeerStalls(c) \/ PeerLeaves(c)
  PROVE  /\ UNCHANGED senderVars
         /\ \A d \in Conns : Thins(Streams'[d], Streams[d])
<1>0. /\ Streams \in [Conns -> Seq(Messages)]
      /\ Streams' \in [Conns -> Seq(Messages)]
      /\ delivered[c] \in Seq(Messages) /\ channel[c] \in Seq(Messages)
  <2>1. delivered[c] \in Seq(Messages) /\ channel[c] \in Seq(Messages)
    BY DEF IInv, TypeOK
  <2> QED
    BY <2>1, StreamsType, StreamsTypeNext DEF IInv
<1>1. /\ UNCHANGED senderVars
      /\ \A d \in Conns \ {c} :
           UNCHANGED <<delivered[d], writer[d], channel[d]>>
  <2>1. /\ WorkerFrame
        /\ UNCHANGED delivered \/ \E v : delivered' = [delivered EXCEPT ![c] = v]
        /\ UNCHANGED writer \/ \E v : writer' = [writer EXCEPT ![c] = v]
        /\ UNCHANGED channel \/ \E v : channel' = [channel EXCEPT ![c] = v]
    <3>1. CASE ReadFails(c) \/ ReadStops(c)
      BY <3>1 DEF ReadFails, ReadStops, ReaderExits
    <3>2. CASE TakeMessage(c)
      BY <3>2 DEF TakeMessage
    <3>3. CASE WriteSucceeds(c)
      BY <3>3 DEF WriteSucceeds
    <3>4. CASE WriteStops(c) \/ WriteFails(c)
      BY <3>4 DEF WriteStops, WriteFails, WriterExits
    <3>5. CASE PeerStalls(c) \/ PeerLeaves(c)
      BY <3>5 DEF PeerStalls, PeerLeaves, PeerFrame
    <3> QED
      BY <3>1, <3>2, <3>3, <3>4, <3>5 DEF WriterStep
  <2>2. /\ delivered \in [Conns -> Seq(Messages)] /\ channel \in [Conns -> Seq(Messages)]
        /\ DOMAIN writer = Conns
    BY DEF IInv, TypeOK
  <2> QED
    BY <2>1, <2>2 DEF WorkerFrame
<1>2. \A d \in Conns \ {c} : Streams'[d] = Streams[d]
  BY <1>1 DEF Streams, Stream, SocketMessages
<1>3. Thins(Streams'[c], Streams[c])
  <2>1. CASE WriteFails(c)
    <3>1. writer[c] \in Messages /\ writer'[c] \notin Messages
      BY <2>1, HubAssumption DEF WriteFails, WriterExits, IInv, TypeOK
    <3>2. UNCHANGED <<delivered[c], channel[c]>>
      BY <2>1 DEF WriteFails, WriterExits
    <3>3. /\ Streams[c] = Append(delivered[c], writer[c]) \o channel[c]
          /\ Streams'[c] = delivered[c] \o channel[c]
      BY <3>1, <3>2 DEF Streams, Stream, SocketMessages
    <3> QED
      BY <3>1, <3>3, <1>0, DropThins
  <2>2. CASE TakeMessage(c)
    <3>1. /\ writer[c] = "selecting" /\ writer[c] \notin Messages
          /\ channel[c] # <<>>
          /\ Head(channel[c]) \in Messages
          /\ writer'[c] = Head(channel[c])
          /\ channel'[c] = Tail(channel[c])
          /\ delivered'[c] = delivered[c]
      BY <2>2, <1>0, HubAssumption DEF TakeMessage, IInv, TypeOK
    <3>2. /\ Streams[c] = delivered[c] \o channel[c]
          /\ Streams'[c] = Append(delivered[c], Head(channel[c])) \o Tail(channel[c])
      BY <3>1 DEF Streams, Stream, SocketMessages
    <3>3. Streams'[c] = Streams[c]
      BY <3>1, <3>2, <1>0, HeadTailMoves
    <3> QED
      BY <3>3, <1>0, SameThins
  <2>3. CASE WriteSucceeds(c)
    <3>1. /\ writer[c] \in Messages /\ writer'[c] \notin Messages
          /\ channel'[c] = channel[c]
          /\ delivered'[c] = Append(delivered[c], writer[c])
      BY <2>3, HubAssumption DEF WriteSucceeds, IInv, TypeOK
    <3>2. Streams'[c] = Streams[c]
      BY <3>1 DEF Streams, Stream, SocketMessages
    <3> QED
      BY <3>2, <1>0, SameThins
  <2>4. CASE WriteStops(c)
    <3>1. /\ writer[c] \notin Messages /\ writer'[c] \notin Messages
          /\ channel'[c] = channel[c] /\ delivered'[c] = delivered[c]
      BY <2>4, HubAssumption DEF WriteStops, WriterExits, IInv, TypeOK
    <3>2. Streams'[c] = Streams[c]
      BY <3>1 DEF Streams, Stream, SocketMessages
    <3> QED
      BY <3>2, <1>0, SameThins
  <2>5. CASE ReadFails(c) \/ ReadStops(c) \/ PeerStalls(c) \/ PeerLeaves(c)
    <3>1. UNCHANGED <<delivered, writer, channel>>
      BY <2>5 DEF ReadFails, ReadStops, ReaderExits, PeerStalls, PeerLeaves, PeerFrame
    <3> QED
      BY <3>1, <1>0, StreamsAreBuilt, SameThins
  <2> QED
    BY <2>1, <2>2, <2>3, <2>4, <2>5 DEF WriterStep
<1> QED
  BY <1>0, <1>1, <1>2, <1>3, SameThins

LEMMA ThinStep ==
  ASSUME IInv, IInv', OrderInv, UNCHANGED senderVars,
         \A d \in Conns : Thins(Streams'[d], Streams[d])
  PROVE  OrderInv'
<1>1. /\ Streams \in [Conns -> Seq(Messages)]
      /\ Streams' \in [Conns -> Seq(Messages)]
  BY StreamsType, StreamsTypeNext DEF IInv
<1>2. \A d \in Conns :
        /\ \A m : Occurs(Streams'[d], m) => Occurs(Streams[d], m)
        /\ \A m, n : Precedes(Streams'[d], m, n) => Precedes(Streams[d], m, n)
        /\ \A m : LastOnly(Streams[d], m) => LastOnly(Streams'[d], m)
  <2> TAKE d \in Conns
  <2>1. Streams'[d] \in Seq(Messages) /\ Streams[d] \in Seq(Messages)
    BY <1>1
  <2> QED
    BY <2>1, ThinningKeeps
<1>3. Ordered(Streams)'
  BY <1>2 DEF OrderInv, Ordered
<1>4. FreshInv'
  BY <1>2 DEF OrderInv, FreshInv, senderVars
<1>5. LatestInv'
  <2>1. \A s \in Senders :
          /\ todo[s] \subseteq Conns
          /\ pc[s] \in {"writing", "sending"} => at[s] \in Conns
    BY DEF IInv, TypeOK, CallInv
  <2>2. UNCHANGED pc /\ UNCHANGED todo /\ UNCHANGED at /\ UNCHANGED msg
    BY DEF senderVars
  <2> SUFFICES ASSUME NEW s \in Senders
      PROVE  /\ InHub(s) => \A c \in Conns : LastOnly(Streams'[c], msg[s])
             /\ InHub(s) => \A c \in todo[s] : ~Occurs(Streams'[c], msg[s])
             /\ pc[s] \in {"writing", "sending"} =>
                  at[s] \notin todo[s] /\ ~Occurs(Streams'[at[s]], msg[s])
    BY <2>2 DEF LatestInv, InHub
  <2>3. InHub(s) => \A c \in Conns : LastOnly(Streams[c], msg[s])
    BY DEF OrderInv, LatestInv
  <2>4. InHub(s) => \A c \in todo[s] : ~Occurs(Streams[c], msg[s])
    BY DEF OrderInv, LatestInv
  <2>5. pc[s] \in {"writing", "sending"} =>
          at[s] \notin todo[s] /\ ~Occurs(Streams[at[s]], msg[s])
    BY DEF OrderInv, LatestInv
  <2>6. \A d \in Conns :
          /\ Occurs(Streams'[d], msg[s]) => Occurs(Streams[d], msg[s])
          /\ LastOnly(Streams[d], msg[s]) => LastOnly(Streams'[d], msg[s])
    BY <1>2
  <2>7. InHub(s) => \A c \in Conns : LastOnly(Streams'[c], msg[s])
    BY <2>3, <2>6
  <2>8. InHub(s) => \A c \in todo[s] : ~Occurs(Streams'[c], msg[s])
    <3>1. \A c \in todo[s] : c \in Conns
      BY <2>1
    <3> QED
      BY <3>1, <2>4, <2>6
  <2>9. pc[s] \in {"writing", "sending"} =>
          at[s] \notin todo[s] /\ ~Occurs(Streams'[at[s]], msg[s])
    <3> SUFFICES ASSUME pc[s] \in {"writing", "sending"}
                 PROVE  at[s] \notin todo[s] /\ ~Occurs(Streams'[at[s]], msg[s])
      OBVIOUS
    <3>1. at[s] \in Conns
      BY <2>1
    <3>2. at[s] \notin todo[s] /\ ~Occurs(Streams[at[s]], msg[s])
      BY <2>5
    <3> QED
      BY <3>1, <3>2, <2>6
  <2> QED
    BY <2>7, <2>8, <2>9
<1> QED
  BY <1>3, <1>4, <1>5 DEF OrderInv

LEMMA StartStep ==
  ASSUME IInv, StartInv, [Next]_vars
  PROVE  StartInv'
<1> USE HubAssumption DEF StartInv
<1>1. CASE UNCHANGED vars
  BY <1>1 DEF vars
<1>2. ASSUME NEW s \in Senders, Send(s) \/ SenderStep(s) PROVE StartInv'
  BY <1>2 DEF Send, SenderStep, HubLock, NextConnection, WriteLock, Enqueue,
              Unlocked, HubUnlock, workerVars
<1>3. ASSUME NEW c \in Conns, Accept(c) \/ WaitReturns(c) \/ CloseLock(c)
                                \/ RemoveConnection(c) \/ CloseChannel(c)
      PROVE  StartInv'
  BY <1>3 DEF Accept, WaitReturns, CloseLock, RemoveConnection, CloseChannel,
              workerVars, IInv, TypeOK
<1>4. ASSUME NEW c \in Conns, AddConnection(c) PROVE StartInv'
  BY <1>4 DEF AddConnection, IInv, TypeOK
<1>5. ASSUME NEW c \in Conns,
             \/ ReadFails(c) \/ ReadStops(c) \/ WriterStep(c)
             \/ PeerStalls(c) \/ PeerLeaves(c)
      PROVE  StartInv'
  <2>1. UNCHANGED handler
    BY <1>5 DEF ReadFails, ReadStops, ReaderExits, WriterStep, TakeMessage,
                WriteStops, WriteSucceeds, WriteFails, WriterExits,
                PeerStalls, PeerLeaves, PeerFrame, WorkerFrame
  <2>2. CASE WriterStep(c)
    <3>1. writer[c] # "off" \/ writer[c] \in Messages
      BY <2>2 DEF WriterStep, TakeMessage, WriteStops, WriteSucceeds, WriteFails
    <3>2. \A d \in Conns \ {c} : writer'[d] = writer[d]
      BY <2>2 DEF WriterStep, TakeMessage, WriteStops, WriteSucceeds,
                  WriteFails, WriterExits, IInv, TypeOK
    <3> QED
      BY <2>1, <3>1, <3>2
  <2>3. CASE UNCHANGED writer
    BY <2>1, <2>3
  <2>4. UNCHANGED writer \/ WriterStep(c)
    BY <1>5 DEF ReadFails, ReadStops, ReaderExits, PeerStalls, PeerLeaves, PeerFrame
  <2> QED
    BY <2>2, <2>3, <2>4
<1> QED
  BY <1>1, <1>2, <1>3, <1>4, <1>5 DEF Next, HandlerStep

\* Handlers do not touch the streams: a started worker holds no message.
LEMMA HandlerKeepsStreams ==
  ASSUME IInv, StartInv, NEW c \in Conns, Accept(c) \/ HandlerStep(c)
  PROVE  UNCHANGED senderVars /\ UNCHANGED Streams
<1>1. UNCHANGED senderVars /\ UNCHANGED <<delivered, channel>>
  BY DEF HandlerStep, Accept, AddConnection, WaitReturns, CloseLock,
         RemoveConnection, CloseChannel, workerVars
<1>2. CASE UNCHANGED writer
  BY <1>1, <1>2, StreamsAreBuilt
<1>3. CASE AddConnection(c)
  <2>1. writer[c] \notin Messages /\ writer'[c] \notin Messages
    BY <1>3, HubAssumption DEF AddConnection, StartInv, IInv, TypeOK
  <2>2. \A d \in Conns \ {c} : writer'[d] = writer[d]
    BY <1>3 DEF AddConnection, IInv, TypeOK
  <2> QED
    BY <1>1, <2>1, <2>2 DEF Streams, Stream, SocketMessages
<1>4. UNCHANGED writer \/ AddConnection(c)
  BY DEF HandlerStep, Accept, WaitReturns, CloseLock, RemoveConnection,
         CloseChannel, workerVars
<1> QED
  BY <1>1, <1>2, <1>3, <1>4

-----------------------------------------------------------------------------
(***************************************************************************)
(* Senders.                                                                *)
(***************************************************************************)

LEMMA SendKeepsOrder ==
  ASSUME IInv, OrderInv, NEW s \in Senders, Send(s)
  PROVE  OrderInv'
<1>1. UNCHANGED Streams
  BY StreamsAreBuilt DEF Send, workerVars
<1>2. PICK m \in Unsent : msg' = [msg EXCEPT ![s] = m]
  BY DEF Send
<1>3. /\ m \in Messages
      /\ \A r \in Senders : msg[r] # m
      /\ \A c \in Conns : ~Occurs(Streams[c], m)
  BY DEF Unsent, InStream, Streams, Occurs
<1>4. /\ pc[s] = "idle"
      /\ pc' = [pc EXCEPT ![s] = "locking"]
      /\ UNCHANGED <<todo, at>>
  BY DEF Send
<1>5. /\ msg \in [Senders -> Messages \cup {None}]
      /\ pc \in [Senders -> Labels]
  BY DEF IInv, TypeOK, Labels
<1>6. FreshInv'
  BY <1>1, <1>2, <1>3, <1>4, <1>5 DEF OrderInv, FreshInv
<1>7. LatestInv'
  BY <1>1, <1>2, <1>4, <1>5 DEF OrderInv, LatestInv, InHub
<1>8. Ordered(Streams)'
  BY <1>1 DEF OrderInv, Ordered
<1> QED
  BY <1>6, <1>7, <1>8 DEF OrderInv

LEMMA HubLockKeepsOrder ==
  ASSUME IInv, OrderInv, NEW s \in Senders, HubLock(s)
  PROVE  OrderInv'
<1>1. UNCHANGED Streams
  BY StreamsAreBuilt DEF HubLock, workerVars
<1>2. /\ pc[s] = "locking"
      /\ pc' = [pc EXCEPT ![s] = "iterating"]
      /\ todo' = [todo EXCEPT ![s] = Addressed(audience[s])]
      /\ UNCHANGED <<msg, at>>
  BY DEF HubLock
<1>3. /\ pc \in [Senders -> Labels]
      /\ todo \in [Senders -> SUBSET Conns]
      /\ Addressed(audience[s]) \subseteq Conns
  BY DEF IInv, TypeOK, Labels, Addressed
<1>4. \A c \in Conns : ~Occurs(Streams[c], msg[s])
  BY <1>2 DEF OrderInv, FreshInv
<1>5. \A c \in Conns : LastOnly(Streams[c], msg[s])
  BY <1>4 DEF Occurs, LastOnly
<1>6. FreshInv'
  BY <1>1, <1>2, <1>3 DEF OrderInv, FreshInv
<1>7. LatestInv'
  <2>1. \A r \in Senders \ {s} : /\ pc'[r] = pc[r] /\ todo'[r] = todo[r]
                                /\ msg'[r] = msg[r] /\ at'[r] = at[r]
    BY <1>2, <1>3
  <2>2. /\ pc'[s] = "iterating" /\ todo'[s] \subseteq Conns
        /\ msg'[s] = msg[s]
    BY <1>2, <1>3
  <2> QED
    BY <1>1, <1>4, <1>5, <2>1, <2>2 DEF OrderInv, LatestInv, InHub
<1>8. Ordered(Streams)'
  BY <1>1 DEF OrderInv, Ordered
<1> QED
  BY <1>6, <1>7, <1>8 DEF OrderInv

LEMMA NextConnectionKeepsOrder ==
  ASSUME IInv, OrderInv, NEW s \in Senders, NextConnection(s)
  PROVE  OrderInv'
<1>1. UNCHANGED Streams
  BY StreamsAreBuilt DEF NextConnection, workerVars
<1>2. PICK c \in todo[s] : /\ at' = [at EXCEPT ![s] = c]
                          /\ todo' = [todo EXCEPT ![s] = todo[s] \ {c}]
  BY DEF NextConnection
<1>3. /\ pc[s] = "iterating"
      /\ pc' = [pc EXCEPT ![s] = "writing"]
      /\ UNCHANGED msg
  BY DEF NextConnection
<1>4. /\ pc \in [Senders -> Labels]
      /\ todo \in [Senders -> SUBSET Conns]
      /\ at \in [Senders -> Conns \cup {None}]
  BY DEF IInv, TypeOK, Labels
<1>5. FreshInv'
  BY <1>1, <1>3, <1>4 DEF OrderInv, FreshInv
<1>6. LatestInv'
  <2>1. \A r \in Senders \ {s} : /\ pc'[r] = pc[r] /\ todo'[r] = todo[r]
                                /\ msg'[r] = msg[r] /\ at'[r] = at[r]
    BY <1>2, <1>3, <1>4
  <2>2. /\ pc'[s] = "writing" /\ todo'[s] = todo[s] \ {c} /\ at'[s] = c
        /\ msg'[s] = msg[s]
    BY <1>2, <1>3, <1>4
  <2>3. /\ \A d \in Conns : LastOnly(Streams[d], msg[s])
        /\ \A d \in todo[s] : ~Occurs(Streams[d], msg[s])
    BY <1>3 DEF OrderInv, LatestInv, InHub
  <2> QED
    BY <1>1, <2>1, <2>2, <2>3 DEF OrderInv, LatestInv, InHub
<1>7. Ordered(Streams)'
  BY <1>1 DEF OrderInv, Ordered
<1> QED
  BY <1>5, <1>6, <1>7 DEF OrderInv

\* WriteLock and HubUnlock: the sender's obligations become no stronger.
LEMMA LockStepsKeepOrder ==
  ASSUME IInv, OrderInv, NEW s \in Senders, WriteLock(s) \/ HubUnlock(s)
  PROVE  OrderInv'
<1>1. UNCHANGED Streams
  BY StreamsAreBuilt DEF WriteLock, HubUnlock, workerVars
<1>2. /\ pc \in [Senders -> Labels]
      /\ msg \in [Senders -> Messages \cup {None}]
      /\ at \in [Senders -> Conns \cup {None}]
  BY DEF IInv, TypeOK, Labels
<1>3. /\ UNCHANGED todo
      /\ \A r \in Senders \ {s} : /\ pc'[r] = pc[r] /\ msg'[r] = msg[r]
                                 /\ at'[r] = at[r]
  BY <1>2 DEF WriteLock, HubUnlock
<1>4. \/ pc'[s] = "idle" /\ msg'[s] = None
      \/ pc'[s] = "iterating" /\ msg'[s] = msg[s] /\ InHub(s)
      \/ /\ pc'[s] = "sending" /\ msg'[s] = msg[s] /\ at'[s] = at[s]
         /\ pc[s] = "writing"
  BY <1>2 DEF WriteLock, HubUnlock, InHub
<1>5. FreshInv'
  BY <1>1, <1>3, <1>4, HubAssumption DEF OrderInv, FreshInv
<1>6. LatestInv'
  BY <1>1, <1>3, <1>4 DEF OrderInv, LatestInv, InHub
<1>7. Ordered(Streams)'
  BY <1>1 DEF OrderInv, Ordered
<1> QED
  BY <1>5, <1>6, <1>7 DEF OrderInv

\* The message goes to the end of one stream; no other sender is in the hub.
LEMMA EnqueueKeepsOrder ==
  ASSUME IInv, IInv', OrderInv, NEW s \in Senders, Enqueue(s)
  PROVE  OrderInv'
<1>1. PICK c \in Conns : c = at[s]
  BY DEF IInv, CallInv, Enqueue
<1>2. /\ pc[s] = "sending" /\ msg[s] \in Messages
      /\ pc' = [pc EXCEPT ![s] = "iterating"]
      /\ at' = [at EXCEPT ![s] = None]
      /\ channel' = [channel EXCEPT ![c] = Append(channel[c], msg[s])]
      /\ UNCHANGED <<msg, todo, writer, delivered>>
  BY <1>1 DEF IInv, CallInv, Enqueue, Unlocked, workerVars
<1>3. /\ pc \in [Senders -> Labels]
      /\ at \in [Senders -> Conns \cup {None}]
      /\ todo \in [Senders -> SUBSET Conns]
      /\ channel \in [Conns -> Seq(Messages)]
      /\ delivered \in [Conns -> Seq(Messages)]
  BY DEF IInv, TypeOK, Labels
<1>4. /\ Streams \in [Conns -> Seq(Messages)]
      /\ Streams' \in [Conns -> Seq(Messages)]
  BY StreamsType, StreamsTypeNext DEF IInv
<1>5. Streams' = [Streams EXCEPT ![c] = Append(Streams[c], msg[s])]
  <2>1. ASSUME NEW d \in Conns, d # c PROVE Streams'[d] = Streams[d]
    BY <2>1, <1>2, <1>3 DEF Streams, Stream, SocketMessages
  <2>2. Streams'[c] = Append(Streams[c], msg[s])
    <3>1. SocketMessages(c) \in Seq(Messages) /\ channel[c] \in Seq(Messages)
      BY <1>3 DEF SocketMessages
    <3>2. SocketMessages(c) \o Append(channel[c], msg[s])
            = Append(SocketMessages(c) \o channel[c], msg[s])
      BY <3>1, <1>2, AppendMoves
    <3>3. Stream(c)' = SocketMessages(c) \o Append(channel[c], msg[s])
      BY <1>2, <1>3 DEF Stream, SocketMessages
    <3> QED
      BY <3>2, <3>3 DEF Streams, Stream
  <2> QED
    BY <1>4, <2>1, <2>2
<1>6. /\ ~Occurs(Streams[c], msg[s]) /\ c \notin todo[s]
      /\ \A d \in Conns : LastOnly(Streams[d], msg[s])
      /\ \A d \in todo[s] : ~Occurs(Streams[d], msg[s])
  BY <1>1, <1>2 DEF OrderInv, LatestInv, InHub
<1>7. /\ Ordered(Streams')
      /\ \A d \in Conns : LastOnly(Streams'[d], msg[s])
      /\ \A d \in Conns : \A n \in Messages :
           Occurs(Streams'[d], n) => Occurs(Streams[d], n) \/ (d = c /\ n = msg[s])
  <2>1. Ordered(Streams)
    BY DEF OrderInv
  <2>2. PICK S \in [Conns -> Seq(Messages)] : S = Streams
    BY <1>4
  <2>3. PICK T \in [Conns -> Seq(Messages)] : T = Streams'
    BY <1>4
  <2>4. PICK m \in Messages : m = msg[s]
    BY <1>2
  <2>5. Appends(S, T, c, m)
    BY <1>5, <1>6, <2>1, <2>2, <2>3, <2>4 DEF Appends
  <2>6. Keeps(S, T, c, m)
    BY <2>5, AppendKeepsOrder
  <2> QED
    BY <2>2, <2>3, <2>4, <2>6 DEF Keeps
<1>8. FreshInv'
  <2>1. \A r \in Senders : pc'[r] = "locking" =>
          r # s /\ pc[r] = "locking" /\ msg[r] \in Messages /\ msg[r] # msg[s]
    BY <1>2, <1>3 DEF IInv, CallInv, OrderInv, FreshInv
  <2>2. \A r \in Senders : pc[r] = "locking" =>
          \A d \in Conns : ~Occurs(Streams[d], msg[r])
    BY DEF OrderInv, FreshInv
  <2>3. \A r \in Senders : pc'[r] = "locking" =>
          \A d \in Conns : ~Occurs(Streams'[d], msg[r])
    BY <1>7, <2>1, <2>2
  <2> QED
    BY <1>2, <2>3 DEF OrderInv, FreshInv
<1>9. LatestInv'
  <2>1. \A r \in Senders \ {s} : ~InHub(r) /\ pc'[r] = pc[r]
    BY <1>2, <1>3 DEF IInv, HubInv, InHub
  <2>2. \A d \in todo[s] : ~Occurs(Streams'[d], msg[s])
    <3>1. \A d \in todo[s] : d \in Conns /\ d # c
      BY <1>3, <1>6
    <3> QED
      BY <3>1, <1>2, <1>6, <1>7
  <2>3. pc'[s] = "iterating"
    BY <1>2, <1>3
  <2> QED
    BY <1>2, <1>7, <2>1, <2>2, <2>3 DEF LatestInv, InHub
<1> QED
  BY <1>7, <1>8, <1>9 DEF OrderInv, Ordered

-----------------------------------------------------------------------------

LEMMA InitOrder == Init => StartInv /\ OrderInv
<1> SUFFICES ASSUME Init PROVE StartInv /\ OrderInv
  OBVIOUS
<1>1. \A c \in Conns : Streams[c] = <<>>
  BY HubAssumption DEF Init, Streams, Stream, SocketMessages
<1>2. \A c \in Conns : Len(Streams[c]) = 0
  BY <1>1
<1>3. Ordered(Streams)
  BY <1>2 DEF Ordered, Precedes
<1>4. FreshInv /\ LatestInv /\ StartInv
  BY HubAssumption DEF Init, FreshInv, LatestInv, InHub, StartInv
<1> QED
  BY <1>3, <1>4 DEF OrderInv

LEMMA NextOrder ==
  ASSUME IInv, IInv', StartInv, OrderInv, [Next]_vars
  PROVE  OrderInv'
<1>0. ASSUME UNCHANGED senderVars, UNCHANGED Streams PROVE OrderInv'
  BY <1>0 DEF senderVars, OrderInv, FreshInv, LatestInv, InHub, Ordered
<1>1. CASE UNCHANGED vars
  BY <1>0, <1>1, StreamsAreBuilt DEF vars, senderVars
<1>2. ASSUME NEW s \in Senders, Send(s) \/ SenderStep(s) PROVE OrderInv'
  BY <1>2, SendKeepsOrder, HubLockKeepsOrder, NextConnectionKeepsOrder,
     LockStepsKeepOrder, EnqueueKeepsOrder DEF SenderStep
<1>3. ASSUME NEW c \in Conns, Accept(c) \/ HandlerStep(c) PROVE OrderInv'
  BY <1>0, <1>3, HandlerKeepsStreams
<1>4. ASSUME NEW c \in Conns,
             \/ ReadFails(c) \/ ReadStops(c) \/ WriterStep(c)
             \/ PeerStalls(c) \/ PeerLeaves(c)
      PROVE  OrderInv'
  BY <1>4, WorkersThin, ThinStep
<1> QED
  BY <1>1, <1>2, <1>3, <1>4 DEF Next

\* Whatever two connections both get, they get in the same order: the hub is
\* a totally ordered multicast.
THEOREM MulticastsAreOrdered == Spec => []SameOrder
<1>1. Init => IInv /\ StartInv /\ OrderInv
  BY InitIInv, InitOrder
<1>2. IInv /\ StartInv /\ OrderInv /\ [Next]_vars
        => IInv' /\ StartInv' /\ OrderInv'
  BY NextIInv, StartStep, NextOrder
<1>3. OrderInv => SameOrder
  BY DEF OrderInv, Ordered, Precedes, Streams, SameOrder, Before
<1> QED
  BY <1>1, <1>2, <1>3, PTL DEF Spec

=============================================================================
