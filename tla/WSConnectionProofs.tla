------------------------- MODULE WSConnectionProofs -------------------------
(***************************************************************************)
(* Proofs about WSConnection, for every set of iterators and every bound:  *)
(* its type invariant, the invariant that relates the queue, the waiters   *)
(* and the socket, that the class implements Mailbox, and that what send() *)
(* accepts arrives in order.                                               *)
(***************************************************************************)
EXTENDS WSConnection, TLAPS

-----------------------------------------------------------------------------
(***************************************************************************)
(* Sequences.                                                              *)
(***************************************************************************)

\* The type and the length of a sequence with an element added.
LEMMA AppendType ==
  ASSUME NEW S, NEW s \in Seq(S), NEW e \in S
  PROVE  Append(s, e) \in Seq(S)
  OBVIOUS

\* The first element and the rest of a sequence that is not empty.
LEMMA HeadTailType ==
  ASSUME NEW S, NEW s \in Seq(S), s # <<>>
  PROVE  Head(s) \in S /\ Tail(s) \in Seq(S)
  OBVIOUS

\* Two sequences joined.
LEMMA ConcatType ==
  ASSUME NEW S, NEW s \in Seq(S), NEW t \in Seq(S)
  PROVE  s \o t \in Seq(S)
  OBVIOUS

\* The empty sequence has every type.
LEMMA EmptyType ==
  ASSUME NEW S
  PROVE  <<>> \in Seq(S)
  OBVIOUS

-----------------------------------------------------------------------------
(***************************************************************************)
(* Type correctness.                                                       *)
(***************************************************************************)

\* The close handler keeps the types of the fields it sets.
LEMMA OnCloseType ==
  ASSUME TypeOK, OnClose
  PROVE  /\ backoff' \in BOOLEAN /\ closed' \in BOOLEAN
         /\ reader' \in [Readers -> {"busy", "waiting", "ended"}]
         /\ waiters' \in Seq(Readers)
  <1>1. CASE GivesUp
    <2>1. reader' = [r \in Readers |-> IF reader[r] = "waiting" THEN "ended" ELSE reader[r]]
      BY <1>1 DEF OnClose
    <2>2. reader' \in [Readers -> {"busy", "waiting", "ended"}]
      BY <2>1 DEF TypeOK
    <2>3. waiters' \in Seq(Readers)
      BY <1>1, EmptyType DEF OnClose
    <2> QED  BY <1>1, <2>2, <2>3 DEF OnClose, TypeOK
  <1>2. CASE ~GivesUp
    BY <1>2 DEF OnClose, TypeOK
  <1> QED  BY <1>1, <1>2

\* Initially every field has its type.
LEMMA InitType ==
  ASSUME Init
  PROVE  TypeOK
  <1> USE ConstAssumption
  <1>1. conns \in Conns  BY DEF Init, Conns
  <1>2. queue \in Seq(Message) /\ yielded \in Seq(Message) /\ down \in Seq(Message)
    BY EmptyType DEF Init
  <1>3. waiters \in Seq(Readers) /\ buffered \in Seq(1..MaxSends)
    BY EmptyType DEF Init
  <1>4. up \in [Conns -> Seq(1..MaxSends)] /\ arrived \in [Conns -> Seq(1..MaxSends)]
    BY EmptyType DEF Init
  <1>5. reader \in [Readers -> {"busy", "waiting", "ended"}]
    BY DEF Init
  <1>6. peer \in [Conns -> {"none", "open", "gone"}]
    BY DEF Init
  <1>7. sent \in 0..MaxSends /\ served \in 0..MaxServed
    BY DEF Init
  <1>8. ws \in ReadyStates
    BY DEF Init, ReadyStates
  <1> QED  BY <1>1, <1>2, <1>3, <1>4, <1>5, <1>6, <1>7, <1>8 DEF TypeOK, Init

-----------------------------------------------------------------------------
\* The bound on connections is never in the way of a reconnection: what leads to one
\* -- a loss, a handler that ends -- happens to no connection but the earlier ones.
BoundInv ==
  /\ backoff => conns < MaxConns
  /\ ws = "closing" /\ ~explicitClose => conns < MaxConns
  /\ ws \in {"connecting", "open"} /\ peer[conns] = "gone" => conns < MaxConns
  /\ \A c \in Conns : c > conns => peer[c] = "none"

\* Initially.
LEMMA InitBound ==
  ASSUME Init
  PROVE  BoundInv
  BY ConstAssumption DEF Init, BoundInv, Conns

\* Every step.
LEMMA NextBound ==
  ASSUME TypeOK, BoundInv, [Next]_vars
  PROVE  BoundInv'
  <1> USE ConstAssumption DEF TypeOK, BoundInv, Conns
  <1>1. CASE Opened  BY <1>1 DEF Opened, server
  <1>2. CASE Received  BY <1>2 DEF Received
  <1>3. CASE BackoffEnds  BY <1>3 DEF BackoffEnds, Connect
  <1>4. CASE Send  BY <1>4 DEF Send, server
  <1>5. CASE Close  BY <1>5 DEF Close, server
  <1>6. ASSUME NEW r \in Readers, Pull(r) PROVE BoundInv'
    BY <1>6 DEF Pull, server
  <1>7. CASE Lost  BY <1>7 DEF Lost, OnClose, MayFail, server
  <1>8. CASE CloseFrame  BY <1>8 DEF CloseFrame, client, server
  <1>9. CASE CloseCompletes  BY <1>9 DEF CloseCompletes, OnClose, GivesUp
  <1>10. CASE Accept  BY <1>10 DEF Accept, client
  <1>11. CASE Serve  BY <1>11 DEF Serve, client
  <1>12. ASSUME NEW c \in Conns, Arrive(c) PROVE BoundInv'
    BY <1>12 DEF Arrive, client
  <1>13. ASSUME NEW c \in Conns, HandlerEnds(c) PROVE BoundInv'
    BY <1>13 DEF HandlerEnds, client, MayFail
  <1>14. CASE UNCHANGED vars  BY <1>14 DEF vars, client, server
  <1> QED
    BY <1>1, <1>2, <1>3, <1>4, <1>5, <1>6, <1>7, <1>8, <1>9, <1>10, <1>11, <1>12, <1>13,
       <1>14 DEF Next

\* Every step keeps the types.
LEMMA NextType ==
  ASSUME TypeOK, BoundInv, [Next]_vars
  PROVE  TypeOK'
  <1> USE ConstAssumption
  <1>1. CASE Opened
    <2>1. up' \in [Conns -> Seq(1..MaxSends)]
      <3>1. up[conns] \o buffered \in Seq(1..MaxSends)
        BY ConcatType DEF TypeOK
      <3> QED  BY <1>1, <3>1 DEF Opened, TypeOK
    <2>2. buffered' \in Seq(1..MaxSends)
      BY <1>1, EmptyType DEF Opened, Unsent
    <2> QED  BY <1>1, <2>1, <2>2 DEF Opened, TypeOK, ReadyStates, server
  <1>2. CASE Received
    <2>1. Head(down) \in Message /\ Tail(down) \in Seq(Message)
      BY <1>2, HeadTailType DEF Received, TypeOK
    <2>2. down' \in Seq(Message)
      BY <1>2, <2>1 DEF Received
    <2>3. Append(queue, Head(down)) \in Seq(Message) /\ Append(yielded, Head(down)) \in Seq(Message)
      BY <2>1, AppendType DEF TypeOK
    <2>4. queue' \in Seq(Message) /\ yielded' \in Seq(Message)
      <3>1. CASE HasWaiter  BY <1>2, <2>3, <3>1 DEF Received, TypeOK
      <3>2. CASE ~HasWaiter  BY <1>2, <2>3, <3>2 DEF Received, Queued, TypeOK
      <3> QED  BY <3>1, <3>2
    <2>6. waiters' \in Seq(Readers)
      <3>1. CASE HasWaiter
        <4>1. Tail(waiters) \in Seq(Readers)
          BY <3>1, HeadTailType DEF HasWaiter, TypeOK
        <4> QED  BY <1>2, <3>1, <4>1 DEF Received, OtherWaiters
      <3>2. CASE ~HasWaiter  BY <1>2, <3>2 DEF Received, TypeOK
      <3> QED  BY <3>1, <3>2
    <2>5. reader' \in [Readers -> {"busy", "waiting", "ended"}]
      BY <1>2 DEF Received, TypeOK
    <2> QED  BY <1>2, <2>2, <2>4, <2>5, <2>6 DEF Received, TypeOK
  <1>3. CASE BackoffEnds
    <2>1. conns' \in Conns
      BY <1>3 DEF BackoffEnds, Connect, BoundInv, TypeOK, Conns
    <2>2. down' \in Seq(Message)
      BY <1>3, EmptyType DEF BackoffEnds, Connect
    <2>3. served' \in 0..MaxServed /\ ws' \in ReadyStates
      BY <1>3 DEF BackoffEnds, Connect, ReadyStates
    <2> QED  BY <1>3, <2>1, <2>2, <2>3 DEF BackoffEnds, TypeOK
  <1>4. CASE Send
    <2>1. sent' \in 1..MaxSends
      BY <1>4 DEF Send, TypeOK
    <2>2. buffered' \in Seq(1..MaxSends)
      <3>1. Append(buffered, sent') \in Seq(1..MaxSends)
        BY <2>1, AppendType DEF TypeOK
      <3>2. buffered \in Seq(1..MaxSends)
        BY DEF TypeOK
      <3> QED  BY <1>4, <3>1, <3>2 DEF Send
    <2>3. up' \in [Conns -> Seq(1..MaxSends)]
      <3>1. Append(up[conns], sent') \in Seq(1..MaxSends)
        BY <2>1, AppendType DEF TypeOK
      <3> QED  BY <1>4, <3>1 DEF Send, TypeOK
    <2> QED  BY <1>4, <2>1, <2>2, <2>3 DEF Send, TypeOK, server
  <1>5. CASE Close
    BY <1>5 DEF Close, TypeOK, ReadyStates, server
  <1>6. ASSUME NEW r \in Readers, Pull(r) PROVE TypeOK'
    <2>1. queue' \in Seq(Message) /\ yielded' \in Seq(Message)
      <3>1. queue \in Seq(Message) /\ yielded \in Seq(Message)
        BY DEF TypeOK
      <3>2. CASE queue = <<>>
        BY <1>6, <3>1, <3>2 DEF Pull
      <3>3. CASE queue # <<>>
        <4>1. Head(queue) \in Message /\ Tail(queue) \in Seq(Message)
          BY <3>1, <3>3, HeadTailType
        <4>2. Append(yielded, Head(queue)) \in Seq(Message)
          BY <3>1, <4>1, AppendType
        <4> QED  BY <1>6, <3>1, <4>1, <4>2 DEF Pull
      <3> QED  BY <3>2, <3>3
    <2>2. waiters' \in Seq(Readers)
      <3>1. Append(waiters, r) \in Seq(Readers) /\ waiters \in Seq(Readers)
        BY AppendType DEF TypeOK
      <3> QED  BY <1>6, <3>1 DEF Pull
    <2>3. reader' \in [Readers -> {"busy", "waiting", "ended"}]
      BY <1>6 DEF Pull, TypeOK
    <2> QED  BY <1>6, <2>1, <2>2, <2>3 DEF Pull, TypeOK, server
  <1>7. CASE Lost
    <2>1. OnClose /\ down' = <<>> /\ ws' = "closed"
      BY <1>7 DEF Lost
    <2>2. down' \in Seq(Message)
      BY <2>1, EmptyType
    <2> QED  BY <1>7, <2>1, <2>2, OnCloseType DEF Lost, OnClose, TypeOK, ReadyStates
  <1>8. CASE CloseFrame
    BY <1>8 DEF CloseFrame, TypeOK, ReadyStates, client, server
  <1>9. CASE CloseCompletes
    <2>1. OnClose /\ down' = <<>> /\ ws' = "closed"
      BY <1>9 DEF CloseCompletes
    <2>2. down' \in Seq(Message)
      BY <2>1, EmptyType
    <2> QED  BY <1>9, <2>1, <2>2, OnCloseType DEF CloseCompletes, OnClose, TypeOK, ReadyStates
  <1>10. CASE Accept
    BY <1>10 DEF Accept, TypeOK, client
  <1>11. CASE Serve
    <2>1. served' \in 1..MaxServed
      BY <1>11 DEF Serve, TypeOK
    <2>2. [conn |-> conns, n |-> served'] \in Message
      BY <2>1 DEF Message, TypeOK
    <2>3. down' \in Seq(Message)
      BY <1>11, <2>2, AppendType DEF Serve, TypeOK
    <2> QED  BY <1>11, <2>1, <2>3 DEF Serve, TypeOK, client
  <1>12. ASSUME NEW c \in Conns, Arrive(c) PROVE TypeOK'
    <2>1. Head(up[c]) \in 1..MaxSends /\ Tail(up[c]) \in Seq(1..MaxSends)
      BY <1>12, HeadTailType DEF Arrive, TypeOK
    <2>2. Append(arrived[c], Head(up[c])) \in Seq(1..MaxSends)
      BY <2>1, AppendType DEF TypeOK
    <2>3. up' \in [Conns -> Seq(1..MaxSends)] /\ arrived' \in [Conns -> Seq(1..MaxSends)]
      BY <1>12, <2>1, <2>2 DEF Arrive, TypeOK
    <2> QED  BY <1>12, <2>3 DEF Arrive, TypeOK, client
  <1>13. ASSUME NEW c \in Conns, HandlerEnds(c) PROVE TypeOK'
    <2>1. peer' \in [Conns -> {"none", "open", "gone"}]
      BY <1>13 DEF HandlerEnds, TypeOK
    <2>2. up' \in [Conns -> Seq(1..MaxSends)]
      BY <1>13, EmptyType DEF HandlerEnds, TypeOK
    <2> QED  BY <1>13, <2>1, <2>2 DEF HandlerEnds, TypeOK, client
  <1>14. CASE UNCHANGED vars
    BY <1>14 DEF vars, client, server, TypeOK
  <1> QED
    BY <1>1, <1>2, <1>3, <1>4, <1>5, <1>6, <1>7, <1>8, <1>9, <1>10, <1>11, <1>12, <1>13,
       <1>14 DEF Next

\* Every field of the class, and every bound, keeps its type.
THEOREM TypeCorrect == Spec => []TypeOK
  <1>1. Init => TypeOK /\ BoundInv
    BY InitType, InitBound
  <1>2. TypeOK /\ BoundInv /\ [Next]_vars => (TypeOK /\ BoundInv)'
    BY NextType, NextBound
  <1> QED  BY <1>1, <1>2, PTL DEF Spec

-----------------------------------------------------------------------------
(***************************************************************************)
(* The queue, the waiters and the socket.  NoLostWakeup is not inductive:  *)
(* that no iterator waits on a connection that is over needs to know that  *)
(* a waiting iterator has a resolver for the close handler to call, and    *)
(* that nothing is received once the connection is over, because its       *)
(* socket stays closed.                                                    *)
(***************************************************************************)
ClosedInv ==
  /\ closed => ws = "closed" /\ ~backoff /\ GivesUp
  /\ \A r \in Readers : reader[r] = "ended" => closed

ClassInv == NoLostWakeup /\ WaitersMatch /\ OneSocket /\ ClosedInv /\ BufferFlushed

\* Initially.
LEMMA InitClass ==
  ASSUME Init
  PROVE  ClassInv
  BY DEF Init, ClassInv, NoLostWakeup, WaitersMatch, OneSocket, ClosedInv, BufferFlushed

\* The close handler.
LEMMA OnCloseClass ==
  ASSUME TypeOK, ClassInv, OnClose, ws' = "closed", ws # "closed", UNCHANGED reconnect
  PROVE  ClassInv'
  <1> USE DEF ClassInv
  <1>1. ~backoff /\ ~closed
    BY DEF OneSocket, ClosedInv
  <1>2. CASE GivesUp
    <2>1. closed' /\ waiters' = <<>> /\ ~backoff' /\ GivesUp'
      BY <1>1, <1>2 DEF OnClose, GivesUp
    <2>2. \A r \in Readers : reader'[r] # "waiting"
      BY <1>2 DEF OnClose
    <2>3. WaitersMatch'
      BY <2>1, <2>2 DEF WaitersMatch
    <2> QED  BY <2>1, <2>3 DEF NoLostWakeup, OneSocket, ClosedInv, BufferFlushed
  <1>3. CASE ~GivesUp
    <2>1. UNCHANGED <<closed, reader, waiters, queue>> /\ backoff'
      BY <1>3 DEF OnClose
    <2>2. WaitersMatch' /\ NoLostWakeup'
      BY <2>1 DEF WaitersMatch, NoLostWakeup
    <2>3. ClosedInv'
      BY <1>1, <2>1 DEF ClosedInv
    <2> QED  BY <1>1, <2>1, <2>2, <2>3 DEF OneSocket, BufferFlushed
  <1> QED  BY <1>2, <1>3

\* Steps that leave the queue, the waiters and the iterators alone.
LEMMA Untouched ==
  ASSUME TypeOK, ClassInv, UNCHANGED <<queue, waiters, reader, closed>>
  PROVE  NoLostWakeup' /\ WaitersMatch'
  BY DEF ClassInv, NoLostWakeup, WaitersMatch

\* Every step.
LEMMA NextClass ==
  ASSUME TypeOK, ClassInv, [Next]_vars
  PROVE  ClassInv'
  <1>1. CASE Opened
    <2>1. NoLostWakeup' /\ WaitersMatch'
      BY <1>1, Untouched DEF Opened
    <2>2. OneSocket' /\ ClosedInv' /\ BufferFlushed'
      BY <1>1 DEF Opened, Unsent, ClassInv, OneSocket, ClosedInv, BufferFlushed, GivesUp
    <2> QED  BY <2>1, <2>2 DEF ClassInv
  <1>2. CASE Received
    <2>1. ~closed /\ ~backoff
      BY <1>2 DEF Received, ClassInv, OneSocket, ClosedInv
    <2>2. CASE HasWaiter
      <3>1. waiters # <<>> /\ queue = <<>> /\ waiters' = Tail(waiters) /\ queue' = <<>>
        BY <1>2, <2>2 DEF Received, HasWaiter, OtherWaiters, ClassInv, NoLostWakeup
      <3>2. reader' = [reader EXCEPT ![Head(waiters)] = "busy"]
        BY <1>2, <2>2 DEF Received
      <3>3. waiters \in Seq(Readers) /\ Head(waiters) = waiters[1] /\ Len(waiters) \in Nat \ {0}
        BY <3>1 DEF TypeOK
      <3>4. Len(waiters') = Len(waiters) - 1
            /\ \A i \in 1..Len(waiters') : waiters'[i] = waiters[i + 1]
        BY <3>1, <3>3
      <3>5. \A i, j \in 1..Len(waiters') : waiters'[i] = waiters'[j] => i = j
        BY <3>3, <3>4 DEF ClassInv, WaitersMatch
      <3>6. ASSUME NEW r \in Readers
            PROVE  reader'[r] = "waiting" <=> \E i \in 1..Len(waiters') : waiters'[i] = r
        <4>1. CASE r = waiters[1]
          <5>1. reader'[r] = "busy"
            BY <3>2, <3>3, <4>1 DEF TypeOK
          <5>2. \A i \in 1..Len(waiters') : waiters[i + 1] # waiters[1]
            BY <3>3, <3>4 DEF ClassInv, WaitersMatch
          <5> QED  BY <3>4, <4>1, <5>1, <5>2
        <4>2. CASE r # waiters[1]
          <5>1. reader'[r] = reader[r]
            BY <3>2, <3>3, <4>2 DEF TypeOK
          <5>2. reader[r] = "waiting" <=> \E i \in 1..Len(waiters) : waiters[i] = r
            BY DEF ClassInv, WaitersMatch
          <5>3. (\E i \in 1..Len(waiters) : waiters[i] = r)
                <=> \E i \in 1..Len(waiters') : waiters[i + 1] = r
            <6>1. ASSUME NEW i \in 1..Len(waiters), waiters[i] = r
                  PROVE  \E k \in 1..Len(waiters') : waiters[k + 1] = r
              <7>1. i # 1 /\ i - 1 \in 1..Len(waiters') /\ (i - 1) + 1 = i
                BY <3>3, <3>4, <4>2, <6>1
              <7> QED  BY <6>1, <7>1
            <6>2. ASSUME NEW k \in 1..Len(waiters'), waiters[k + 1] = r
                  PROVE  \E i \in 1..Len(waiters) : waiters[i] = r
              <7>1. k + 1 \in 1..Len(waiters)
                BY <3>3, <3>4
              <7> QED  BY <6>2, <7>1
            <6> QED  BY <6>1, <6>2
          <5> QED  BY <3>4, <5>1, <5>2, <5>3
        <4> QED  BY <4>1, <4>2
      <3>7. WaitersMatch'
        BY <3>5, <3>6 DEF WaitersMatch
      <3>8. ClosedInv'
        BY <1>2, <2>1, <3>2, <3>3 DEF Received, ClassInv, ClosedInv, TypeOK
      <3>9. NoLostWakeup' /\ OneSocket' /\ BufferFlushed'
        BY <1>2, <2>1, <3>1
        DEF Received, NoLostWakeup, OneSocket, ClassInv, BufferFlushed
      <3> QED  BY <3>7, <3>8, <3>9 DEF ClassInv
    <2>3. CASE ~HasWaiter
      <3>1. waiters = <<>> /\ UNCHANGED <<waiters, reader, closed, backoff>>
        BY <1>2, <2>3 DEF Received, HasWaiter
      <3>2. WaitersMatch'
        BY <3>1 DEF ClassInv, WaitersMatch
      <3> QED
        BY <1>2, <2>1, <3>1, <3>2
        DEF Received, ClassInv, NoLostWakeup, OneSocket, ClosedInv, BufferFlushed
    <2> QED  BY <2>2, <2>3
  <1>3. CASE BackoffEnds
    <2>1. NoLostWakeup' /\ WaitersMatch'
      BY <1>3, Untouched DEF BackoffEnds
    <2>2. OneSocket' /\ ClosedInv' /\ BufferFlushed'
      BY <1>3 DEF BackoffEnds, Connect, ClassInv, OneSocket, ClosedInv, BufferFlushed, TypeOK
    <2> QED  BY <2>1, <2>2 DEF ClassInv
  <1>4. CASE Send
    <2>1. NoLostWakeup' /\ WaitersMatch'
      BY <1>4, Untouched DEF Send
    <2>2. OneSocket' /\ ClosedInv' /\ BufferFlushed'
      BY <1>4 DEF Send, ClassInv, OneSocket, ClosedInv, BufferFlushed, GivesUp
    <2> QED  BY <2>1, <2>2 DEF ClassInv
  <1>5. CASE Close
    <2>1. NoLostWakeup' /\ WaitersMatch'
      BY <1>5, Untouched DEF Close
    <2>2. OneSocket' /\ ClosedInv' /\ BufferFlushed'
      BY <1>5 DEF Close, ClassInv, OneSocket, ClosedInv, BufferFlushed, GivesUp
    <2> QED  BY <2>1, <2>2 DEF ClassInv
  <1>6. ASSUME NEW r \in Readers, Pull(r) PROVE ClassInv'
    <2>1. UNCHANGED <<reconnect, ws, backoff, closed, explicitClose, buffered>> /\ reader[r] = "busy"
      BY <1>6 DEF Pull
    <2>2. OneSocket' /\ BufferFlushed'
      BY <2>1 DEF ClassInv, OneSocket, BufferFlushed
    <2>3. CASE queue # <<>> /\ UNCHANGED <<reader, waiters>>
      <3>1. waiters = <<>>
        BY <2>3 DEF ClassInv, NoLostWakeup
      <3> QED
        BY <2>1, <2>2, <2>3, <3>1 DEF ClassInv, NoLostWakeup, WaitersMatch, ClosedInv, GivesUp
    <2>4. CASE MayEnd /\ reader' = [reader EXCEPT ![r] = "ended"] /\ UNCHANGED <<queue, waiters>>
      <3>1. closed /\ waiters = <<>>
        BY <2>4 DEF MayEnd, ClassInv, NoLostWakeup
      <3>2. WaitersMatch'
        BY <2>4, <3>1 DEF ClassInv, WaitersMatch, TypeOK
      <3>3. ClosedInv'
        BY <2>1, <3>1 DEF ClassInv, ClosedInv, GivesUp
      <3> QED  BY <2>1, <2>2, <2>4, <3>1, <3>2, <3>3 DEF ClassInv, NoLostWakeup
    <2>5. CASE /\ queue = <<>> /\ ~closed
               /\ reader' = [reader EXCEPT ![r] = "waiting"]
               /\ waiters' = Append(waiters, r)
               /\ UNCHANGED queue
      <3>1. waiters \in Seq(Readers) /\ Len(waiters) \in Nat
        BY DEF TypeOK
      <3>2. /\ Len(waiters') = Len(waiters) + 1
            /\ waiters'[Len(waiters) + 1] = r
            /\ \A i \in 1..Len(waiters) : waiters'[i] = waiters[i]
        BY <2>5, <3>1
      <3>3. \A i \in 1..Len(waiters) : waiters[i] # r
        BY <2>1 DEF ClassInv, WaitersMatch
      <3>4. \A i, j \in 1..Len(waiters') : waiters'[i] = waiters'[j] => i = j
        BY <3>1, <3>2, <3>3 DEF ClassInv, WaitersMatch
      <3>5. ASSUME NEW q \in Readers
            PROVE  reader'[q] = "waiting" <=> \E i \in 1..Len(waiters') : waiters'[i] = q
        <4>1. CASE q = r
          BY <2>5, <3>1, <3>2, <4>1 DEF TypeOK
        <4>2. CASE q # r
          <5>1. reader'[q] = reader[q]
            BY <2>5, <4>2 DEF TypeOK
          <5>2. reader[q] = "waiting" <=> \E i \in 1..Len(waiters) : waiters[i] = q
            BY DEF ClassInv, WaitersMatch
          <5> QED  BY <3>1, <3>2, <4>2, <5>1, <5>2
        <4> QED  BY <4>1, <4>2
      <3>6. WaitersMatch'
        BY <3>4, <3>5 DEF WaitersMatch
      <3>7. ClosedInv'
        BY <2>1, <2>5 DEF ClassInv, ClosedInv, GivesUp, TypeOK
      <3> QED  BY <2>1, <2>2, <2>5, <3>6, <3>7 DEF ClassInv, NoLostWakeup
    <2> QED  BY <1>6, <2>3, <2>4, <2>5 DEF Pull
  <1>7. CASE Lost
    BY <1>7, OnCloseClass DEF Lost
  <1>8. CASE CloseFrame
    <2>1. NoLostWakeup' /\ WaitersMatch'
      BY <1>8, Untouched DEF CloseFrame, client
    <2>2. OneSocket' /\ ClosedInv' /\ BufferFlushed'
      BY <1>8 DEF CloseFrame, client, ClassInv, OneSocket, ClosedInv, BufferFlushed, GivesUp
    <2> QED  BY <2>1, <2>2 DEF ClassInv
  <1>9. CASE CloseCompletes
    BY <1>9, OnCloseClass DEF CloseCompletes
  <1>10. CASE UNCHANGED <<reconnect, ws, client>>
    BY <1>10 DEF client, ClassInv, NoLostWakeup, WaitersMatch, OneSocket, ClosedInv,
                 BufferFlushed, GivesUp
  <1>11. Accept \/ Serve \/ (\E c \in Conns : Arrive(c) \/ HandlerEnds(c)) \/ UNCHANGED vars
         => UNCHANGED <<reconnect, ws, client>>
    BY DEF Accept, Serve, Arrive, HandlerEnds, vars
  <1> QED
    BY <1>1, <1>2, <1>3, <1>4, <1>5, <1>6, <1>7, <1>8, <1>9, <1>10, <1>11 DEF Next

\* The invariant of the class.
LEMMA ClassCorrect == Spec => [](TypeOK /\ ClassInv)
  <1>1. Init => TypeOK /\ ClassInv
    BY InitType, InitClass
  <1>2. TypeOK /\ BoundInv /\ ClassInv /\ [Next]_vars => ClassInv'
    BY NextClass
  <1>3. Init => BoundInv
    BY InitBound
  <1>4. TypeOK /\ BoundInv /\ [Next]_vars => (TypeOK /\ BoundInv)'
    BY NextType, NextBound
  <1> QED  BY <1>1, <1>2, <1>3, <1>4, PTL DEF Spec

\* messages() loses no wake-up: an iterator never waits beside a message it could have,
\* nor on a connection that is over.
THEOREM Wakeups == Spec => []NoLostWakeup
  <1>1. ClassInv => NoLostWakeup  BY DEF ClassInv
  <1> QED  BY <1>1, ClassCorrect, PTL

\* A reconnection is pending only while the last socket is closed and no close() or
\* end of the connection has been honoured.
THEOREM SingleSocket == Spec => []OneSocket
  <1>1. ClassInv => OneSocket  BY DEF ClassInv
  <1> QED  BY <1>1, ClassCorrect, PTL

\* send() never overtakes what was buffered while the socket was down.
THEOREM FlushedFirst == Spec => []BufferFlushed
  <1>1. ClassInv => BufferFlushed  BY DEF ClassInv
  <1> QED  BY <1>1, ClassCorrect, PTL

\* With reconnect, messages() returns only after close().
THEOREM ReconnectContinues == Spec => []OnlyCloseEnds
  <1>1. ClassInv => OnlyCloseEnds
    BY DEF ClassInv, ClosedInv, GivesUp, OnlyCloseEnds
  <1> QED  BY <1>1, ClassCorrect, PTL

-----------------------------------------------------------------------------
(***************************************************************************)
(* The class implements Mailbox: what has been received is what has been   *)
(* yielded followed by the queue.                                          *)
(***************************************************************************)

\* Adding to the second of two joined sequences.
LEMMA AppendConcat ==
  ASSUME NEW S, NEW s \in Seq(S), NEW t \in Seq(S), NEW e \in S
  PROVE  s \o Append(t, e) = Append(s \o t, e)
  OBVIOUS

\* Moving the first element of the second sequence to the end of the first.
LEMMA MoveHead ==
  ASSUME NEW S, NEW s \in Seq(S), NEW t \in Seq(S), t # <<>>
  PROVE  Append(s, Head(t)) \o Tail(t) = s \o t
  OBVIOUS

\* Their lengths.
LEMMA ConcatLen ==
  ASSUME NEW S, NEW s \in Seq(S), NEW t \in Seq(S)
  PROVE  /\ Len(s \o t) = Len(s) + Len(t)
         /\ Len(s) \in Nat /\ Len(t) \in Nat
         /\ Len(t) = 0 <=> t = <<>>
  OBVIOUS

\* An iterator that ends finds nothing left to yield.
LEMMA NothingLeft ==
  ASSUME TypeOK
  PROVE  Len(yielded) = Len(Log) <=> queue = <<>>
  <1>1. yielded \in Seq(Message) /\ queue \in Seq(Message)
    BY DEF TypeOK
  <1> QED  BY <1>1, ConcatLen DEF Log

Ended == {r \in Readers : reader[r] = "ended"}

\* The initial state of the class is an empty mailbox.
LEMMA InitMailbox ==
  ASSUME Init
  PROVE  Promise!Init
  BY DEF Init, Promise!Init, Log

\* The close handler ends the connection, and iterators only if the queue is empty.
LEMMA OnCloseMailbox ==
  ASSUME TypeOK, ClassInv, OnClose
  PROVE  Promise!Next \/ UNCHANGED <<Log, Len(yielded), closed, Ended>>
  <1>1. UNCHANGED <<Log, Len(yielded)>>
    BY DEF OnClose, Log
  <1>2. CASE GivesUp
    <2>1. closed' = TRUE
      BY <1>2 DEF OnClose
    <2>2. reader' = [r \in Readers |-> IF reader[r] = "waiting" THEN "ended" ELSE reader[r]]
      BY <1>2 DEF OnClose
    <2>3. Ended \subseteq Ended' /\ Ended' \in SUBSET Readers
      BY <2>2 DEF Ended
    <2>4. ASSUME Ended' # Ended
          PROVE  Len(yielded) = Len(Log)
      <3>1. PICK r \in Readers : reader[r] = "waiting"
        BY <2>2, <2>4 DEF Ended
      <3>2. PICK i \in 1..Len(waiters) : waiters[i] = r
        BY <3>1 DEF ClassInv, WaitersMatch
      <3>3. waiters # <<>>
        BY <3>2
      <3> QED  BY <3>3, NothingLeft DEF ClassInv, NoLostWakeup
    <2>5. Promise!Finish
      BY <1>1, <2>1, <2>3, <2>4 DEF Promise!Finish, Ended
    <2> QED  BY <2>5 DEF Promise!Next
  <1>3. CASE ~GivesUp
    BY <1>1, <1>3 DEF OnClose, Ended
  <1> QED  BY <1>2, <1>3

\* Every step of the class is a step of the mailbox, or none.
LEMMA NextMailbox ==
  ASSUME TypeOK, ClassInv, [Next]_vars
  PROVE  Promise!Next \/ UNCHANGED <<Log, Len(yielded), closed, Ended>>
  <1>1. yielded \in Seq(Message) /\ queue \in Seq(Message) /\ down \in Seq(Message)
    BY DEF TypeOK
  <1>2. CASE Received
    <2>1. down # <<>> /\ UNCHANGED closed /\ ~closed
      BY <1>2 DEF Received, ClassInv, ClosedInv
    <2>2. Head(down) \in Message
      BY <1>1, <2>1, HeadTailType
    <2>3. CASE HasWaiter
      <3>1. queue = <<>> /\ queue' = <<>> /\ yielded' = Append(yielded, Head(down))
        BY <1>2, <2>3 DEF Received, HasWaiter, ClassInv, NoLostWakeup
      <3>2. Log' = Append(Log, Head(down))
        BY <1>1, <2>2, <3>1 DEF Log
      <3>3. Len(yielded) = Len(Log) /\ Len(yielded') = Len(yielded) + 1
        BY <1>1, <2>2, <3>1, NothingLeft
      <3>4. Ended' = Ended
        <4>1. waiters \in Seq(Readers) /\ waiters # <<>>
          BY <2>3 DEF HasWaiter, TypeOK
        <4>2. Head(waiters) = waiters[1] /\ 1 \in 1..Len(waiters) /\ Head(waiters) \in Readers
          BY <4>1
        <4>3. reader[Head(waiters)] = "waiting"
          BY <4>2 DEF ClassInv, WaitersMatch
        <4>4. reader' = [reader EXCEPT ![Head(waiters)] = "busy"]
          BY <1>2, <2>3 DEF Received
        <4> QED  BY <4>3, <4>4 DEF Ended, TypeOK
      <3>5. Promise!Arrive(Head(down))
        BY <2>1, <3>2, <3>3, <3>4 DEF Promise!Arrive, Ended
      <3> QED  BY <2>2, <3>5 DEF Promise!Next
    <2>4. CASE ~HasWaiter
      <3>1. queue' = Append(queue, Head(down)) /\ UNCHANGED <<yielded, reader>>
        BY <1>2, <2>4 DEF Received, Queued
      <3>2. Log' = Append(Log, Head(down))
        BY <1>1, <2>2, <3>1, AppendConcat DEF Log
      <3>3. Promise!Arrive(Head(down))
        BY <2>1, <3>1, <3>2 DEF Promise!Arrive
      <3> QED  BY <2>2, <3>3 DEF Promise!Next
    <2> QED  BY <2>3, <2>4
  <1>3. ASSUME NEW r \in Readers, Pull(r)
        PROVE  Promise!Next \/ UNCHANGED <<Log, Len(yielded), closed, Ended>>
    <2>1. reader[r] = "busy" /\ UNCHANGED closed
      BY <1>3 DEF Pull
    <2>2. CASE /\ queue # <<>>
               /\ yielded' = Append(yielded, Head(queue)) /\ queue' = Tail(queue)
               /\ UNCHANGED reader
      <3>1. Log' = Log
        BY <1>1, <2>2, MoveHead DEF Log
      <3>2. Len(yielded') = Len(yielded) + 1
        <4>1. Head(queue) \in Message
          BY <1>1, <2>2, HeadTailType
        <4> QED  BY <1>1, <2>2, <4>1
      <3>3. Len(yielded) < Len(Log)
        BY <1>1, <2>2, ConcatLen DEF Log
      <3>4. Promise!Take
        BY <2>1, <2>2, <3>1, <3>2, <3>3 DEF Promise!Take
      <3> QED  BY <3>4 DEF Promise!Next
    <2>3. CASE /\ MayEnd
               /\ reader' = [reader EXCEPT ![r] = "ended"]
               /\ UNCHANGED <<queue, yielded>>
      <3>1. closed /\ Len(yielded) = Len(Log)
        BY <2>3, NothingLeft DEF MayEnd
      <3>2. Ended' = Ended \cup {r}
        BY <2>3 DEF Ended, TypeOK
      <3>3. Promise!End(r)
        BY <2>1, <2>3, <3>1, <3>2 DEF Promise!End, Ended, Log
      <3> QED  BY <3>3 DEF Promise!Next
    <2>4. CASE reader' = [reader EXCEPT ![r] = "waiting"] /\ UNCHANGED <<queue, yielded>>
      <3>1. Ended' = Ended
        BY <2>1, <2>4 DEF Ended, TypeOK
      <3> QED  BY <2>1, <2>4, <3>1 DEF Log
    <2> QED  BY <1>3, <2>2, <2>3, <2>4 DEF Pull
  <1>4. CASE Lost
    BY <1>4, OnCloseMailbox DEF Lost
  <1>5. CASE CloseCompletes
    BY <1>5, OnCloseMailbox DEF CloseCompletes
  <1>6. ASSUME UNCHANGED <<yielded, queue, closed, reader>>
        PROVE  UNCHANGED <<Log, Len(yielded), closed, Ended>>
    BY <1>6 DEF Log, Ended
  <1>7. \/ Opened \/ BackoffEnds \/ Send \/ Close \/ CloseFrame \/ Accept \/ Serve
        \/ (\E c \in Conns : Arrive(c) \/ HandlerEnds(c)) \/ UNCHANGED vars
        => UNCHANGED <<yielded, queue, closed, reader>>
    BY DEF Opened, BackoffEnds, Send, Close, CloseFrame, Accept, Serve, Arrive, HandlerEnds,
           vars, client
  <1> QED  BY <1>2, <1>3, <1>4, <1>5, <1>6, <1>7 DEF Next

\* messages() keeps Mailbox's promise: every message received is yielded once, in order,
\* and an iterator returns only when the connection is over and nothing is left.
THEOREM ImplementsMailbox == Spec => MailboxSpec
  <1>1. Init => Promise!Init
    BY InitMailbox
  <1>2. TypeOK /\ ClassInv /\ [Next]_vars => [Promise!Next]_(Promise!mailbox)
    BY NextMailbox DEF Promise!mailbox, Ended
  <1> QED  BY <1>1, <1>2, ClassCorrect, PTL DEF Spec, MailboxSpec, Promise!Spec

-----------------------------------------------------------------------------
(***************************************************************************)
(* What send() accepted arrives in order.  SendOrder speaks of sequences   *)
(* that are joined; OrderInv speaks of their parts, so that a step is      *)
(* judged by the one part it changes.                                      *)
(***************************************************************************)
Before(s, t) == \A i \in 1..Len(s), j \in 1..Len(t) : s[i] < t[j]
UpTo(s, m) == \A i \in 1..Len(s) : s[i] <= m

OrderInv ==
  /\ Increasing(buffered) /\ UpTo(buffered, sent)
  /\ \A c \in Conns :
       /\ Increasing(Wire(c)) /\ UpTo(Wire(c), sent)
       /\ Before(Wire(c), buffered)
       /\ c > conns => Wire(c) = <<>>
  /\ \A c, d \in Conns : c < d => Before(Wire(c), Wire(d))

\* An element of two sequences joined is one of the first or one of the second.
LEMMA JoinElement ==
  ASSUME NEW s \in Seq(Nat), NEW t \in Seq(Nat), NEW i \in 1..Len(s \o t)
  PROVE  \/ i \in 1..Len(s) /\ (s \o t)[i] = s[i]
         \/ i > Len(s) /\ i - Len(s) \in 1..Len(t) /\ (s \o t)[i] = t[i - Len(s)]
  OBVIOUS

\* Two increasing sequences, one before the other, are increasing when joined.
LEMMA JoinIncreasing ==
  ASSUME NEW s \in Seq(Nat), NEW t \in Seq(Nat), Increasing(s), Increasing(t), Before(s, t)
  PROVE  Increasing(s \o t)
  <1>1. Len(s) \in Nat /\ Len(t) \in Nat /\ Len(s \o t) \in Nat
    OBVIOUS
  <1>2. SUFFICES ASSUME NEW i \in 1..Len(s \o t), NEW j \in 1..Len(s \o t), i < j
                 PROVE  (s \o t)[i] < (s \o t)[j]
    BY DEF Increasing
  <1>3. CASE j \in 1..Len(s) /\ (s \o t)[j] = s[j]
    BY <1>1, <1>2, <1>3, JoinElement DEF Increasing
  <1>4. CASE j - Len(s) \in 1..Len(t) /\ (s \o t)[j] = t[j - Len(s)]
    <2>1. CASE i \in 1..Len(s) /\ (s \o t)[i] = s[i]
      BY <1>4, <2>1 DEF Before
    <2>2. CASE i - Len(s) \in 1..Len(t) /\ (s \o t)[i] = t[i - Len(s)]
      <3>1. i - Len(s) < j - Len(s)
        BY <1>1, <1>2
      <3>2. t[i - Len(s)] < t[j - Len(s)]
        BY <1>4, <2>2, <3>1 DEF Increasing
      <3> QED  BY <1>4, <2>2, <3>2
    <2> QED  BY <2>1, <2>2, JoinElement
  <1> QED  BY <1>2, <1>3, <1>4, JoinElement

\* What is before each of two sequences is before both joined.
LEMMA BeforeJoin ==
  ASSUME NEW r \in Seq(Nat), NEW s \in Seq(Nat), NEW t \in Seq(Nat),
         Before(r, s), Before(r, t)
  PROVE  Before(r, s \o t)
  BY DEF Before

\* A bound on two sequences bounds them joined.
LEMMA JoinUpTo ==
  ASSUME NEW s \in Seq(Nat), NEW t \in Seq(Nat), NEW m \in Nat, UpTo(s, m), UpTo(t, m)
  PROVE  UpTo(s \o t, m)
  BY DEF UpTo

\* The next number is above everything up to the last one.
LEMMA NextNumber ==
  ASSUME NEW s \in Seq(Nat), NEW m \in Nat, UpTo(s, m)
  PROVE  /\ Before(s, <<m + 1>>) /\ UpTo(s, m + 1)
         /\ Increasing(<<m + 1>>) /\ UpTo(<<m + 1>>, m + 1)
  BY DEF UpTo, Before, Increasing

\* Joining is associative.
LEMMA JoinAssociative ==
  ASSUME NEW r \in Seq(Nat), NEW s \in Seq(Nat), NEW t \in Seq(Nat)
  PROVE  r \o (s \o t) = (r \o s) \o t
  OBVIOUS

\* To add an element is to join a sequence of one.
LEMMA AppendJoins ==
  ASSUME NEW s \in Seq(Nat), NEW e \in Nat
  PROVE  Append(s, e) = s \o <<e>>
  OBVIOUS

\* The sequences of a state hold numbers.
LEMMA OrderType ==
  ASSUME TypeOK
  PROVE  /\ sent \in Nat /\ conns \in Conns /\ Conns \subseteq Nat
         /\ buffered \in Seq(Nat)
         /\ \A c \in Conns : Wire(c) \in Seq(Nat) /\ up[c] \in Seq(Nat) /\ arrived[c] \in Seq(Nat)
  <1>1. \A s \in Seq(1..MaxSends) : s \in Seq(Nat)
    BY ConstAssumption
  <1>2. buffered \in Seq(Nat) /\ \A c \in Conns : up[c] \in Seq(Nat) /\ arrived[c] \in Seq(Nat)
    BY <1>1 DEF TypeOK
  <1> QED  BY <1>2, ConcatType, ConstAssumption DEF TypeOK, Conns, Wire

\* Nothing has been sent yet.
LEMMA InitOrder ==
  ASSUME Init
  PROVE  OrderInv
  <1>1. \A c \in Conns : Wire(c) = <<>>
    BY DEF Init, Wire
  <1> QED  BY <1>1 DEF Init, OrderInv, Increasing, UpTo, Before

\* A step that leaves the messages on their way where they are keeps their order.
LEMMA SameWires ==
  ASSUME TypeOK, TypeOK', OrderInv, \A c \in Conns : Wire(c)' = Wire(c), UNCHANGED <<buffered, sent>>,
         conns' = conns \/ conns' = conns + 1
  PROVE  OrderInv'
  <1>1. \A c \in Conns : c > conns' => c > conns
    BY OrderType DEF Conns, TypeOK
  <1> QED  BY <1>1 DEF OrderInv, Increasing, UpTo, Before

\* Every step.
LEMMA NextOrder ==
  ASSUME TypeOK, TypeOK', BufferFlushed, OrderInv, [Next]_vars
  PROVE  OrderInv'
  <1> DEFINE NumbersOf(c) ==
        Wire(c) \in Seq(Nat) /\ up[c] \in Seq(Nat) /\ arrived[c] \in Seq(Nat)
  <1>0. /\ sent \in Nat /\ conns \in Conns /\ Conns \subseteq Nat
        /\ buffered \in Seq(Nat)
        /\ \A c \in Conns : NumbersOf(c)
    BY OrderType
  <1> USE <1>0
  <1>1. CASE Opened
    <2>1. buffered' = <<>> /\ UNCHANGED <<sent, conns, arrived>>
      BY <1>1 DEF Opened, Unsent, server
    <2>2. \A c \in Conns : Wire(c)' = IF c = conns THEN Wire(c) \o buffered ELSE Wire(c)
      <3>1. up' = [up EXCEPT ![conns] = @ \o buffered]
        BY <1>1 DEF Opened
      <3>2. \A c \in Conns : arrived[c] \o (up[c] \o buffered) = (arrived[c] \o up[c]) \o buffered
        BY JoinAssociative
      <3> QED  BY <2>1, <3>1, <3>2 DEF Wire, TypeOK
    <2>3. /\ Increasing(Wire(conns) \o buffered) /\ UpTo(Wire(conns) \o buffered, sent)
      BY JoinIncreasing, JoinUpTo DEF OrderInv
    <2>4. ASSUME NEW c \in Conns, NEW d \in Conns, c < d
          PROVE  Before(Wire(c)', Wire(d)')
      <3>1. CASE d = conns
        <4>1. Before(Wire(c), Wire(d)) /\ Before(Wire(c), buffered)
          BY <2>4 DEF OrderInv
        <4>2. Before(Wire(c), Wire(d) \o buffered)
          BY <4>1, BeforeJoin
        <4>3. Wire(c)' = Wire(c) /\ Wire(d)' = Wire(d) \o buffered
          BY <2>2, <2>4, <3>1
        <4> QED  BY <4>2, <4>3
      <3>2. CASE c = conns
        <4>1. Wire(d) = <<>> /\ Wire(d)' = Wire(d)
          BY <2>2, <2>4, <3>2 DEF OrderInv
        <4> QED  BY <4>1 DEF Before
      <3>3. CASE c # conns /\ d # conns
        BY <2>2, <2>4, <3>3 DEF OrderInv
      <3> QED  BY <3>1, <3>2, <3>3
    <2>5. ASSUME NEW c \in Conns
          PROVE  /\ Increasing(Wire(c)') /\ UpTo(Wire(c)', sent) /\ Before(Wire(c)', <<>>)
                 /\ c > conns => Wire(c)' = <<>>
      <3>1. Before(Wire(c)', <<>>)
        BY DEF Before
      <3>2. CASE c = conns
        <4>1. Wire(c)' = Wire(conns) \o buffered /\ ~(c > conns)
          BY <2>2, <3>2
        <4> QED  BY <2>3, <3>1, <4>1
      <3>3. CASE c # conns
        BY <2>2, <3>1, <3>3 DEF OrderInv
      <3> QED  BY <3>2, <3>3
    <2>6. Increasing(<<>>) /\ UpTo(<<>>, sent)
      BY DEF Increasing, UpTo
    <2> QED  BY <2>1, <2>4, <2>5, <2>6 DEF OrderInv, Increasing, UpTo, Before
  <1>2. CASE Send
    <2>1. sent' = sent + 1 /\ UNCHANGED <<conns, arrived>>
      BY <1>2 DEF Send, server
    <2> DEFINE New == <<sent + 1>>
    <2>2. New \in Seq(Nat) /\ sent + 1 \in Nat
      OBVIOUS
    <2>3. CASE ws = "open"
      <3>1. buffered = <<>> /\ buffered' = <<>> /\ up' = [up EXCEPT ![conns] = Append(@, sent')]
        BY <1>2, <2>3 DEF Send, BufferFlushed
      <3>2. \A c \in Conns : Wire(c)' = IF c = conns THEN Wire(c) \o New ELSE Wire(c)
        <4>1. \A c \in Conns : arrived[c] \o Append(up[c], sent + 1) = (arrived[c] \o up[c]) \o New
          <5>1. ASSUME NEW c \in Conns
                PROVE  arrived[c] \o Append(up[c], sent + 1) = (arrived[c] \o up[c]) \o New
            <6>1. sent + 1 \in Nat /\ up[c] \in Seq(Nat) /\ arrived[c] \in Seq(Nat)
              OBVIOUS
            <6>2. Append(up[c], sent + 1) = up[c] \o New
              BY <6>1, AppendJoins
            <6>3. arrived[c] \o (up[c] \o New) = (arrived[c] \o up[c]) \o New
              BY <2>2, <6>1, JoinAssociative
            <6> QED  BY <6>2, <6>3
          <5> QED  BY <5>1
        <4> QED  BY <2>1, <3>1, <4>1 DEF Wire, TypeOK
      <3>3. Increasing(Wire(conns) \o New) /\ UpTo(Wire(conns) \o New, sent + 1)
        <4>1. Increasing(Wire(conns)) /\ UpTo(Wire(conns), sent)
          BY DEF OrderInv
        <4>2. /\ Before(Wire(conns), New) /\ UpTo(Wire(conns), sent + 1)
              /\ Increasing(New) /\ UpTo(New, sent + 1)
          BY <4>1, NextNumber
        <4>3. Increasing(Wire(conns) \o New)
          BY <2>2, <4>1, <4>2, JoinIncreasing
        <4>4. UpTo(Wire(conns) \o New, sent + 1)
          BY <2>2, <4>2, JoinUpTo
        <4> QED  BY <4>3, <4>4
      <3>4. ASSUME NEW c \in Conns, NEW d \in Conns, c < d
            PROVE  Before(Wire(c)', Wire(d)')
        <4>1. CASE d = conns
          <5>1. Before(Wire(c), New) /\ Before(Wire(c), Wire(d))
            BY <3>4, NextNumber DEF OrderInv
          <5>2. Before(Wire(c), Wire(d) \o New)
            BY <2>2, <5>1, BeforeJoin
          <5>3. Wire(c)' = Wire(c) /\ Wire(d)' = Wire(d) \o New
            BY <3>2, <3>4, <4>1
          <5> QED  BY <5>2, <5>3
        <4>2. CASE c = conns
          <5>1. Wire(d) = <<>> /\ Wire(d)' = Wire(d)
            BY <3>2, <3>4, <4>2 DEF OrderInv
          <5> QED  BY <5>1 DEF Before
        <4>3. CASE c # conns /\ d # conns
          BY <3>2, <3>4, <4>3 DEF OrderInv
        <4> QED  BY <4>1, <4>2, <4>3
      <3>5. ASSUME NEW c \in Conns
            PROVE  /\ Increasing(Wire(c)') /\ UpTo(Wire(c)', sent + 1)
                   /\ Before(Wire(c)', <<>>)
                   /\ c > conns => Wire(c)' = <<>>
        <4>1. Before(Wire(c)', <<>>)
          BY DEF Before
        <4>2. UpTo(Wire(c), sent + 1)
          BY NextNumber DEF OrderInv
        <4>3. CASE c = conns
          <5>1. Wire(c)' = Wire(conns) \o New /\ ~(c > conns)
            BY <3>2, <4>3
          <5> QED  BY <3>3, <4>1, <5>1
        <4>4. CASE c # conns
          BY <3>2, <4>1, <4>2, <4>4 DEF OrderInv
        <4> QED  BY <4>3, <4>4
      <3>6. Increasing(<<>>) /\ UpTo(<<>>, sent + 1)
        BY DEF Increasing, UpTo
      <3> QED  BY <2>1, <3>1, <3>4, <3>5, <3>6 DEF OrderInv, Increasing, UpTo, Before
    <2>4. CASE ws # "open"
      <3>1. up' = up /\ (buffered' = buffered \/ buffered' = Append(buffered, sent + 1))
        BY <1>2, <2>1, <2>4 DEF Send
      <3>2. \A c \in Conns : Wire(c)' = Wire(c)
        BY <2>1, <3>1 DEF Wire
      <3>3. /\ Increasing(buffered') /\ UpTo(buffered', sent + 1)
            /\ \A c \in Conns : Before(Wire(c), buffered')
        <4>1. CASE buffered' = buffered
          BY <4>1, NextNumber DEF OrderInv
        <4>2. CASE buffered' = Append(buffered, sent + 1)
          <5>1. buffered' = buffered \o New
            BY <4>2, AppendJoins
          <5>2. Increasing(buffered \o New) /\ UpTo(buffered \o New, sent + 1)
            <6>1. Increasing(buffered) /\ UpTo(buffered, sent)
              BY DEF OrderInv
            <6>2. /\ Before(buffered, New) /\ UpTo(buffered, sent + 1)
                  /\ Increasing(New) /\ UpTo(New, sent + 1)
              BY <6>1, NextNumber
            <6>3. Increasing(buffered \o New)
              BY <2>2, <6>1, <6>2, JoinIncreasing
            <6>4. UpTo(buffered \o New, sent + 1)
              BY <2>2, <6>2, JoinUpTo
            <6> QED  BY <6>3, <6>4
          <5>3. ASSUME NEW c \in Conns
                PROVE  Before(Wire(c), buffered \o New)
            BY <2>2, BeforeJoin, NextNumber DEF OrderInv
          <5> QED  BY <5>1, <5>2, <5>3
        <4> QED  BY <3>1, <4>1, <4>2
      <3>4. \A c \in Conns : UpTo(Wire(c), sent + 1)
        BY NextNumber DEF OrderInv
      <3> QED  BY <2>1, <3>2, <3>3, <3>4 DEF OrderInv, Increasing, UpTo, Before
    <2> QED  BY <2>3, <2>4
  <1>3. ASSUME NEW c \in Conns, Arrive(c)
        PROVE  OrderInv'
    <2>1. /\ up[c] # <<>>
          /\ arrived' = [arrived EXCEPT ![c] = Append(@, Head(up[c]))]
          /\ up' = [up EXCEPT ![c] = Tail(@)]
          /\ UNCHANGED <<buffered, sent, conns>>
      BY <1>3 DEF Arrive, client
    <2>2. Append(arrived[c], Head(up[c])) \o Tail(up[c]) = arrived[c] \o up[c]
      BY <2>1, MoveHead
    <2>3. \A d \in Conns : Wire(d)' = Wire(d)
      BY <2>1, <2>2 DEF Wire, TypeOK
    <2> QED  BY <2>1, <2>3, SameWires
  <1>4. ASSUME UNCHANGED <<up, arrived, buffered, sent>>, conns' = conns \/ conns' = conns + 1
        PROVE  OrderInv'
    <2>1. \A c \in Conns : Wire(c)' = Wire(c)
      BY <1>4 DEF Wire
    <2> QED  BY <1>4, <2>1, SameWires
  <1>5. \/ Received \/ BackoffEnds \/ Close \/ Lost \/ CloseFrame \/ CloseCompletes \/ Accept
        \/ Serve \/ (\E r \in Readers : Pull(r)) \/ (\E c \in Conns : HandlerEnds(c))
        \/ UNCHANGED vars
        => UNCHANGED <<up, arrived, buffered, sent>> /\ (conns' = conns \/ conns' = conns + 1)
    BY DEF Received, BackoffEnds, Connect, Close, Lost, CloseFrame, CloseCompletes, OnClose,
           Accept, Serve, Pull, HandlerEnds, vars, client, server
  <1> QED  BY <1>1, <1>2, <1>3, <1>4, <1>5 DEF Next

\* What send() accepts, whether it goes out at once or waits in the buffer for the next
\* connection, reaches the handlers in the order of the calls, and nothing twice.
THEOREM SendsInOrder == Spec => []SendOrder
  <1>1. Init => OrderInv
    BY InitOrder
  <1>2. ClassInv => BufferFlushed
    BY DEF ClassInv
  <1>3. TypeOK /\ TypeOK' /\ BufferFlushed /\ OrderInv /\ [Next]_vars => OrderInv'
    BY NextOrder
  <1>4. ASSUME TypeOK, OrderInv
        PROVE  SendOrder
    BY <1>4, OrderType, JoinIncreasing, BeforeJoin DEF OrderInv, SendOrder
  <1> QED  BY <1>1, <1>2, <1>3, <1>4, ClassCorrect, PTL DEF Spec
=============================================================================
