---------------------------- MODULE WSConnection ----------------------------
(***************************************************************************)
(* The WSConnection class the TypeScript client is generated with          *)
(* (wsScaffold in internal/generators/tsclient/tsclient.go): send(),       *)
(* messages(), close(), and the reconnection of ADR 0045 section 3, over   *)
(* the browser's WebSocket and a server that is reached anew with every    *)
(* connection.  A step is one task of the JavaScript event loop.           *)
(*                                                                         *)
(* Messages are numbers: what the client sends in the order of send(), and *)
(* what the handler of one connection sends in its own order.              *)
(***************************************************************************)
EXTENDS Naturals, Sequences

CONSTANTS
  Readers,    \* the iterators of messages() the application runs
  MaxConns,   \* bound on connections: all but the last may be lost
  MaxSends,   \* bound on calls of send()
  MaxServed   \* bound on what the handler of one connection sends

ASSUME ConstAssumption ==
  /\ MaxConns \in Nat \ {0}
  /\ MaxSends \in Nat
  /\ MaxServed \in Nat

VARIABLES
  reconnect,     \* wsOpts.reconnect
  ws,            \* this.ws.readyState
  conns,         \* how often connect() has run: the number of the current connection
  backoff,       \* is setTimeout(connect) pending?
  queue, waiters, closed, explicitClose, buffered,  \* the class's fields
  reader,        \* per iterator: "busy" in the loop body, "waiting", or "ended"
  yielded,       \* what the iterators have been given, in order
  sent,          \* calls of send()
  up,            \* per connection, what is on its way to the server
  arrived,       \* per connection, what the handler's Recv has returned
  peer,          \* per connection, the server's side
  served,        \* messages the current connection's handler has sent
  down           \* those of them on their way to the client

client == <<conns, backoff, queue, waiters, closed, explicitClose, buffered, reader, yielded>>
server == <<arrived, peer, served, down>>
vars == <<reconnect, ws, client, sent, up, server>>

-----------------------------------------------------------------------------
Conns == 1..MaxConns
Message == [conn : Conns, n : 1..MaxServed]
ReadyStates == {"connecting", "open", "closing", "closed"}

Init ==
  /\ reconnect \in BOOLEAN
  /\ ws = "connecting" /\ conns = 1 /\ backoff = FALSE
  /\ queue = <<>> /\ waiters = <<>> /\ buffered = <<>>
  /\ closed = FALSE /\ explicitClose = FALSE
  /\ reader = [r \in Readers |-> "busy"] /\ yielded = <<>>
  /\ sent = 0
  /\ up = [c \in Conns |-> <<>>] /\ arrived = [c \in Conns |-> <<>>]
  /\ peer = [c \in Conns |-> "none"]
  /\ served = 0 /\ down = <<>>

-----------------------------------------------------------------------------
\* The class.

\* connect(): a new socket.
Connect ==
  /\ ws' = "connecting" /\ conns' = conns + 1
  /\ served' = 0 /\ down' = <<>>

\* ws.onopen: the buffered messages go out first.
KeepsBuffer == buffered
Unsent == <<>>

Opened ==
  /\ ws = "connecting" /\ peer[conns] # "none"
  /\ ws' = "open"
  /\ up' = [up EXCEPT ![conns] = @ \o buffered]
  /\ buffered' = Unsent
  /\ UNCHANGED <<conns, backoff, queue, waiters, closed, explicitClose, reader, yielded, sent,
                 reconnect, server>>

\* ws.onmessage: to the iterator that has waited longest, else to the queue.
AlwaysQueues == FALSE
HasWaiter == waiters # <<>>
OtherWaiters == Tail(waiters)
Queued == Append(queue, Head(down))

Received ==
  /\ ws = "open" /\ down # <<>>
  /\ down' = Tail(down)
  /\ IF HasWaiter
     THEN /\ waiters' = OtherWaiters
          /\ reader' = [reader EXCEPT ![Head(waiters)] = "busy"]
          /\ yielded' = Append(yielded, Head(down))
          /\ UNCHANGED queue
     ELSE /\ queue' = Queued
          /\ UNCHANGED <<waiters, reader, yielded>>
  /\ UNCHANGED <<ws, conns, backoff, closed, explicitClose, buffered, sent, reconnect, up,
                 arrived, peer, served>>

\* ws.onclose: the end, or a reconnection after the back-off, which is capped.
ForgetsReconnect == TRUE
GivesUp == explicitClose \/ ~reconnect

LeavesWaiters ==
  /\ IF GivesUp
     THEN closed' = TRUE /\ UNCHANGED backoff
     ELSE backoff' = TRUE /\ UNCHANGED closed
  /\ UNCHANGED <<conns, queue, waiters, reader, explicitClose, buffered, yielded>>

OnClose ==
  /\ IF GivesUp
     THEN /\ closed' = TRUE
          /\ reader' = [r \in Readers |-> IF reader[r] = "waiting" THEN "ended" ELSE reader[r]]
          /\ waiters' = <<>>
          /\ UNCHANGED backoff
     ELSE /\ backoff' = TRUE
          /\ UNCHANGED <<closed, reader, waiters>>
  /\ UNCHANGED <<conns, queue, explicitClose, buffered, yielded>>

\* The back-off timer: it does not look at explicitClose.
RepeatsBackoff ==
  /\ backoff
  /\ Connect
  /\ UNCHANGED <<backoff, queue, waiters, closed, explicitClose, buffered, reader, yielded,
                 sent, reconnect, up, arrived, peer>>

RetriesOnce ==
  /\ backoff /\ conns = 1
  /\ backoff' = FALSE
  /\ Connect
  /\ UNCHANGED <<queue, waiters, closed, explicitClose, buffered, reader, yielded, sent,
                 reconnect, up, arrived, peer>>

BackoffEnds ==
  /\ backoff
  /\ backoff' = FALSE
  /\ Connect
  /\ UNCHANGED <<queue, waiters, closed, explicitClose, buffered, reader, yielded, sent,
                 reconnect, up, arrived, peer>>

\* send(): on the wire, in the buffer, or -- not open and not reconnecting -- an error
\* (CONNECTING) or nothing at all (CLOSING, CLOSED).
Send ==
  /\ sent < MaxSends
  /\ sent' = sent + 1
  /\ IF ws = "open"
     THEN /\ up' = [up EXCEPT ![conns] = Append(@, sent')]
          /\ UNCHANGED buffered
     ELSE /\ buffered' = IF reconnect /\ ~explicitClose THEN Append(buffered, sent') ELSE buffered
          /\ UNCHANGED up
  /\ UNCHANGED <<reconnect, ws, conns, backoff, queue, waiters, closed, explicitClose, reader,
                 yielded, server>>

\* messages(): one turn of an iterator's loop, up to its next yield or await.
IgnoresQueue == closed
MayEnd == queue = <<>> /\ closed

Pull(r) ==
  /\ reader[r] = "busy"
  /\ \/ /\ queue # <<>> /\ ~MayEnd
        /\ yielded' = Append(yielded, Head(queue))
        /\ queue' = Tail(queue)
        /\ UNCHANGED <<reader, waiters>>
     \/ /\ MayEnd
        /\ reader' = [reader EXCEPT ![r] = "ended"]
        /\ UNCHANGED <<queue, waiters, yielded>>
     \/ /\ queue = <<>> /\ ~closed
        /\ reader' = [reader EXCEPT ![r] = "waiting"]
        /\ waiters' = Append(waiters, r)
        /\ UNCHANGED <<queue, yielded>>
  /\ UNCHANGED <<ws, conns, backoff, closed, explicitClose, buffered, sent, reconnect, up,
                 server>>

\* close(): WebSocket.close starts the closing handshake, and does nothing on a socket
\* that is closed already.
Close ==
  /\ explicitClose' = TRUE
  /\ ws' = IF ws \in {"connecting", "open"} THEN "closing" ELSE ws
  /\ UNCHANGED <<conns, backoff, queue, waiters, closed, buffered, reader, yielded, sent,
                 reconnect, up, server>>

-----------------------------------------------------------------------------
\* The network and the server.

MayFail == conns < MaxConns

\* The handshake fails or the connection is lost: the close event.
Lost ==
  /\ MayFail
  /\ ws \in {"connecting", "open"}
  /\ ws' = "closed" /\ down' = <<>>
  /\ OnClose
  /\ UNCHANGED <<sent, reconnect, up, arrived, peer, served>>

\* The server's close frame is read after everything it sent before: readyState
\* changes some time before the close event.
CloseFrame ==
  /\ ws = "open" /\ peer[conns] = "gone" /\ down = <<>>
  /\ ws' = "closing"
  /\ UNCHANGED <<client, sent, reconnect, up, server>>

\* The closing handshake is over, or the browser no longer waits for it; messages that
\* arrive while the socket is closing are dropped.
CloseCompletes ==
  /\ ws = "closing"
  /\ ws' = "closed" /\ down' = <<>>
  /\ OnClose
  /\ UNCHANGED <<sent, reconnect, up, arrived, peer, served>>

Accept ==
  /\ ws = "connecting" /\ peer[conns] = "none"
  /\ peer' = [peer EXCEPT ![conns] = "open"]
  /\ UNCHANGED <<ws, client, sent, reconnect, up, arrived, served, down>>

\* What the handler of an abandoned connection sends goes nowhere.
Serve ==
  /\ ws \in {"connecting", "open", "closing"}
  /\ peer[conns] = "open" /\ served < MaxServed
  /\ served' = served + 1
  /\ down' = Append(down, [conn |-> conns, n |-> served'])
  /\ UNCHANGED <<ws, client, sent, reconnect, up, arrived, peer>>

\* An abandoned connection's handler may still be reading when a later one's does.
Arrive(c) ==
  /\ peer[c] = "open" /\ up[c] # <<>>
  /\ arrived' = [arrived EXCEPT ![c] = Append(@, Head(up[c]))]
  /\ up' = [up EXCEPT ![c] = Tail(@)]
  /\ UNCHANGED <<ws, client, sent, reconnect, peer, served, down>>

\* The handler returns, or its Recv fails: what is on its way to it is lost.
HandlerEnds(c) ==
  /\ peer[c] = "open"
  /\ c = conns /\ ws \in {"connecting", "open"} => MayFail
  /\ peer' = [peer EXCEPT ![c] = "gone"]
  /\ UNCHANGED <<ws, client, sent, reconnect, up, arrived, served, down>>

-----------------------------------------------------------------------------
Next ==
  \/ Opened \/ Received \/ BackoffEnds
  \/ Send \/ Close
  \/ \E r \in Readers : Pull(r)
  \/ Lost \/ CloseFrame \/ CloseCompletes
  \/ Accept \/ Serve
  \/ \E c \in Conns : Arrive(c) \/ HandlerEnds(c)

\* The event loop runs the tasks that are due, the server accepts and its handlers
\* read.  Nothing is assumed of the application, nor that a handler ever ends.
Fairness ==
  /\ WF_vars(Opened) /\ WF_vars(Received) /\ WF_vars(BackoffEnds)
  /\ WF_vars(CloseFrame) /\ WF_vars(CloseCompletes)
  /\ WF_vars(Accept)
  /\ \A c \in Conns : WF_vars(Arrive(c))

Spec == Init /\ [][Next]_vars
FairSpec == Spec /\ Fairness

-----------------------------------------------------------------------------
(***************************************************************************)
(* Properties.                                                             *)
(***************************************************************************)

\* Every field holds a value of its type, and the bounds are kept.
TypeOK ==
  /\ ws \in ReadyStates
  /\ conns \in Conns
  /\ reconnect \in BOOLEAN
  /\ backoff \in BOOLEAN /\ closed \in BOOLEAN /\ explicitClose \in BOOLEAN
  /\ queue \in Seq(Message) /\ yielded \in Seq(Message) /\ down \in Seq(Message)
  /\ waiters \in Seq(Readers)
  /\ reader \in [Readers -> {"busy", "waiting", "ended"}]
  /\ sent \in 0..MaxSends /\ served \in 0..MaxServed
  /\ buffered \in Seq(1..MaxSends)
  /\ up \in [Conns -> Seq(1..MaxSends)] /\ arrived \in [Conns -> Seq(1..MaxSends)]
  /\ peer \in [Conns -> {"none", "open", "gone"}]

\* No iterator waits for a message that is already in the queue, nor on a connection
\* that is over (the two ends of messages(): the queue and the waiters).
NoLostWakeup == waiters # <<>> => queue = <<>> /\ ~closed

\* The iterators waiting are those with a resolver in waiters, each with one.
WaitersMatch ==
  /\ \A r \in Readers : reader[r] = "waiting" <=> \E i \in 1..Len(waiters) : waiters[i] = r
  /\ \A i, j \in 1..Len(waiters) : waiters[i] = waiters[j] => i = j

\* There is never a second socket: connect() is pending only while the last socket is
\* closed, and no reconnection is pending once the connection is over.
OneSocket == backoff => ws = "closed" /\ ~closed

\* Nothing stays behind in the buffer once the socket is open, so that a later send()
\* cannot overtake it.
BufferFlushed == ws = "open" => buffered = <<>>

\* ADR 0045 section 3: with reconnect, messages() does not return until close().
OnlyCloseEnds ==
  reconnect => \A r \in Readers : reader[r] = "ended" => explicitClose

\* What send() accepted reaches the handlers in order and at most once: a message is
\* put on one connection, and on none later than a connection that has a later one.
Wire(c) == arrived[c] \o up[c]
Increasing(s) == \A i, j \in 1..Len(s) : i < j => s[i] < s[j]
SendOrder ==
  /\ \A c \in Conns : Increasing(Wire(c) \o buffered)
  /\ \A c, d \in Conns : c < d => Increasing(Wire(c) \o Wire(d))

\* What ws.onmessage has received: yielded to an iterator, or in the queue.
Log == yielded \o queue

\* messages() is a mailbox: the queue and the waiters implement Mailbox.
Promise == INSTANCE Mailbox WITH
  Messages <- Message,
  log <- Log, taken <- Len(yielded), over <- closed,
  ended <- {r \in Readers : reader[r] = "ended"}
MailboxSpec == Promise!Spec

\* ADR 0045 section 3: "indefinite retries", and the buffered messages are replayed.
Reconnects == reconnect => []<>(explicitClose \/ (ws = "open" /\ buffered = <<>>))

\* A connection that closes for good -- after close() on a live socket, or without
\* reconnect -- ends the iterators that wait for it.
LastCloseEnds ==
  \A r \in Readers : (GivesUp /\ ws = "closing" /\ reader[r] = "waiting") ~> reader[r] = "ended"

\* ADR 0045 section 3: messages() returns when close() is called, in a back-off too.
CloseEnds ==
  \A r \in Readers : (explicitClose /\ reader[r] = "waiting") ~> reader[r] # "waiting"
=============================================================================
