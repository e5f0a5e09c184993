------------------------------- MODULE WSConn -------------------------------
(***************************************************************************)
(* The server's side of a WebSocket route: the wrapper the adapter is      *)
(* generated with (wsWrapper in goadapter.go), the WSConn it hands to the  *)
(* user's handler, and the background goroutine WithPingInterval starts    *)
(* (runtime/ws.go), for the requests of several connections.               *)
(*                                                                         *)
(* coder/websocket's Conn is external: it is open until Close, CloseNow or *)
(* the peer ends it, and Ping returns by its deadline at the latest.       *)
(***************************************************************************)
EXTENDS Naturals

CONSTANTS
  Conns,  \* the requests
  Pings   \* is websocket.pingInterval positive in goduct.json?

ASSUME ConstAssumption == Pings \in BOOLEAN

VARIABLES
  wrapper,  \* per request, where its goroutine is
  conn,     \* the *websocket.Conn
  pinger,   \* the background goroutine
  tick,     \* is a tick waiting in the ticker's channel?
  stopped   \* is the channel `stop` closed?

vars == <<wrapper, conn, pinger, tick, stopped>>

Init ==
  /\ wrapper = [c \in Conns |-> "request"]
  /\ conn = [c \in Conns |-> "none"]
  /\ pinger = [c \in Conns |-> "none"]
  /\ tick = [c \in Conns |-> FALSE]
  /\ stopped = [c \in Conns |-> FALSE]

-----------------------------------------------------------------------------
\* A parameter does not parse, or websocket.Accept fails: an HTTP error.
Reject(c) ==
  /\ wrapper[c] = "request"
  /\ wrapper' = [wrapper EXCEPT ![c] = "returned"]
  /\ UNCHANGED <<conn, pinger, tick, stopped>>

\* Accept, NewWSConn with its options, and the call of the handler.
Upgrade(c) ==
  /\ wrapper[c] = "request"
  /\ wrapper' = [wrapper EXCEPT ![c] = "handler"]
  /\ conn' = [conn EXCEPT ![c] = "open"]
  /\ pinger' = [pinger EXCEPT ![c] = IF Pings THEN "select" ELSE "none"]
  /\ UNCHANGED <<tick, stopped>>

\* The deferred CloseNow, on return and on a panic alike.
StaysOpen(c) == conn[c]
CloseNow(c) == "closed"
Return(c, how) ==
  /\ wrapper' = [wrapper EXCEPT ![c] = how]
  /\ conn' = [conn EXCEPT ![c] = CloseNow(c)]

\* WSConn.Close stops the pinger and then starts the closing handshake.  close(stop) of
\* a channel that is closed already panics.
NeverStops(c) == UNCHANGED stopped
Stop(c) == stopped' = [stopped EXCEPT ![c] = Pings]

Close(c) ==
  /\ wrapper[c] = "handler"
  /\ IF stopped[c]
     THEN Return(c, "panicked") /\ UNCHANGED stopped
     ELSE /\ wrapper' = [wrapper EXCEPT ![c] = "closing"]
          /\ Stop(c)
          /\ UNCHANGED conn
  /\ UNCHANGED <<pinger, tick>>

\* The peer answers, or does not within the library's limit.
CloseReturns(c) ==
  /\ wrapper[c] = "closing"
  /\ wrapper' = [wrapper EXCEPT ![c] = "handler"]
  /\ conn' = [conn EXCEPT ![c] = "closed"]
  /\ UNCHANGED <<pinger, tick, stopped>>

\* The handler returns; its error is dropped.
HandlerReturns(c) ==
  /\ wrapper[c] = "handler"
  /\ Return(c, "returned")
  /\ UNCHANGED <<pinger, tick, stopped>>

\* The peer closes or the connection fails: Send and Recv return an error.
PeerCloses(c) ==
  /\ conn[c] = "open"
  /\ conn' = [conn EXCEPT ![c] = "closed"]
  /\ UNCHANGED <<wrapper, pinger, tick, stopped>>

-----------------------------------------------------------------------------
\* startPinger's goroutine.

\* The ticker drops a tick nobody has taken.
Tick(c) ==
  /\ pinger[c] \in {"select", "ping"}
  /\ tick' = [tick EXCEPT ![c] = TRUE]
  /\ UNCHANGED <<wrapper, conn, pinger, stopped>>

StartPing(c) ==
  /\ pinger[c] = "select" /\ tick[c]
  /\ pinger' = [pinger EXCEPT ![c] = "ping"]
  /\ tick' = [tick EXCEPT ![c] = FALSE]
  /\ UNCHANGED <<wrapper, conn, stopped>>

\* A pong, the deadline, or a closed connection: the error is dropped.
PingReturns(c) ==
  /\ pinger[c] = "ping"
  /\ pinger' = [pinger EXCEPT ![c] = "select"]
  /\ UNCHANGED <<wrapper, conn, tick, stopped>>

PingerStops(c) ==
  /\ pinger[c] = "select" /\ stopped[c]
  /\ pinger' = [pinger EXCEPT ![c] = "exited"]
  /\ UNCHANGED <<wrapper, conn, tick, stopped>>

-----------------------------------------------------------------------------
Wrapper(c) ==
  \/ Reject(c) \/ Upgrade(c) \/ Close(c) \/ CloseReturns(c) \/ HandlerReturns(c)
Pinger(c) == Tick(c) \/ StartPing(c) \/ PingReturns(c) \/ PingerStops(c)

Next == \E c \in Conns : Wrapper(c) \/ PeerCloses(c) \/ Pinger(c)

\* Close and Ping have limits; a select with two ready cases picks each again and again.
\* Nothing is assumed of the handler or the peer.
Fairness ==
  \A c \in Conns : WF_vars(CloseReturns(c)) /\ WF_vars(PingReturns(c)) /\ SF_vars(PingerStops(c))

Spec == Init /\ [][Next]_vars
FairSpec == Spec /\ Fairness

-----------------------------------------------------------------------------
(***************************************************************************)
(* Properties.                                                             *)
(***************************************************************************)

\* Every variable holds one of its values.
TypeOK ==
  /\ wrapper \in [Conns -> {"request", "handler", "closing", "returned", "panicked"}]
  /\ conn \in [Conns -> {"none", "open", "closed"}]
  /\ pinger \in [Conns -> {"none", "select", "ping", "exited"}]
  /\ tick \in [Conns -> BOOLEAN] /\ stopped \in [Conns -> BOOLEAN]

\* goadapter.go: "CloseNow on defer guarantees cleanup if the handler returns without
\* explicitly closing".  However a request ends, its connection is not left open.
ReturnedClosed ==
  \A c \in Conns : wrapper[c] \in {"returned", "panicked"} => conn[c] \in {"none", "closed"}

\* ws.go: Close stops the background ping goroutine, even one that is in a Ping and
\* one that has a tick waiting.
CloseStopsPinger ==
  \A c \in Conns : wrapper[c] = "closing" ~> pinger[c] \in {"none", "exited"}

\* ws.go: "The goroutine exits on connection close or context cancellation."
PingerExits ==
  \A c \in Conns : conn[c] = "closed" ~> pinger[c] \in {"none", "exited"}

\* A promise the code does not keep (README).  ws.go: "The handler may call Send / Recv /
\* Close until either returns an error or the ctx the caller passes in fires."
CloseNeverPanics ==
  \A c \in Conns : wrapper[c] # "panicked"
=============================================================================
