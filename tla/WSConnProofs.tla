---------------------------- MODULE WSConnProofs ----------------------------
(***************************************************************************)
(* However a WebSocket request ends, its connection is closed, for any     *)
(* number of requests.  The invariant adds what a request has before it is *)
(* upgraded: no connection, and so no pinger.                              *)
(***************************************************************************)
EXTENDS WSConn, TLAPS

\* Every variable keeps its type: the type invariant is inductive.
LEMMA NextType == TypeOK /\ [Next]_vars => TypeOK'
<1> SUFFICES ASSUME TypeOK, [Next]_vars PROVE TypeOK'
  OBVIOUS
<1> USE ConstAssumption DEF TypeOK
<1>1. ASSUME NEW c \in Conns, Wrapper(c) PROVE TypeOK'
  <2>1. CASE Reject(c)  BY <2>1 DEF Reject
  <2>2. CASE Upgrade(c)  BY <2>2 DEF Upgrade
  <2>3. CASE Close(c)  BY <2>3 DEF Close, Return, CloseNow, Stop
  <2>4. CASE CloseReturns(c)  BY <2>4 DEF CloseReturns
  <2>5. CASE HandlerReturns(c)  BY <2>5 DEF HandlerReturns, Return, CloseNow
  <2> QED  BY <1>1, <2>1, <2>2, <2>3, <2>4, <2>5 DEF Wrapper
<1>2. ASSUME NEW c \in Conns, PeerCloses(c) PROVE TypeOK'
  BY <1>2 DEF PeerCloses
<1>3. ASSUME NEW c \in Conns, Pinger(c) PROVE TypeOK'
  BY <1>3 DEF Pinger, Tick, StartPing, PingReturns, PingerStops
<1>4. CASE UNCHANGED vars
  BY <1>4 DEF vars
<1> QED  BY <1>1, <1>2, <1>3, <1>4 DEF Next

\* The variables of every request keep their types.
THEOREM TypeCorrect == Spec => []TypeOK
<1>1. Init => TypeOK
  BY DEF Init, TypeOK
<1> QED  BY <1>1, NextType, PTL DEF Spec

-----------------------------------------------------------------------------
\* A request has a connection from its upgrade on, and a pinger only then; only Close
\* closes the channel `stop`, and only a pinger that has seen it closed exits.
Stages ==
  \A c \in Conns :
    /\ wrapper[c] = "request" => conn[c] = "none" /\ pinger[c] = "none" /\ ~stopped[c]
    /\ pinger[c] = "exited" => stopped[c]
    /\ pinger[c] # "none" \/ stopped[c] => Pings

ClosedInv == ReturnedClosed /\ Stages

\* A step of any request, its pinger or its peer preserves the invariant.
LEMMA NextClosed == TypeOK /\ ClosedInv /\ [Next]_vars => ClosedInv'
<1> SUFFICES ASSUME TypeOK, ClosedInv, [Next]_vars PROVE ClosedInv'
  OBVIOUS
<1> USE ConstAssumption DEF TypeOK, ClosedInv, ReturnedClosed, Stages
<1>1. ASSUME NEW c \in Conns, Wrapper(c) PROVE ClosedInv'
  <2>1. CASE Reject(c)  BY <2>1 DEF Reject
  <2>2. CASE Upgrade(c)  BY <2>2 DEF Upgrade
  <2>3. CASE Close(c)  BY <2>3 DEF Close, Return, CloseNow, Stop
  <2>4. CASE CloseReturns(c)  BY <2>4 DEF CloseReturns
  <2>5. CASE HandlerReturns(c)  BY <2>5 DEF HandlerReturns, Return, CloseNow
  <2> QED  BY <1>1, <2>1, <2>2, <2>3, <2>4, <2>5 DEF Wrapper
<1>2. ASSUME NEW c \in Conns, PeerCloses(c) PROVE ClosedInv'
  BY <1>2 DEF PeerCloses
<1>3. ASSUME NEW c \in Conns, Pinger(c) PROVE ClosedInv'
  BY <1>3 DEF Pinger, Tick, StartPing, PingReturns, PingerStops
<1>4. CASE UNCHANGED vars
  BY <1>4 DEF vars
<1> QED  BY <1>1, <1>2, <1>3, <1>4 DEF Next

\* goadapter.go: the deferred CloseNow closes the connection however the handler ends,
\* by a panic of a second Close too.
THEOREM AlwaysClosed == Spec => []ReturnedClosed
<1>1. Init => TypeOK /\ ClosedInv
  BY DEF Init, TypeOK, ClosedInv, ReturnedClosed, Stages
<1>2. TypeOK /\ ClosedInv /\ [Next]_vars => (TypeOK /\ ClosedInv)'
  BY NextType, NextClosed
<1>3. TypeOK /\ ClosedInv => ReturnedClosed
  BY DEF ClosedInv
<1> QED  BY <1>1, <1>2, <1>3, PTL DEF Spec
=============================================================================
