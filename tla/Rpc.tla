-------------------------------- MODULE Rpc --------------------------------
(***************************************************************************)
(* What a call of the generated client promises (ADR 0004), without URLs,  *)
(* bodies or status codes: the handler runs at most once, on what the      *)
(* caller passed; the caller is told what the handler answered, or that    *)
(* the call was refused, and then the handler has not run and never will,  *)
(* or that the call was lost, and then the handler may have run, may be    *)
(* running, or may yet run.                                                *)
(*                                                                         *)
(* Each variable is a set with the value it has, if it has one yet.        *)
(***************************************************************************)
CONSTANTS
  Refusals,  \* what a caller is told when its call does not reach the handler
  Loss       \* what it is told when the connection fails

VARIABLES
  asked,    \* what the caller passed
  served,   \* what the handler was called with
  answer,   \* the handler's answer, as the caller is to see it
  outcome   \* what the caller was told

rpc == <<asked, served, answer, outcome>>

One(S) == S # {} /\ \A x, y \in S : x = y

Init == asked = {} /\ served = {} /\ answer = {} /\ outcome = {}

Ask ==
  /\ asked = {}
  /\ One(asked')
  /\ UNCHANGED <<served, answer, outcome>>

Serve ==
  /\ asked # {} /\ served = {} /\ outcome \subseteq {Loss}
  /\ served' = asked
  /\ UNCHANGED <<asked, answer, outcome>>

Answer ==
  /\ served # {} /\ answer = {}
  /\ One(answer')
  /\ UNCHANGED <<asked, served, outcome>>

Return ==
  /\ answer # {} /\ outcome = {}
  /\ outcome' = answer
  /\ UNCHANGED <<asked, served, answer>>

Refuse ==
  /\ asked # {} /\ served = {} /\ outcome = {}
  /\ One(outcome') /\ outcome' \subseteq Refusals
  /\ UNCHANGED <<asked, served, answer>>

Lose ==
  /\ asked # {} /\ outcome = {}
  /\ outcome' = {Loss}
  /\ UNCHANGED <<asked, served, answer>>

Next == Ask \/ Serve \/ Answer \/ Return \/ Refuse \/ Lose

Spec == Init /\ [][Next]_rpc
=============================================================================
