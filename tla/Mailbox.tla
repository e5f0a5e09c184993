------------------------------ MODULE Mailbox ------------------------------
(***************************************************************************)
(* What WSConnection.messages() promises its iterators, without waiters or *)
(* queues (ADR 0044, ADR 0045 section 3): every message the connection     *)
(* receives is yielded to exactly one of them, in the order received, and  *)
(* an iterator ends only after the connection is over and every message    *)
(* has been yielded.                                                       *)
(***************************************************************************)
EXTENDS Naturals, Sequences

CONSTANT Readers, Messages

VARIABLES
  log,    \* the messages received, in order
  taken,  \* how many of them have been yielded
  over,   \* no message will be received any more
  ended   \* the iterators that have returned

mailbox == <<log, taken, over, ended>>

Init == log = <<>> /\ taken = 0 /\ over = FALSE /\ ended = {}

\* A message arrives; a waiting iterator may take it at once if none is ahead of it.
Arrive(m) ==
  /\ ~over
  /\ log' = Append(log, m)
  /\ \/ taken' = taken
     \/ taken = Len(log) /\ taken' = taken + 1
  /\ UNCHANGED <<over, ended>>

Take ==
  /\ taken < Len(log)
  /\ taken' = taken + 1
  /\ UNCHANGED <<log, over, ended>>

\* The connection is over; iterators that wait with nothing left to yield return.
Finish ==
  /\ over' = TRUE
  /\ ended' \in SUBSET Readers /\ ended \subseteq ended'
  /\ ended' # ended => taken = Len(log)
  /\ UNCHANGED <<log, taken>>

End(r) ==
  /\ over /\ taken = Len(log)
  /\ ended' = ended \cup {r}
  /\ UNCHANGED <<log, taken, over>>

Next ==
  \/ \E m \in Messages : Arrive(m)
  \/ Take \/ Finish
  \/ \E r \in Readers : End(r)

Spec == Init /\ [][Next]_mailbox
=============================================================================
