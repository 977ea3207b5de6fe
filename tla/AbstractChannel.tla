-------------------------- MODULE AbstractChannel --------------------------
(***************************************************************************)
(* What a bounded channel promises, whatever its threads wait on: values   *)
(* come out once each and in the order they went in, at most Capacity are  *)
(* inside, and nothing goes in after the channel is closed.                *)
(***************************************************************************)
EXTENDS Naturals, Sequences

CONSTANTS Values, Capacity

VARIABLES queue, closed, received

Init ==
  /\ queue = <<>>
  /\ closed = FALSE
  /\ received = <<>>

Send(v) ==
  /\ ~closed
  /\ Len(queue) < Capacity
  /\ queue' = Append(queue, v)
  /\ UNCHANGED <<closed, received>>

Recv ==
  /\ queue # <<>>
  /\ received' = Append(received, Head(queue))
  /\ queue' = Tail(queue)
  /\ UNCHANGED closed

Close ==
  /\ closed' = TRUE
  /\ UNCHANGED <<queue, received>>

Next == (\E v \in Values : Send(v)) \/ Recv \/ Close

Spec == Init /\ [][Next]_<<queue, closed, received>>

=============================================================================
