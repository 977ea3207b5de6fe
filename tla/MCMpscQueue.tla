----------------------------- MODULE MCMpscQueue -----------------------------
(* Instances of MpscQueue for TLC. *)
EXTENDS MpscQueue

(* SendText("") and SendNumber(n): two record sizes, 2 and 4 half-words. *)
RingMessages == { [type |-> Text, len |-> 0], [type |-> Number, len |-> 2] }

(* An empty text, and one that fills the ring but for its header. *)
LongMessages == { [type |-> Text, len |-> 0], [type |-> Text, len |-> 4] }

(* A payload of one half-word: a record of 4 half-words after rounding. *)
ShortMessages == { [type |-> Text, len |-> 0], [type |-> Text, len |-> 1] }

=============================================================================
