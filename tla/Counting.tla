------------------------------ MODULE Counting ------------------------------
(***************************************************************************)
(* What the proofs about counters need of Cardinality: in a step of one    *)
(* thread or process a set of threads gains or loses that one at most.     *)
(* And of places: where the numbers of a set come in their order.          *)
(***************************************************************************)
EXTENDS Integers, FiniteSets, FiniteSetTheorems, TLAPS

(* 1 if b holds, for sums over conditions. *)
One(b) == IF b THEN 1 ELSE 0

(* Two sets that differ in p at most differ in size by p's part in them. *)
THEOREM OneMoves ==
  ASSUME NEW S, NEW T, NEW p, IsFiniteSet(S), IsFiniteSet(T), S \ {p} = T \ {p}
  PROVE  /\ Cardinality(S) \in Nat
         /\ p \in S => Cardinality(S) >= 1
         /\ Cardinality(T) = Cardinality(S) + One(p \in T) - One(p \in S)
<1>1. Cardinality(S) \in Nat /\ Cardinality(T) \in Nat /\ Cardinality(S \ {p}) \in Nat
  BY FS_CardinalityType, FS_RemoveElement
<1> QED
  BY <1>1, FS_RemoveElement DEF One

(* Where the elements of a set of numbers come when a larger one joins: it comes
   last, and the others keep their places. *)
THEOREM LastOne ==
  ASSUME NEW S \in SUBSET Nat, IsFiniteSet(S), NEW k \in Nat, \A i \in S : i < k
  PROVE  /\ IsFiniteSet(S \cup {k}) /\ Cardinality(S) \in Nat
         /\ Cardinality(S \cup {k}) = Cardinality(S) + 1
         /\ Cardinality({j \in S \cup {k} : j <= k}) = Cardinality(S) + 1
         /\ \A i \in S : {j \in S \cup {k} : j <= i} = {j \in S : j <= i}
<1>1. k \notin S
  OBVIOUS
<1>2. /\ IsFiniteSet(S \cup {k}) /\ Cardinality(S) \in Nat
      /\ Cardinality(S \cup {k}) = Cardinality(S) + 1
  BY <1>1, FS_AddElement, FS_CardinalityType
<1>3. {j \in S \cup {k} : j <= k} = S \cup {k}
  <2>1. \A j \in S \cup {k} : j <= k
    OBVIOUS
  <2> QED
    BY <2>1, Zenon
<1>4. \A i \in S : {j \in S \cup {k} : j <= i} = {j \in S : j <= i}
  OBVIOUS
<1> QED
  BY <1>2, <1>3, <1>4

(* A place is between 1 and the number of elements. *)
THEOREM PlaceType ==
  ASSUME NEW S \in SUBSET Nat, IsFiniteSet(S), NEW i \in S
  PROVE  Cardinality({j \in S : j <= i}) \in 1 .. Cardinality(S)
<1> DEFINE T == {j \in S : j <= i}
<1>1. IsFiniteSet(T) /\ Cardinality(T) <= Cardinality(S)
  BY FS_Subset
<1>2. i \in T
  OBVIOUS
<1>3. Cardinality(T) \in Nat /\ Cardinality(S) \in Nat /\ Cardinality(T) # 0
  BY <1>1, <1>2, FS_CardinalityType, FS_EmptySet
<1> QED
  BY <1>1, <1>3

=============================================================================
