----------------------- MODULE BufferedChannelProofs -----------------------
(***************************************************************************)
(* Proofs about hw-3's channel, for any numbers of senders, receivers and  *)
(* closers, any capacity and any number of values.                         *)
(***************************************************************************)
EXTENDS BufferedChannel, Counting, SequenceTheorems

(* The elements lie between head and tail, and a slot in between was written. *)
RingOK ==
  /\ tail = (head + size) % capacity
  /\ \A i \in 1 .. size : buffer[(head + i - 1) % capacity] \in Values

(* A sender that waits still has its value to send: the guard of a woken sender does
   not ask again, so TypeOK alone does not bound sent. *)
StillSending ==
  \A s \in Senders : pc[s] \in {"waiting", "woken"} => sent[s] < MaxSends

IInv == TypeOK /\ RingOK /\ StillSending /\ NulloptIsFinal /\ NoLostWakeup

-----------------------------------------------------------------------------
(* The circular buffer *)

(* The constructor's correction leaves at least one slot. *)
LEMMA CapacityType == capacity \in Nat \ {0}
BY SizeAssumption DEF capacity

(* The slot of an index that may have run past the end. *)
Slot(k, c) == k % c

(* An index is at most one turn ahead. *)
LEMMA Turn ==
  ASSUME NEW c \in Nat \ {0}, NEW k \in 0 .. 2 * c - 1
  PROVE  Slot(k, c) = (IF k < c THEN k ELSE k - c) /\ Slot(k, c) \in 0 .. c - 1
<1>1. k = c * (k \div c) + (k % c) /\ k \div c \in Nat /\ k % c \in 0 .. c - 1
  OBVIOUS
<1> DEFINE q == k \div c
<1>2. q = 0 \/ q = 1 \/ q >= 2
  BY <1>1
<1>3. CASE q = 0
  BY <1>1, <1>3 DEF Slot
<1>4. CASE q = 1
  BY <1>1, <1>4 DEF Slot
<1>5. CASE q >= 2
  <2>1. PICK d \in Nat : q = 2 + d
    <3>1. q - 2 \in Nat /\ q = 2 + (q - 2)
      BY <1>1, <1>5
    <3> QED BY <3>1
  <2>2. c * q = 2 * c + c * d /\ c * d \in Nat
    BY <2>1
  <2> QED
    BY <1>1, <2>2 DEF Slot
<1> QED
  BY <1>2, <1>3, <1>4, <1>5

(* The n elements from h on. *)
Ring(b, h, n, c) == [i \in 1 .. n |-> b[Slot(h + i - 1, c)]]

(* What is read at head is before everything else. *)
LEMMA TakeContents ==
  ASSUME NEW c \in Nat \ {0}, NEW V, NEW b \in [0 .. c - 1 -> V],
         NEW h \in 0 .. c - 1, NEW n \in 1 .. c
  PROVE  /\ Ring(b, h, n, c) # <<>>
         /\ Head(Ring(b, h, n, c)) = b[h]
         /\ Tail(Ring(b, h, n, c)) = Ring(b, Slot(h + 1, c), n - 1, c)
<1> DEFINE old == [i \in 1 .. n |-> b[Slot(h + i - 1, c)]]
<1>1. \A i \in 1 .. n : b[Slot(h + i - 1, c)] \in V
  BY Turn
<1>2. old \in Seq(V) /\ Len(old) = n /\ old # <<>>
  BY <1>1, IsASeq
<1>3. Head(old) = b[h]
  <2>1. old[1] = b[Slot(h + 1 - 1, c)] /\ h + 1 - 1 = h
    OBVIOUS
  <2>2. Slot(h, c) = h
    <3>1. h \in 0 .. 2 * c - 1 /\ h < c
      OBVIOUS
    <3> QED
      BY <3>1, Turn
  <2> QED
    BY <1>2, <2>1, <2>2
<1>4. ASSUME NEW i \in 1 .. n - 1
      PROVE  Slot(Slot(h + 1, c) + i - 1, c) = Slot(h + (i + 1) - 1, c)
  <2>1. Slot(h + 1, c) = (IF h + 1 < c THEN h + 1 ELSE h + 1 - c)
    <3>1. h + 1 \in 0 .. 2 * c - 1
      OBVIOUS
    <3> QED
      BY <3>1, Turn
  <2>2. CASE h + 1 < c
    BY <2>1, <2>2
  <2>3. CASE ~(h + 1 < c)
    <3>1. Slot(h + 1, c) = 0 /\ h = c - 1
      BY <2>1, <2>3
    <3>2. Slot(i - 1, c) = i - 1
      <4>1. i - 1 \in 0 .. 2 * c - 1 /\ i - 1 < c
        OBVIOUS
      <4> QED
        BY <4>1, Turn
    <3>3. Slot(h + (i + 1) - 1, c) = i - 1
      <4>1. h + (i + 1) - 1 = c + (i - 1) /\ c + (i - 1) \in 0 .. 2 * c - 1
        BY <3>1
      <4>2. Slot(c + (i - 1), c) = c + (i - 1) - c
        BY <4>1, Turn
      <4> QED
        BY <4>1, <4>2
    <3> QED
      BY <3>1, <3>2, <3>3
  <2> QED
    BY <2>2, <2>3
<1> HIDE DEF old
<1>5. Tail(old) = [i \in 1 .. n - 1 |-> old[i + 1]]
  BY <1>2
<1>6. \A i \in 1 .. n - 1 : old[i + 1] = b[Slot(Slot(h + 1, c) + i - 1, c)]
  BY <1>4 DEF old
<1> QED
  BY <1>2, <1>3, <1>5, <1>6 DEF old, Ring

(* A turn taken early or late is the same turn. *)
LEMMA TurnAgain ==
  ASSUME NEW c \in Nat \ {0}, NEW k \in Nat, NEW j \in Nat, k + j < 2 * c
  PROVE  Slot(Slot(k, c) + j, c) = Slot(k + j, c)
<1>1. k \in 0 .. 2 * c - 1 /\ k + j \in 0 .. 2 * c - 1
  OBVIOUS
<1>2. Slot(k, c) = IF k < c THEN k ELSE k - c
  BY <1>1, Turn
<1>3. CASE k < c
  BY <1>2, <1>3
<1>4. CASE ~(k < c)
  <2>1. Slot(k, c) + j = k + j - c /\ k + j - c \in 0 .. 2 * c - 1 /\ k + j - c < c
    BY <1>2, <1>4
  <2>2. Slot(k + j - c, c) = k + j - c
    BY <2>1, Turn
  <2>3. Slot(k + j, c) = k + j - c
    BY <1>1, <1>4, Turn
  <2> QED
    BY <2>1, <2>2, <2>3
<1> QED
  BY <1>3, <1>4

(* The ring with its names for the lemmas above. *)
LEMMA RingParts ==
  ASSUME TypeOK, RingOK
  PROVE  /\ capacity \in Nat \ {0}
         /\ buffer \in [0 .. capacity - 1 -> Values \cup {Empty}]
         /\ head \in 0 .. capacity - 1 /\ tail \in 0 .. capacity - 1
         /\ size \in 0 .. capacity
         /\ tail = Slot(head + size, capacity)
         /\ \A i \in 1 .. size : buffer[Slot(head + i - 1, capacity)] \in Values
BY CapacityType DEF TypeOK, RingOK, Slot

(* RingOK says that Contents is a sequence of values that were sent. *)
LEMMA ContentsType ==
  ASSUME TypeOK, RingOK
  PROVE  Contents \in Seq(Values) /\ Len(Contents) = size
<1>1. size \in Nat /\ \A i \in 1 .. size : buffer[(head + i - 1) % capacity] \in Values
  BY CapacityType DEF TypeOK, RingOK
<1> DEFINE f == [i \in 1 .. size |-> buffer[(head + i - 1) % capacity]]
<1>2. f \in [1 .. size -> Values]
  BY <1>1
<1>3. f \in Seq(Values) /\ Len(f) = size
  BY <1>1, <1>2, SeqDef
<1> QED
  BY <1>3 DEF Contents

(* Storing a value appends it to what is inside. *)
LEMMA PutRing ==
  ASSUME TypeOK, RingOK, size < capacity, NEW v \in Values,
         buffer' = [buffer EXCEPT ![tail] = v], tail' = Wrap(tail), size' = size + 1,
         head' = head
  PROVE  /\ RingOK' /\ Contents' = Append(Contents, v)
         /\ buffer' \in [0 .. capacity - 1 -> Values \cup {Empty}]
         /\ tail' \in 0 .. capacity - 1 /\ size' \in 0 .. capacity
<1> DEFINE c == capacity
<1>1. /\ c \in Nat \ {0}
      /\ buffer \in [0 .. c - 1 -> Values \cup {Empty}]
      /\ head \in 0 .. c - 1 /\ tail \in 0 .. c - 1
      /\ size \in 0 .. c - 1
      /\ tail = Slot(head + size, c)
      /\ \A i \in 1 .. size : buffer[Slot(head + i - 1, c)] \in Values
  BY RingParts
<1>2. tail' = Slot(head + size', c) /\ tail' \in 0 .. c - 1
  <2>1. tail' = Slot(Slot(head + size, c) + 1, c)
    BY <1>1 DEF Wrap, Slot
  <2>2. head + size \in Nat /\ head + size + 1 < 2 * c /\ head + size + 1 = head + size'
        /\ head + size + 1 \in 0 .. 2 * c - 1
    BY <1>1
  <2>3. Slot(Slot(head + size, c) + 1, c) = Slot(head + size + 1, c)
    BY <1>1, <2>2, TurnAgain
  <2> QED
    BY <1>1, <2>1, <2>2, <2>3, Turn
<1>3. ASSUME NEW i \in 1 .. size
      PROVE  buffer'[Slot(head + i - 1, c)] = buffer[Slot(head + i - 1, c)]
  <2>1. head + i - 1 \in 0 .. 2 * c - 1 /\ head + size \in 0 .. 2 * c - 1
    BY <1>1
  <2>2. /\ Slot(head + i - 1, c) = IF head + i - 1 < c THEN head + i - 1 ELSE head + i - 1 - c
        /\ Slot(head + i - 1, c) \in 0 .. c - 1
        /\ tail = IF head + size < c THEN head + size ELSE head + size - c
    BY <1>1, <2>1, Turn
  <2>3. Slot(head + i - 1, c) # tail
    BY <1>1, <2>2
  <2> QED
    BY <1>1, <2>2, <2>3
<1>4. Contents' = Append(Contents, v)
  <2>1. Contents \in Seq(Values) /\ Len(Contents) = size
    BY ContentsType
  <2>2. /\ Append(Contents, v) \in Seq(Values) /\ Len(Append(Contents, v)) = size + 1
        /\ \A i \in 1 .. size : Append(Contents, v)[i] = Contents[i]
        /\ Append(Contents, v)[size + 1] = v
    BY <2>1, AppendProperties
  <2>3. ASSUME NEW i \in 1 .. size + 1
        PROVE  buffer'[Slot(head + i - 1, c)] = IF i = size + 1 THEN v ELSE Contents[i]
    <3>1. CASE i = size + 1
      <4>1. head + i - 1 = head + size /\ buffer'[tail] = v
        BY <1>1, <3>1
      <4> QED
        BY <1>1, <3>1, <4>1
    <3>2. CASE i # size + 1
      <4>1. i \in 1 .. size
        BY <1>1, <3>2
      <4>2. Contents[i] = buffer[Slot(head + i - 1, c)]
        BY <4>1 DEF Contents, Slot
      <4> QED
        BY <1>3, <3>2, <4>1, <4>2
    <3> QED
      BY <3>1, <3>2
  <2>4. Contents' = [i \in 1 .. size + 1 |-> buffer'[Slot(head + i - 1, c)]]
    BY DEF Contents, Slot
  <2>5. Contents' \in Seq(Values) /\ Len(Contents') = size + 1
    <3>1. \A i \in 1 .. size + 1 : buffer'[Slot(head + i - 1, c)] \in Values
      <4>1. \A i \in 1 .. size : Contents[i] \in Values
        BY <2>1, ElementOfSeq
      <4>2. \A i \in 1 .. size + 1 : i = size + 1 \/ i \in 1 .. size
        BY <1>1
      <4> QED
        BY <2>3, <4>1, <4>2
    <3> QED
      BY <1>1, <2>4, <3>1, IsASeq
  <2>6. \A i \in 1 .. size + 1 : Contents'[i] = Append(Contents, v)[i]
    BY <1>1, <2>2, <2>3, <2>4
  <2> QED
    BY <2>2, <2>5, <2>6, SeqEqual
<1>5. Contents' \in Seq(Values) /\ Len(Contents') = size'
  <2>1. Contents \in Seq(Values) /\ Len(Contents) = size
    BY ContentsType
  <2> QED
    BY <1>4, <2>1, AppendProperties
<1>6. \A i \in 1 .. size' : buffer'[(head' + i - 1) % c] \in Values
  <2>1. \A i \in 1 .. size' : Contents'[i] \in Values
    BY <1>5, ElementOfSeq
  <2>2. \A i \in 1 .. size' : Contents'[i] = buffer'[(head' + i - 1) % c]
    BY DEF Contents
  <2> QED
    BY <2>1, <2>2
<1>7. RingOK'
  BY <1>2, <1>6 DEF RingOK, Slot
<1> QED
  BY <1>1, <1>2, <1>4, <1>7

(* Taking a value takes the oldest one, which somebody sent. *)
LEMMA TakeRing ==
  ASSUME TypeOK, RingOK, size > 0, head' = Wrap(head), size' = size - 1,
         buffer' = buffer, tail' = tail
  PROVE  /\ RingOK'
         /\ Contents # <<>> /\ buffer[head] = Head(Contents) /\ Contents' = Tail(Contents)
         /\ buffer[head] \in Values
         /\ head' \in 0 .. capacity - 1 /\ size' \in 0 .. capacity
<1> DEFINE c == capacity
<1>1. /\ c \in Nat \ {0}
      /\ buffer \in [0 .. c - 1 -> Values \cup {Empty}]
      /\ head \in 0 .. c - 1
      /\ size \in 1 .. c
      /\ tail = Slot(head + size, c)
      /\ \A i \in 1 .. size : buffer[Slot(head + i - 1, c)] \in Values
  BY RingParts
<1>2. head' = Slot(head + 1, c) /\ head' \in 0 .. c - 1
  <2>1. head' = Slot(head + 1, c)
    BY DEF Wrap, Slot
  <2>2. head + 1 \in 0 .. 2 * c - 1
    BY <1>1
  <2> QED
    BY <1>1, <2>1, <2>2, Turn
<1>3. tail' = Slot(head' + size', c)
  <2>1. /\ head + 1 \in Nat /\ size' \in Nat /\ head + 1 + size' < 2 * c
        /\ head + 1 + size' = head + size
    BY <1>1
  <2>2. Slot(Slot(head + 1, c) + size', c) = Slot(head + 1 + size', c)
    BY <1>1, <2>1, TurnAgain
  <2> QED
    BY <1>1, <1>2, <2>1, <2>2
<1>4. /\ Ring(buffer, head, size, c) # <<>>
      /\ Head(Ring(buffer, head, size, c)) = buffer[head]
      /\ Tail(Ring(buffer, head, size, c)) = Ring(buffer, Slot(head + 1, c), size - 1, c)
  BY <1>1, TakeContents
<1>5. Contents = Ring(buffer, head, size, c)
  BY DEF Contents, Slot, Ring
<1>6. Contents' = Ring(buffer, Slot(head + 1, c), size - 1, c)
  BY <1>2 DEF Contents, Slot, Ring
<1>7. Contents # <<>> /\ buffer[head] = Head(Contents) /\ Contents' = Tail(Contents)
  BY <1>4, <1>5, <1>6
<1>8. /\ Contents \in Seq(Values) /\ Len(Contents) = size
  BY ContentsType
<1>9. /\ Head(Contents) \in Values /\ Tail(Contents) \in Seq(Values)
      /\ Len(Tail(Contents)) = size - 1
  BY <1>7, <1>8, HeadTailProperties
<1>10. \A i \in 1 .. size' : buffer'[(head' + i - 1) % c] \in Values
  <2>1. \A i \in 1 .. size' : Contents'[i] \in Values
    BY <1>7, <1>9, ElementOfSeq
  <2>2. \A i \in 1 .. size' : Contents'[i] = buffer'[(head' + i - 1) % c]
    BY DEF Contents
  <2> QED
    BY <2>1, <2>2
<1>11. RingOK'
  BY <1>3, <1>10 DEF RingOK, Slot
<1> QED
  BY <1>1, <1>2, <1>7, <1>9, <1>11

-----------------------------------------------------------------------------
(* Wake-ups *)

(* Whose next step at mtx is a wake-up for a stored value, and for a free slot. *)
ForValues == {t \in Threads : \/ t \in Senders /\ pc[t] = "notify"
                              \/ t \in Receivers /\ pc[t] = "woken"}
ForSlots == {t \in Threads : \/ t \in Receivers /\ pc[t] = "notify"
                             \/ t \in Senders /\ pc[t] = "woken"}

(* The two halves of NoLostWakeup. *)
ReceiversWoken ==
  (\E r \in Receivers : pc[r] = "waiting") =>
     IF closed THEN \E c \in Closers : pc[c] = "notEmpty"
               ELSE size <= Cardinality(ForValues)
SendersWoken ==
  (\E s \in Senders : pc[s] = "waiting") =>
     IF closed THEN \E c \in Closers : pc[c] \in {"notEmpty", "notFull"}
               ELSE dropped \/ capacity - size <= Cardinality(ForSlots)

(* The sum of two disjoint sets of wake-ups. *)
LEMMA Wakeups ==
  /\ IsFiniteSet(ForValues) /\ IsFiniteSet(ForSlots)
  /\ Cardinality(ForValues)
       = Cardinality(At(Senders, "notify")) + Cardinality(At(Receivers, "woken"))
  /\ Cardinality(ForSlots)
       = Cardinality(At(Receivers, "notify")) + Cardinality(At(Senders, "woken"))
<1> DEFINE A == At(Senders, "notify")
           B == At(Receivers, "woken")
           C == At(Receivers, "notify")
           D == At(Senders, "woken")
<1>1. IsFiniteSet(A) /\ IsFiniteSet(B) /\ IsFiniteSet(C) /\ IsFiniteSet(D)
  BY ThreadsAssumption, FS_Subset DEF At
<1>2. ForValues = A \cup B /\ A \cap B = {} /\ ForSlots = C \cup D /\ C \cap D = {}
  BY ThreadsAssumption DEF At, ForValues, ForSlots, Threads
<1> HIDE DEF A, B, C, D
<1>3. /\ Cardinality(A) \in Nat /\ Cardinality(B) \in Nat
      /\ Cardinality(C) \in Nat /\ Cardinality(D) \in Nat
  BY <1>1, FS_CardinalityType
<1>4. /\ IsFiniteSet(A \cup B) /\ IsFiniteSet(C \cup D)
      /\ Cardinality(A \cup B) = Cardinality(A) + Cardinality(B) - Cardinality(A \cap B)
      /\ Cardinality(C \cup D) = Cardinality(C) + Cardinality(D) - Cardinality(C \cap D)
  BY <1>1, FS_Union
<1>5. Cardinality(A \cap B) = 0 /\ Cardinality(C \cap D) = 0
  BY <1>2, FS_EmptySet
<1>6. /\ Cardinality(ForValues) = Cardinality(A) + Cardinality(B)
      /\ Cardinality(ForSlots) = Cardinality(C) + Cardinality(D)
  BY <1>2, <1>3, <1>4, <1>5
<1> QED
  BY <1>2, <1>4, <1>6 DEF A, B, C, D

(* NoLostWakeup in these terms. *)
LEMMA NoLostWakeupParts == NoLostWakeup <=> ReceiversWoken /\ SendersWoken
<1>1. /\ At(Receivers, "waiting") # {} <=> \E r \in Receivers : pc[r] = "waiting"
      /\ At(Senders, "waiting") # {} <=> \E s \in Senders : pc[s] = "waiting"
      /\ At(Closers, "notEmpty") # {} <=> \E c \in Closers : pc[c] = "notEmpty"
      /\ At(Closers, "notEmpty") \cup At(Closers, "notFull") # {}
           <=> \E c \in Closers : pc[c] \in {"notEmpty", "notFull"}
  BY DEF At
<1> QED
  BY <1>1, Wakeups DEF NoLostWakeup, ReceiversWoken, SendersWoken

(* A step that moves one thread changes the wake-ups by what it stood for. *)
LEMMA WakeupsStep ==
  ASSUME NEW t \in Threads, \A u \in Threads \ {t} : pc'[u] = pc[u]
  PROVE  /\ Cardinality(ForValues) \in Nat /\ Cardinality(ForSlots) \in Nat
         /\ Cardinality(ForValues') \in Nat /\ Cardinality(ForSlots') \in Nat
         /\ Cardinality(ForValues') = Cardinality(ForValues)
                                       + One(t \in ForValues') - One(t \in ForValues)
         /\ Cardinality(ForSlots') = Cardinality(ForSlots)
                                       + One(t \in ForSlots') - One(t \in ForSlots)
<1>1. ForValues \ {t} = ForValues' \ {t} /\ ForSlots \ {t} = ForSlots' \ {t}
  BY DEF ForValues, ForSlots
<1>2. IsFiniteSet(Threads)
  BY ThreadsAssumption, FS_Union DEF Threads
<1>3. IsFiniteSet(ForValues') /\ IsFiniteSet(ForSlots')
  BY <1>2, FS_Subset DEF ForValues, ForSlots
<1> QED
  BY <1>1, <1>3, Wakeups, OneMoves, FS_CardinalityType

(* The same in the next state. *)
LEMMA NoLostWakeupPartsNext == ReceiversWoken' /\ SendersWoken' => NoLostWakeup'
BY NoLostWakeupParts, PTL

(* The control states. *)
Labels == {"idle", "waiting", "woken", "notify", "notEmpty", "notFull", "done"}

(* A step of a sender or receiver t, from the wake-ups' point of view: it may
   lose a wake-up only by using the value or the slot that it stood for, by finding
   that there is none, or by an exception. *)
Uses(t, to) ==
  LET values(l) == One((t \in Senders /\ l = "notify") \/ (t \in Receivers /\ l = "woken"))
      slots(l) == One((t \in Receivers /\ l = "notify") \/ (t \in Senders /\ l = "woken"))
  IN  /\ to = "waiting" => /\ ~closed
                           /\ IF t \in Receivers THEN size = 0 ELSE size = capacity
      /\ ~closed => \/ size' = 0
                    \/ size' - size <= values(to) - values(pc[t])
      /\ ~closed => \/ size' = capacity \/ dropped'
                    \/ size - size' <= slots(to) - slots(pc[t])

(* Such a step loses no wake-up that somebody still needs. *)
LEMMA UsesKeeps ==
  ASSUME TypeOK, NoLostWakeup, NEW t \in Senders \cup Receivers, NEW to \in Labels,
         pc' = [pc EXCEPT ![t] = to], Uses(t, to), size' \in 0 .. capacity,
         closed' = closed, dropped => dropped',
         to = "waiting" => size' = size
  PROVE  NoLostWakeup'
<1>1. /\ size \in 0 .. capacity /\ capacity \in Nat /\ t \in Threads
      /\ pc \in [Threads -> Labels] /\ closed \in BOOLEAN
      /\ Receivers \cap Senders = {} /\ t \notin Closers
  BY CapacityType, ThreadsAssumption DEF TypeOK, Threads, Labels
<1>2. pc'[t] = to /\ \A u \in Threads \ {t} : pc'[u] = pc[u]
  BY <1>1
<1>3. /\ Cardinality(ForValues) \in Nat /\ Cardinality(ForSlots) \in Nat
      /\ Cardinality(ForValues') \in Nat /\ Cardinality(ForSlots') \in Nat
      /\ Cardinality(ForValues') = Cardinality(ForValues)
                                    + One(t \in ForValues') - One(t \in ForValues)
      /\ Cardinality(ForSlots') = Cardinality(ForSlots)
                                    + One(t \in ForSlots') - One(t \in ForSlots)
  BY <1>1, <1>2, WakeupsStep
<1> DEFINE values(l) == (t \in Senders /\ l = "notify") \/ (t \in Receivers /\ l = "woken")
           slots(l) == (t \in Receivers /\ l = "notify") \/ (t \in Senders /\ l = "woken")
<1>4. /\ t \in ForValues <=> values(pc[t])
      /\ t \in ForSlots <=> slots(pc[t])
      /\ t \in ForValues' <=> values(to)
      /\ t \in ForSlots' <=> slots(to)
  BY <1>1, <1>2 DEF ForValues, ForSlots
<1>5. /\ to = "waiting" => /\ ~closed
                           /\ IF t \in Receivers THEN size = 0 ELSE size = capacity
      /\ ~closed => \/ size' = 0
                    \/ size' - size <= One(values(to)) - One(values(pc[t]))
      /\ ~closed => \/ size' = capacity \/ dropped'
                    \/ size - size' <= One(slots(to)) - One(slots(pc[t]))
  BY DEF Uses
<1> HIDE DEF values, slots
<1>6. ReceiversWoken /\ SendersWoken
  BY NoLostWakeupParts
<1>7. ReceiversWoken'
  <2> SUFFICES ASSUME NEW r \in Receivers, pc'[r] = "waiting"
               PROVE  IF closed THEN \E c \in Closers : pc'[c] = "notEmpty"
                                ELSE size' <= Cardinality(ForValues')
    BY DEF ReceiversWoken
  <2>0. /\ Cardinality(ForValues') \in Nat
        /\ One(values(to)) \in 0 .. 1 /\ One(values(pc[t])) \in 0 .. 1
        /\ Cardinality(ForValues') = Cardinality(ForValues) + One(values(to)) - One(values(pc[t]))
    <3>1. One(values(to)) = One(t \in ForValues') /\ One(values(pc[t])) = One(t \in ForValues)
      BY <1>4 DEF One
    <3> QED
      BY <1>3, <3>1 DEF One
  <2>1. CASE r = t
    BY <1>1, <1>2, <1>5, <2>0, <2>1
  <2>2. CASE r # t
    <3>1. pc[r] = "waiting" /\ \A c \in Closers : pc'[c] = pc[c]
      BY <1>1, <1>2, <2>2 DEF Threads
    <3>2. IF closed THEN \E c \in Closers : pc[c] = "notEmpty"
                    ELSE size <= Cardinality(ForValues)
      BY <1>6, <3>1 DEF ReceiversWoken
    <3>3. CASE closed
      BY <3>1, <3>2, <3>3
    <3>4. CASE ~closed
      BY <1>1, <1>3, <1>5, <2>0, <3>2, <3>4
    <3> QED
      BY <3>3, <3>4
  <2> QED
    BY <2>1, <2>2
<1>8. SendersWoken'
  <2> SUFFICES ASSUME NEW s \in Senders, pc'[s] = "waiting"
               PROVE  IF closed THEN \E c \in Closers : pc'[c] \in {"notEmpty", "notFull"}
                                ELSE dropped' \/ capacity - size' <= Cardinality(ForSlots')
    BY DEF SendersWoken
  <2>0. /\ Cardinality(ForSlots') \in Nat
        /\ One(slots(to)) \in 0 .. 1 /\ One(slots(pc[t])) \in 0 .. 1
        /\ Cardinality(ForSlots') = Cardinality(ForSlots) + One(slots(to)) - One(slots(pc[t]))
    <3>1. One(slots(to)) = One(t \in ForSlots') /\ One(slots(pc[t])) = One(t \in ForSlots)
      BY <1>4 DEF One
    <3> QED
      BY <1>3, <3>1 DEF One
  <2>1. CASE s = t
    BY <1>1, <1>2, <1>5, <2>0, <2>1
  <2>2. CASE s # t
    <3>1. pc[s] = "waiting" /\ \A c \in Closers : pc'[c] = pc[c]
      BY <1>1, <1>2, <2>2 DEF Threads
    <3>2. IF closed THEN \E c \in Closers : pc[c] \in {"notEmpty", "notFull"}
                    ELSE dropped \/ capacity - size <= Cardinality(ForSlots)
      BY <1>6, <3>1 DEF SendersWoken
    <3>3. CASE closed
      BY <3>1, <3>2, <3>3
    <3>4. CASE ~closed
      BY <1>1, <1>3, <1>5, <2>0, <3>2, <3>4
    <3> QED
      BY <3>3, <3>4
  <2> QED
    BY <2>1, <2>2
<1> QED
  BY <1>7, <1>8, NoLostWakeupPartsNext

-----------------------------------------------------------------------------
(* The inductive invariant *)

(* At first the buffer is empty and nobody waits. *)
LEMMA InitIInv == Init => IInv
<1> SUFFICES ASSUME Init PROVE IInv
  OBVIOUS
<1>1. head = 0 /\ tail = 0 /\ size = 0 /\ capacity \in Nat \ {0}
  BY CapacityType DEF Init
<1>2. buffer \in [0 .. capacity - 1 -> Values \cup {Empty}]
  BY DEF Init
<1>3. sent \in [Senders -> 0 .. MaxSends] /\ received \in Seq(Values)
  BY SizeAssumption DEF Init
<1>4. TypeOK
  <2>1. 0 \in 0 .. capacity - 1 /\ 0 \in 0 .. capacity
    BY <1>1
  <2>2. pc \in [Threads -> {"idle", "waiting", "woken", "notify", "notEmpty", "notFull", "done"}]
    BY DEF Init
  <2>3. closed \in BOOLEAN /\ dropped \in BOOLEAN
    BY DEF Init
  <2> QED
    BY <1>1, <1>2, <1>3, <2>1, <2>2, <2>3 DEF TypeOK
<1>5. RingOK
  <2>1. Slot(0, capacity) = 0
    BY <1>1, Turn
  <2> QED
    BY <1>1, <2>1 DEF RingOK, Slot
<1>6. NulloptIsFinal /\ StillSending
  BY DEF Init, NulloptIsFinal, StillSending, At, Threads
<1>7. NoLostWakeup
  <2>1. ReceiversWoken /\ SendersWoken
    BY DEF Init, ReceiversWoken, SendersWoken, Threads
  <2> QED
    BY <2>1, NoLostWakeupParts
<1> QED
  BY <1>4, <1>5, <1>6, <1>7 DEF IInv

(* A receiver that has got nullopt is done for good. *)
LEMMA NulloptKeeps ==
  ASSUME NulloptIsFinal, closed => closed' /\ (size = 0 => size' = 0),
         \A u \in Receivers : pc'[u] = "done" => pc[u] = "done" \/ (closed' /\ size' = 0)
  PROVE  NulloptIsFinal'
BY DEF NulloptIsFinal, At

(* A step of a sender or receiver that leaves the buffer alone. *)
LEMMA QuietIInv ==
  ASSUME IInv, NEW t \in Senders \cup Receivers, NEW to \in Labels,
         pc' = [pc EXCEPT ![t] = to], Uses(t, to),
         UNCHANGED <<closed, ring, sent, received>>,
         dropped' \in BOOLEAN, dropped => dropped',
         t \in Receivers /\ to = "done" => closed /\ size = 0,
         t \in Senders /\ to \in {"waiting", "woken"} => sent[t] < MaxSends
  PROVE  IInv'
<1>1. TypeOK /\ RingOK /\ StillSending /\ NulloptIsFinal /\ NoLostWakeup
  BY DEF IInv
<1>2. UNCHANGED <<closed, buffer, head, tail, size, sent, received>>
  BY DEF ring
<1>3. pc \in [Threads -> Labels] /\ size \in 0 .. capacity
  BY <1>1 DEF TypeOK, Labels
<1>4. pc' \in [Threads -> Labels] /\ \A u \in Threads : pc'[u] = IF u = t THEN to ELSE pc[u]
  BY <1>3
<1>5. TypeOK'
  BY <1>1, <1>2, <1>4 DEF TypeOK, Labels
<1>6. RingOK'
  BY <1>1, <1>2 DEF RingOK
<1>7. NulloptIsFinal'
  BY <1>1, <1>2, <1>4, NulloptKeeps DEF Threads
<1>8. NoLostWakeup'
  BY <1>1, <1>2, <1>3, UsesKeeps
<1>9. StillSending'
  BY <1>1, <1>2, <1>4 DEF StillSending, Threads
<1> QED
  BY <1>5, <1>6, <1>7, <1>8, <1>9 DEF IInv

(* Send waits, throws, or loses its value to an exception of the copy. *)
LEMMA SendQuietIInv ==
  ASSUME IInv, NEW s \in Senders, SendWait(s) \/ SendThrow(s) \/ SendCopyThrows(s)
  PROVE  IInv'
<1>1. size \in 0 .. capacity /\ capacity \in Nat /\ dropped \in BOOLEAN
      /\ s \in Senders \cup Receivers /\ s \notin Receivers
  BY CapacityType, ThreadsAssumption DEF IInv, TypeOK
<1> USE DEF Uses, One, Labels, InSend, Goto
<1>2. CASE SendWait(s)
  <2>1. /\ pc' = [pc EXCEPT ![s] = "waiting"] /\ ~closed /\ size = capacity
        /\ UNCHANGED <<closed, ring, sent, received, dropped>> /\ pc[s] \in {"idle", "woken"}
        /\ sent[s] < MaxSends
    BY <1>2 DEF SendWait, IInv, StillSending
  <2>2. Uses(s, "waiting")
    BY <1>1, <2>1 DEF ring
  <2> QED
    BY <1>1, <2>1, <2>2, QuietIInv
<1>3. CASE SendThrow(s)
  <2>1. /\ pc' = [pc EXCEPT ![s] = "done"] /\ closed
        /\ UNCHANGED <<closed, ring, sent, received, dropped>>
    BY <1>3 DEF SendThrow
  <2> QED
    BY <1>1, <2>1, QuietIInv
<1>4. CASE SendCopyThrows(s)
  <2>1. /\ pc' = [pc EXCEPT ![s] = "done"]
        /\ dropped' = (dropped \/ pc[s] = "woken") /\ pc[s] \in {"idle", "woken"}
        /\ UNCHANGED <<closed, ring, sent, received>>
    BY <1>4 DEF SendCopyThrows
  <2>2. /\ dropped' \in BOOLEAN /\ (dropped => dropped') /\ (pc[s] = "idle" \/ dropped')
    BY <1>1, <2>1
  <2>3. CASE pc[s] = "idle"
    <3>1. Uses(s, "done")
      BY <1>1, <2>1, <2>3 DEF ring
    <3> QED
      BY <1>1, <2>1, <2>2, <3>1, QuietIInv
  <2>4. CASE dropped'
    <3>1. Uses(s, "done")
      BY <1>1, <2>1, <2>4 DEF ring
    <3> QED
      BY <1>1, <2>1, <2>2, <3>1, QuietIInv
  <2> QED
    BY <2>2, <2>3, <2>4
<1> QED
  BY <1>2, <1>3, <1>4

(* Recv waits, or returns nullopt. *)
LEMMA RecvQuietIInv ==
  ASSUME IInv, NEW r \in Receivers, RecvWait(r) \/ RecvNullopt(r)
  PROVE  IInv'
<1>1. size \in 0 .. capacity /\ capacity \in Nat /\ dropped \in BOOLEAN
      /\ r \in Senders \cup Receivers /\ r \notin Senders
  BY CapacityType, ThreadsAssumption DEF IInv, TypeOK
<1> USE DEF Uses, One, Labels, InRecv, Goto
<1>2. CASE RecvWait(r)
  <2>1. /\ pc' = [pc EXCEPT ![r] = "waiting"] /\ ~closed /\ size = 0
        /\ UNCHANGED <<closed, ring, sent, received, dropped>> /\ pc[r] \in {"idle", "woken"}
    BY <1>2 DEF RecvWait
  <2>2. Uses(r, "waiting")
    BY <1>1, <2>1 DEF ring
  <2> QED
    BY <1>1, <2>1, <2>2, QuietIInv
<1>3. CASE RecvNullopt(r)
  <2>1. /\ pc' = [pc EXCEPT ![r] = "done"] /\ closed /\ size = 0
        /\ UNCHANGED <<closed, ring, sent, received, dropped>>
    BY <1>3 DEF RecvNullopt
  <2> QED
    BY <1>1, <2>1, QuietIInv
<1> QED
  BY <1>2, <1>3

(* A spurious wake-up adds one. *)
LEMMA SpuriousWakeIInv ==
  ASSUME IInv, NEW t \in Senders \cup Receivers, SpuriousWake(t)
  PROVE  IInv'
<1>1. size \in 0 .. capacity /\ capacity \in Nat /\ dropped \in BOOLEAN
  BY CapacityType DEF IInv, TypeOK
<1>2. /\ pc' = [pc EXCEPT ![t] = "woken"] /\ pc[t] = "waiting"
      /\ UNCHANGED <<closed, ring, sent, received, dropped>>
  BY DEF SpuriousWake, Goto
<1>3. Uses(t, "woken")
  BY <1>1, <1>2 DEF Uses, One, ring
<1>4. t \in Senders => sent[t] < MaxSends
  BY <1>2 DEF IInv, StillSending
<1> QED
  BY <1>1, <1>2, <1>3, <1>4, QuietIInv DEF Labels

(* A value is stored, and its sender still has to notify. *)
LEMMA SendPutIInv ==
  ASSUME IInv, NEW s \in Senders, SendPut(s)
  PROVE  IInv' /\ \E v \in Values : Contents' = Append(Contents, v)
<1> DEFINE v == <<s, sent[s] + 1>>
<1>1. TypeOK /\ RingOK /\ NulloptIsFinal /\ NoLostWakeup
  BY DEF IInv
<1>2. /\ ~closed /\ size < capacity /\ pc[s] \in {"idle", "woken"}
      /\ buffer' = [buffer EXCEPT ![tail] = v] /\ tail' = Wrap(tail) /\ size' = size + 1
      /\ sent' = [sent EXCEPT ![s] = @ + 1]
      /\ pc' = [pc EXCEPT ![s] = "notify"]
      /\ UNCHANGED <<closed, head, received, dropped>>
  BY DEF SendPut, Put, InSend, Goto
<1>3. v \in Values /\ sent' \in [Senders -> 0 .. MaxSends]
  <2>1. sent[s] < MaxSends /\ sent \in [Senders -> 0 .. MaxSends] /\ MaxSends \in Nat
    BY SizeAssumption DEF SendPut, Put, InSend, IInv, StillSending, TypeOK
  <2>2. sent[s] + 1 \in 1 .. MaxSends /\ sent[s] + 1 \in 0 .. MaxSends
    BY <2>1
  <2> QED
    BY <1>2, <2>1, <2>2 DEF Values
<1>4. /\ RingOK' /\ Contents' = Append(Contents, v)
      /\ buffer' \in [0 .. capacity - 1 -> Values \cup {Empty}]
      /\ tail' \in 0 .. capacity - 1 /\ size' \in 0 .. capacity
  <2> HIDE DEF v
  <2> QED
    BY <1>1, <1>2, <1>3, PutRing
<1>5. /\ pc \in [Threads -> Labels] /\ size \in 0 .. capacity /\ capacity \in Nat
      /\ s \in Senders \cup Receivers /\ s \notin Receivers
  BY <1>1, CapacityType, ThreadsAssumption DEF TypeOK, Labels
<1>6. pc' \in [Threads -> Labels] /\ \A u \in Threads \ {s} : pc'[u] = pc[u]
  BY <1>2, <1>5 DEF Labels
<1>7. TypeOK'
  BY <1>1, <1>2, <1>3, <1>4, <1>6 DEF TypeOK, Labels
<1>8. NulloptIsFinal'
  BY <1>1, <1>2, <1>5, <1>6, NulloptKeeps DEF Threads
<1>9. Uses(s, "notify")
  BY <1>2, <1>5 DEF Uses, One
<1>10. NoLostWakeup'
  BY <1>1, <1>2, <1>4, <1>5, <1>9, UsesKeeps DEF Labels
<1>11. StillSending'
  <2>1. ASSUME NEW u \in Senders, pc'[u] \in {"waiting", "woken"}
        PROVE  sent'[u] < MaxSends
    <3>1. pc'[s] = "notify" /\ u # s /\ u \in Threads
      BY <1>2, <1>5, <2>1 DEF Threads
    <3>2. pc'[u] = pc[u] /\ sent'[u] = sent[u]
      BY <1>1, <1>2, <1>6, <3>1 DEF TypeOK
    <3> QED
      BY <2>1, <3>2 DEF IInv, StillSending
  <2> QED
    BY <2>1 DEF StillSending
<1> QED
  BY <1>3, <1>4, <1>7, <1>8, <1>10, <1>11 DEF IInv

(* The oldest value is taken, and its receiver still has to notify. *)
LEMMA RecvTakeIInv ==
  ASSUME IInv, NEW r \in Receivers, RecvTake(r)
  PROVE  /\ IInv' /\ Contents # <<>>
         /\ received' = Append(received, Head(Contents)) /\ Contents' = Tail(Contents)
<1>1. TypeOK /\ RingOK /\ NulloptIsFinal /\ NoLostWakeup
  BY DEF IInv
<1>2. /\ size > 0 /\ pc[r] \in {"idle", "woken"}
      /\ received' = Append(received, buffer[head])
      /\ head' = Wrap(head) /\ size' = size - 1
      /\ pc' = [pc EXCEPT ![r] = "notify"]
      /\ UNCHANGED <<closed, buffer, tail, sent, dropped>>
  BY DEF RecvTake, Take, InRecv, Goto
<1>3. /\ RingOK'
      /\ Contents # <<>> /\ buffer[head] = Head(Contents) /\ Contents' = Tail(Contents)
      /\ buffer[head] \in Values
      /\ head' \in 0 .. capacity - 1 /\ size' \in 0 .. capacity
  BY <1>1, <1>2, TakeRing
<1>4. received' \in Seq(Values)
  BY <1>1, <1>2, <1>3, AppendProperties DEF TypeOK
<1>5. /\ pc \in [Threads -> Labels] /\ size \in 0 .. capacity /\ capacity \in Nat
      /\ r \in Senders \cup Receivers /\ r \notin Senders
  BY <1>1, CapacityType, ThreadsAssumption DEF TypeOK, Labels
<1>6. pc' \in [Threads -> Labels] /\ \A u \in Threads : pc'[u] = IF u = r THEN "notify" ELSE pc[u]
  BY <1>2, <1>5 DEF Labels
<1>7. TypeOK'
  BY <1>1, <1>2, <1>3, <1>4, <1>6 DEF TypeOK, Labels
<1>8. NulloptIsFinal'
  BY <1>1, <1>2, <1>5, <1>6, NulloptKeeps DEF Threads
<1>9. Uses(r, "notify")
  BY <1>2, <1>5 DEF Uses, One
<1>10. NoLostWakeup'
  BY <1>1, <1>2, <1>3, <1>5, <1>9, UsesKeeps DEF Labels
<1>11. StillSending'
  BY <1>2, <1>5, <1>6 DEF IInv, StillSending, Threads
<1> QED
  BY <1>2, <1>3, <1>7, <1>8, <1>10, <1>11 DEF IInv

(* A step that changes nothing but control, and sends nobody to "done" or back to
   waiting. *)
LEMMA ControlIInv ==
  ASSUME IInv, pc' \in [Threads -> Labels],
         \A u \in Receivers : pc'[u] = "done" => pc[u] = "done",
         \A u \in Senders : pc'[u] \in {"waiting", "woken"} => pc[u] \in {"waiting", "woken"},
         UNCHANGED <<ring, sent, received, dropped>>,
         closed' \in BOOLEAN, closed => closed',
         ReceiversWoken', SendersWoken'
  PROVE  IInv'
<1>1. TypeOK /\ RingOK /\ NulloptIsFinal
  BY DEF IInv
<1>2. UNCHANGED <<buffer, head, tail, size, sent, received, dropped>>
  BY DEF ring
<1>3. TypeOK'
  BY <1>1, <1>2 DEF TypeOK, Labels
<1>4. RingOK'
  BY <1>1, <1>2 DEF RingOK
<1>5. NulloptIsFinal'
  BY <1>1, <1>2, NulloptKeeps
<1>6. StillSending'
  BY <1>2 DEF IInv, StillSending
<1> QED
  BY <1>3, <1>4, <1>5, <1>6, NoLostWakeupPartsNext DEF IInv

(* notify_one hands the wake-up on: the waiter that it wakes stands for the value
   now.  Without a waiter nobody needs it. *)
LEMMA SendNotifyIInv ==
  ASSUME IInv, NEW s \in Senders, SendNotify(s)
  PROVE  IInv'
<1>1. TypeOK /\ ReceiversWoken /\ SendersWoken /\ closed \in BOOLEAN
      /\ pc \in [Threads -> Labels]
  BY NoLostWakeupParts DEF IInv, TypeOK, Labels
<1>2. /\ pc[s] = "notify" /\ UNCHANGED <<closed, ring, sent, received, dropped>>
      /\ size' = size
      /\ s \in Threads /\ s \notin Receivers /\ s \notin Closers
  BY ThreadsAssumption DEF SendNotify, NotifyOne, Threads, ring
<1>3. CASE (\A r \in Receivers : pc[r] # "waiting") /\ pc' = [pc EXCEPT ![s] = "idle"]
  <2>1. /\ pc' \in [Threads -> Labels] /\ pc'[s] = "idle"
        /\ \A u \in Threads \ {s} : pc'[u] = pc[u]
    BY <1>1, <1>2, <1>3 DEF Labels
  <2>2. ReceiversWoken'
    BY <1>2, <1>3, <2>1 DEF ReceiversWoken, Threads
  <2>3. ForSlots' = ForSlots
    BY <1>2, <2>1 DEF ForSlots
  <2>4. SendersWoken'
    BY <1>1, <1>2, <2>1, <2>3 DEF SendersWoken, Threads
  <2>7. \A u \in Receivers : pc'[u] = "done" => pc[u] = "done"
    BY <2>1 DEF Threads
  <2>8. \A u \in Senders : pc'[u] \in {"waiting", "woken"} => pc[u] \in {"waiting", "woken"}
    BY <2>1 DEF Threads
  <2> QED
    BY <1>1, <1>2, <2>1, <2>2, <2>4, <2>7, <2>8, ControlIInv
<1>4. ASSUME NEW w \in Receivers, pc[w] = "waiting",
             pc' = [pc EXCEPT ![s] = "idle", ![w] = "woken"]
      PROVE  IInv'
  <2>1. /\ pc' \in [Threads -> Labels] /\ pc'[s] = "idle" /\ pc'[w] = "woken"
        /\ \A u \in Threads \ {s, w} : pc'[u] = pc[u]
        /\ w \in Threads /\ w \notin Senders /\ w # s /\ w \notin Closers
    BY <1>1, <1>2, <1>4, ThreadsAssumption DEF Labels, Threads
  <2>2. /\ s \in ForValues /\ w \notin ForValues
        /\ ForValues' = (ForValues \ {s}) \cup {w}
        /\ ForSlots' = ForSlots
    BY <1>2, <1>4, <2>1 DEF ForValues, ForSlots
  <2>3. Cardinality(ForValues') = Cardinality(ForValues)
    <3>1. /\ IsFiniteSet(ForValues \ {s})
          /\ Cardinality(ForValues) \in Nat
          /\ Cardinality(ForValues \ {s}) = Cardinality(ForValues) - 1
      BY <2>2, Wakeups, FS_RemoveElement, FS_CardinalityType
    <3>2. Cardinality((ForValues \ {s}) \cup {w}) = Cardinality(ForValues \ {s}) + 1
      BY <2>2, <3>1, FS_AddElement
    <3> QED
      BY <2>2, <3>1, <3>2
  <2>4. ReceiversWoken'
    BY <1>1, <1>2, <1>4, <2>1, <2>3 DEF ReceiversWoken, Threads
  <2>5. SendersWoken'
    BY <1>1, <1>2, <2>1, <2>2 DEF SendersWoken, Threads
  <2>7. \A u \in Receivers : pc'[u] = "done" => pc[u] = "done"
    BY <2>1 DEF Threads
  <2>8. \A u \in Senders : pc'[u] \in {"waiting", "woken"} => pc[u] \in {"waiting", "woken"}
    BY <2>1 DEF Threads
  <2> QED
    BY <1>1, <1>2, <2>1, <2>4, <2>5, <2>7, <2>8, ControlIInv
<1> QED
  BY <1>3, <1>4 DEF SendNotify, NotifyOne, At, Goto

(* The same for the slot that a receiver has freed. *)
LEMMA RecvNotifyIInv ==
  ASSUME IInv, NEW r \in Receivers, RecvNotify(r)
  PROVE  IInv'
<1>1. TypeOK /\ ReceiversWoken /\ SendersWoken /\ closed \in BOOLEAN
      /\ pc \in [Threads -> Labels]
  BY NoLostWakeupParts DEF IInv, TypeOK, Labels
<1>2. /\ pc[r] = "notify" /\ UNCHANGED <<closed, ring, sent, received, dropped>>
      /\ size' = size
      /\ r \in Threads /\ r \notin Senders /\ r \notin Closers
  BY ThreadsAssumption DEF RecvNotify, NotifyOne, Threads, ring
<1>3. CASE (\A s \in Senders : pc[s] # "waiting") /\ pc' = [pc EXCEPT ![r] = "idle"]
  <2>1. /\ pc' \in [Threads -> Labels] /\ pc'[r] = "idle"
        /\ \A u \in Threads \ {r} : pc'[u] = pc[u]
    BY <1>1, <1>2, <1>3 DEF Labels
  <2>2. SendersWoken'
    BY <1>2, <1>3, <2>1 DEF SendersWoken, Threads
  <2>3. ForValues' = ForValues
    BY <1>2, <2>1 DEF ForValues
  <2>4. ReceiversWoken'
    BY <1>1, <1>2, <2>1, <2>3 DEF ReceiversWoken, Threads
  <2>5. \A u \in Receivers : pc'[u] = "done" => pc[u] = "done"
    BY <2>1 DEF Threads
  <2>8. \A u \in Senders : pc'[u] \in {"waiting", "woken"} => pc[u] \in {"waiting", "woken"}
    BY <2>1 DEF Threads
  <2> QED
    BY <1>1, <1>2, <2>1, <2>2, <2>4, <2>5, <2>8, ControlIInv
<1>4. ASSUME NEW w \in Senders, pc[w] = "waiting",
             pc' = [pc EXCEPT ![r] = "idle", ![w] = "woken"]
      PROVE  IInv'
  <2>1. /\ pc' \in [Threads -> Labels] /\ pc'[r] = "idle" /\ pc'[w] = "woken"
        /\ \A u \in Threads \ {r, w} : pc'[u] = pc[u]
        /\ w \in Threads /\ w \notin Receivers /\ w # r /\ w \notin Closers
    BY <1>1, <1>2, <1>4, ThreadsAssumption DEF Labels, Threads
  <2>2. /\ r \in ForSlots /\ w \notin ForSlots
        /\ ForSlots' = (ForSlots \ {r}) \cup {w}
        /\ ForValues' = ForValues
    BY <1>2, <1>4, <2>1 DEF ForValues, ForSlots
  <2>3. Cardinality(ForSlots') = Cardinality(ForSlots)
    <3>1. /\ IsFiniteSet(ForSlots \ {r})
          /\ Cardinality(ForSlots) \in Nat
          /\ Cardinality(ForSlots \ {r}) = Cardinality(ForSlots) - 1
      BY <2>2, Wakeups, FS_RemoveElement, FS_CardinalityType
    <3>2. Cardinality((ForSlots \ {r}) \cup {w}) = Cardinality(ForSlots \ {r}) + 1
      BY <2>2, <3>1, FS_AddElement
    <3> QED
      BY <2>2, <3>1, <3>2
  <2>4. SendersWoken'
    BY <1>1, <1>2, <1>4, <2>1, <2>3 DEF SendersWoken, Threads
  <2>5. ReceiversWoken'
    BY <1>1, <1>2, <2>1, <2>2 DEF ReceiversWoken, Threads
  <2>6. \A u \in Receivers : pc'[u] = "done" => pc[u] = "done"
    BY <2>1 DEF Threads
  <2>8. \A u \in Senders : pc'[u] \in {"waiting", "woken"} => pc[u] \in {"waiting", "woken"}
    BY <1>4, <2>1 DEF Threads
  <2> QED
    BY <1>1, <1>2, <2>1, <2>4, <2>5, <2>6, <2>8, ControlIInv
<1> QED
  BY <1>3, <1>4 DEF RecvNotify, NotifyOne, At, Goto

(* Close marks the channel, and from then on stands for every wake-up itself. *)
LEMMA CloseMarkIInv ==
  ASSUME IInv, NEW c \in Closers, CloseMark(c)
  PROVE  IInv'
<1>1. pc \in [Threads -> Labels] /\ c \in Threads /\ c \notin Senders /\ c \notin Receivers
  BY ThreadsAssumption DEF IInv, TypeOK, Labels, Threads
<1>2. /\ pc' = [pc EXCEPT ![c] = "notEmpty"] /\ closed' = TRUE
      /\ UNCHANGED <<ring, sent, received, dropped>>
  BY DEF CloseMark, Goto
<1>3. /\ pc' \in [Threads -> Labels] /\ pc'[c] = "notEmpty"
      /\ \A u \in Threads \ {c} : pc'[u] = pc[u]
  BY <1>1, <1>2 DEF Labels
<1>4. ReceiversWoken' /\ SendersWoken'
  BY <1>2, <1>3 DEF ReceiversWoken, SendersWoken
<1>5. /\ \A u \in Receivers : pc'[u] = "done" => pc[u] = "done"
      /\ \A u \in Senders : pc'[u] \in {"waiting", "woken"} => pc[u] \in {"waiting", "woken"}
  BY <1>1, <1>3 DEF Threads
<1> QED
  BY <1>2, <1>3, <1>4, <1>5, ControlIInv

(* notEmpty.notify_all leaves no receiver waiting, and passes on to the senders. *)
LEMMA CloseNotEmptyIInv ==
  ASSUME IInv, NEW c \in Closers, CloseNotEmpty(c)
  PROVE  IInv'
<1>1. /\ pc \in [Threads -> Labels] /\ c \in Threads /\ c \notin Senders /\ c \notin Receivers
      /\ closed \in BOOLEAN /\ Senders \cap Receivers = {} /\ SendersWoken
  BY ThreadsAssumption, NoLostWakeupParts DEF IInv, TypeOK, Labels, Threads
<1>2. /\ UNCHANGED <<closed, ring, sent, received, dropped>> /\ size' = size
      /\ pc[c] = "notEmpty" /\ pc'[c] = "notFull"
      /\ \A u \in Threads \ {c} :
           pc'[u] = IF u \in Receivers /\ pc[u] = "waiting" THEN "woken" ELSE pc[u]
      /\ pc' \in [Threads -> Labels]
  BY <1>1 DEF CloseNotEmpty, WakeAll, At, Labels, ring
<1>3. ReceiversWoken'
  BY <1>1, <1>2 DEF ReceiversWoken, Threads
<1>4. ForSlots' = ForSlots
  BY <1>1, <1>2 DEF ForSlots
<1>5. SendersWoken'
  BY <1>1, <1>2, <1>4 DEF SendersWoken, Threads
<1>6. /\ \A u \in Receivers : pc'[u] = "done" => pc[u] = "done"
      /\ \A u \in Senders : pc'[u] \in {"waiting", "woken"} => pc[u] \in {"waiting", "woken"}
  BY <1>1, <1>2 DEF Threads
<1> QED
  BY <1>1, <1>2, <1>3, <1>5, <1>6, ControlIInv

(* notFull.notify_all leaves no sender waiting. *)
LEMMA CloseNotFullIInv ==
  ASSUME IInv, NEW c \in Closers, CloseNotFull(c)
  PROVE  IInv'
<1>1. /\ pc \in [Threads -> Labels] /\ c \in Threads /\ c \notin Senders /\ c \notin Receivers
      /\ closed \in BOOLEAN /\ Senders \cap Receivers = {} /\ ReceiversWoken
      /\ Senders \cap Closers = {}
  BY ThreadsAssumption, NoLostWakeupParts DEF IInv, TypeOK, Labels, Threads
<1>2. /\ UNCHANGED <<closed, ring, sent, received, dropped>> /\ size' = size
      /\ pc[c] = "notFull" /\ pc'[c] = "done"
      /\ \A u \in Threads \ {c} :
           pc'[u] = IF u \in Senders /\ pc[u] = "waiting" THEN "woken" ELSE pc[u]
      /\ pc' \in [Threads -> Labels]
  BY <1>1 DEF CloseNotFull, WakeAll, At, Labels, ring
<1>3. SendersWoken'
  BY <1>1, <1>2 DEF SendersWoken, Threads
<1>4. ForValues' = ForValues
  BY <1>1, <1>2 DEF ForValues
<1>5. ReceiversWoken'
  BY <1>1, <1>2, <1>4 DEF ReceiversWoken, Threads
<1>6. /\ \A u \in Receivers : pc'[u] = "done" => pc[u] = "done"
      /\ \A u \in Senders : pc'[u] \in {"waiting", "woken"} => pc[u] \in {"waiting", "woken"}
  BY <1>1, <1>2 DEF Threads
<1> QED
  BY <1>1, <1>2, <1>3, <1>5, <1>6, ControlIInv

(* The invariant speaks of the variables only. *)
LEMMA StutterIInv ==
  ASSUME IInv, UNCHANGED vars
  PROVE  IInv'
<1>1. UNCHANGED <<closed, buffer, head, tail, size, pc, sent, received, dropped>>
  BY DEF vars, ring
<1>2. TypeOK'
  BY <1>1 DEF IInv, TypeOK
<1>3. RingOK' /\ StillSending'
  BY <1>1 DEF IInv, RingOK, StillSending
<1>4. NulloptIsFinal'
  BY <1>1 DEF IInv, NulloptIsFinal, At
<1>5. ForValues' = ForValues /\ ForSlots' = ForSlots
  BY <1>1 DEF ForValues, ForSlots
<1>6. ReceiversWoken' /\ SendersWoken'
  BY <1>1, <1>5, NoLostWakeupParts DEF IInv, ReceiversWoken, SendersWoken
<1> QED
  BY <1>2, <1>3, <1>4, <1>6, NoLostWakeupPartsNext DEF IInv

(* Every step of the system preserves the invariant. *)
LEMMA NextIInv == IInv /\ [Next]_vars => IInv'
<1> SUFFICES ASSUME IInv, [Next]_vars PROVE IInv'
  OBVIOUS
<1>1. CASE UNCHANGED vars
  BY <1>1, StutterIInv
<1>2. ASSUME NEW s \in Senders, SendStep(s) \/ SendNotify(s) \/ SpuriousWake(s) PROVE IInv'
  BY <1>2, SendQuietIInv, SendPutIInv, SendNotifyIInv, SpuriousWakeIInv DEF SendStep
<1>3. ASSUME NEW r \in Receivers, RecvStep(r) \/ RecvNotify(r) \/ SpuriousWake(r) PROVE IInv'
  BY <1>3, RecvQuietIInv, RecvTakeIInv, RecvNotifyIInv, SpuriousWakeIInv DEF RecvStep
<1>4. ASSUME NEW c \in Closers, CloseMark(c) \/ CloseNotEmpty(c) \/ CloseNotFull(c) PROVE IInv'
  BY <1>4, CloseMarkIInv, CloseNotEmptyIInv, CloseNotFullIInv
<1> QED
  BY <1>1, <1>2, <1>3, <1>4 DEF Next

(* The inductive invariant holds in every state. *)
THEOREM Invariance == Spec => []IInv
<1>1. IInv /\ [Next]_vars => IInv'
  BY NextIInv
<1> QED
  BY <1>1, InitIInv, PTL DEF Spec

(* Indices stay inside the buffer, size never exceeds the capacity, and Recv returns
   nothing but values that were sent (buffered_channel.h 25-72). *)
THEOREM TypeCorrect == Spec => []TypeOK
<1>1. IInv => TypeOK
  BY DEF IInv
<1> QED
  BY <1>1, Invariance, PTL

(* nullopt means the end, whichever Sends and Closes ran beside the Recv
   (buffered_channel.h 52-57). *)
THEOREM NulloptFinal == Spec => []NulloptIsFinal
<1>1. IInv => NulloptIsFinal
  BY DEF IInv
<1> QED
  BY <1>1, Invariance, PTL

(* Every blocked call has a wake-up on its way as long as there is something for it
   to do, although each side notifies one thread only and after it has released mtx
   (buffered_channel.h 40-45, 60-66, 75-77). *)
THEOREM WakeupsSuffice == Spec => []NoLostWakeup
<1>1. IInv => NoLostWakeup
  BY DEF IInv
<1> QED
  BY <1>1, Invariance, PTL

-----------------------------------------------------------------------------
(* The refinement *)

(* A step is a step of the abstract channel or changes nothing that it has. *)
LEMMA StepRefinement ==
  IInv /\ [Next]_vars => [Channel!Next]_<<Contents, closed, received>>
<1> SUFFICES ASSUME IInv, [Next]_vars
             PROVE  Channel!Next \/ UNCHANGED <<Contents, closed, received>>
  OBVIOUS
<1>0. UNCHANGED <<closed, ring, received>> => UNCHANGED <<Contents, closed, received>>
  BY DEF ring, Contents
<1>1. CASE UNCHANGED vars
  BY <1>0, <1>1 DEF vars
<1>2. ASSUME NEW s \in Senders, SendPut(s)
      PROVE  Channel!Next
  <2>1. PICK v \in Values : Contents' = Append(Contents, v)
    BY <1>2, SendPutIInv
  <2>2. ~closed /\ size < capacity /\ UNCHANGED <<closed, received>>
    BY <1>2 DEF SendPut, Put
  <2>3. Len(Contents) < capacity
    BY <2>2, ContentsType DEF IInv
  <2>4. Channel!Send(v)
    BY <2>1, <2>2, <2>3 DEF Channel!Send
  <2> QED
    BY <2>4 DEF Channel!Next
<1>3. ASSUME NEW r \in Receivers, RecvTake(r)
      PROVE  Channel!Next
  <2>1. /\ Contents # <<>>
        /\ received' = Append(received, Head(Contents)) /\ Contents' = Tail(Contents)
    BY <1>3, RecvTakeIInv
  <2>2. UNCHANGED closed
    BY <1>3 DEF RecvTake, Take
  <2>3. Channel!Recv
    BY <2>1, <2>2 DEF Channel!Recv
  <2> QED
    BY <2>3 DEF Channel!Next
<1>4. ASSUME NEW c \in Closers, CloseMark(c)
      PROVE  Channel!Next
  <2>1. closed' = TRUE /\ Contents' = Contents /\ received' = received
    BY <1>4 DEF CloseMark, Contents, ring
  <2> QED
    BY <2>1 DEF Channel!Next, Channel!Close
<1>5. ASSUME NEW s \in Senders,
             SendWait(s) \/ SendThrow(s) \/ SendCopyThrows(s) \/ SendNotify(s) \/ SpuriousWake(s)
      PROVE  UNCHANGED <<closed, ring, received>>
  BY <1>5 DEF SendWait, SendThrow, SendCopyThrows, SendNotify, NotifyOne, SpuriousWake
<1>6. ASSUME NEW r \in Receivers,
             RecvWait(r) \/ RecvNullopt(r) \/ RecvNotify(r) \/ SpuriousWake(r)
      PROVE  UNCHANGED <<closed, ring, received>>
  BY <1>6 DEF RecvWait, RecvNullopt, RecvNotify, NotifyOne, SpuriousWake
<1>7. ASSUME NEW c \in Closers, CloseNotEmpty(c) \/ CloseNotFull(c)
      PROVE  UNCHANGED <<closed, ring, received>>
  BY <1>7 DEF CloseNotEmpty, CloseNotFull, WakeAll
<1> QED
  BY <1>0, <1>1, <1>2, <1>3, <1>4, <1>5, <1>6, <1>7 DEF Next, SendStep, RecvStep

(* hw-3's channel implements the bounded FIFO queue: no value is lost, repeated or
   overtaken between Send and Recv, and none goes in after Close. *)
THEOREM Refinement == Spec => ImplementsChannel
<1>1. Init => Channel!Init
  <2> SUFFICES ASSUME Init PROVE Channel!Init
    OBVIOUS
  <2>1. IInv
    BY InitIInv
  <2>2. Contents \in Seq(Values) /\ Len(Contents) = 0
    BY <2>1, ContentsType DEF Init, IInv
  <2>3. Contents = <<>>
    BY <2>2, EmptySeq
  <2> QED
    BY <2>3 DEF Init, Channel!Init
<1>2. IInv /\ [Next]_vars => [Channel!Next]_<<Contents, closed, received>>
  BY StepRefinement
<1> QED
  BY <1>1, <1>2, Invariance, PTL DEF Spec, ImplementsChannel, Channel!Spec

=============================================================================
