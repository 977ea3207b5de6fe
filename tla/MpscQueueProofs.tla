--------------------------- MODULE MpscQueueProofs ---------------------------
(***************************************************************************)
(* Proofs about hw-5's ring, for any set of producers, any messages, any   *)
(* ring size and any number of calls and crashes.                          *)
(*                                                                         *)
(* PositionsOrdered and WritersApart follow from IInv.  The one arithmetic *)
(* fact behind NoOverrun is that freeSpace is exact as long as the two     *)
(* loads of TrySend are at most bufferSize apart (FreeSpaceExact); the     *)
(* history variable `wrapped' records that they were not.                  *)
(*                                                                         *)
(* DeliversUntilWrap follows from CInv, which adds what the cells hold:    *)
(* every record that has been filled in and not been read is whole in the  *)
(* ring, and the consumer stands at the beginning of one.                  *)
(***************************************************************************)
EXTENDS MpscQueue, Counting, SequenceTheorems

(* A position's offset is inside the ring, and the tail behind it is not empty. *)
LEMMA OffsetType ==
  ASSUME NEW pos \in Nat
  PROVE  /\ Offset(pos) \in 0 .. BufferSize - 1
         /\ TailSpace(pos) \in 1 .. BufferSize
BY SizesAssumption DEF Offset, TailSpace

(* Aligned sizes are even. *)
LEMMA AlignUpEven ==
  ASSUME NEW n \in Nat
  PROVE  AlignUp(n) \in Nat /\ AlignUp(n) % 2 = 0 /\ AlignUp(n) >= n
BY DEF AlignUp, Alignment

(* An aligned record has room for its header, and an even size. *)
LEMMA SizeType ==
  ASSUME NEW m, m.len \in Nat
  PROVE  /\ MessageSize(m) \in Nat
         /\ MessageSize(m) % 2 = 0
         /\ MessageSize(m) >= 2
<1>1. HeaderSize + m.len \in Nat
  BY DEF HeaderSize
<1> QED
  BY <1>1, AlignUpEven DEF MessageSize, HeaderSize

(* What a message takes, padding included, is at least its header. *)
LEMMA RequiredType ==
  ASSUME NEW pos \in Nat, NEW m, m.len \in Nat
  PROVE  /\ PaddingSize(pos, m) \in Nat
         /\ Required(pos, m) \in Nat
         /\ Required(pos, m) >= 2
BY OffsetType, SizeType DEF PaddingSize, Required

(* In a ring of even size an even position has an even offset. *)
LEMMA EvenOffset ==
  ASSUME NEW pos \in Nat, pos % 2 = 0, BufferSize % 2 = 0
  PROVE  Offset(pos) % 2 = 0 /\ TailSpace(pos) % 2 = 0 /\ TailSpace(pos) >= HeaderSize
<1> DEFINE q == pos \div BufferSize
<1>1. q \in Nat /\ pos = BufferSize * q + Offset(pos)
  BY SizesAssumption DEF Offset
<1>2. PICK b \in Nat : BufferSize = 2 * b
  <2>1. BufferSize = 2 * (BufferSize \div 2) /\ BufferSize \div 2 \in Nat
    BY SizesAssumption
  <2> QED BY <2>1
<1>3. PICK h \in Nat : pos = 2 * h
  <2>1. pos = 2 * (pos \div 2) /\ pos \div 2 \in Nat
    OBVIOUS
  <2> QED BY <2>1
<1>4. PICK k \in Nat : BufferSize * q = 2 * k
  <2>1. BufferSize * q = 2 * (b * q) /\ b * q \in Nat
    BY <1>1, <1>2
  <2> QED BY <2>1
<1> HIDE DEF q
<1>5. Offset(pos) \in Nat /\ TailSpace(pos) \in Nat /\ TailSpace(pos) >= 1
  BY OffsetType
<1>6. pos = 2 * k + Offset(pos)
  BY <1>1, <1>4
<1>7. Offset(pos) = 2 * h - 2 * k
  BY <1>3, <1>5, <1>6
<1>8. TailSpace(pos) = 2 * b - 2 * h + 2 * k
  BY <1>2, <1>7 DEF TailSpace
<1> QED
  BY <1>5, <1>7, <1>8 DEF HeaderSize

-----------------------------------------------------------------------------
(* Type correctness *)

(* A payload is a sequence of cells. *)
LEMMA PayloadType ==
  ASSUME NEW start \in Nat, NEW m, m.len \in Nat
  PROVE  Payload(start, m) \in Seq(Cells)
<1>1. \A i \in 1 .. m.len : DataCell(start, i) \in Cells
  BY DEF DataCell, Cells
<1> QED
  BY <1>1, SeqDef DEF Payload

(* A record, padding or message, consists of cells. *)
LEMMA RecordType ==
  ASSUME NEW t \in Nat, NEW ps \in Seq(Cells), NEW n \in Nat
  PROVE  Record(t, ps, n) \in [0 .. n - 1 -> Cells]
<1>1. TypeCell(t) \in Cells /\ SizeCell(Len(ps)) \in Cells /\ ZeroCell \in Cells
  BY LenProperties DEF TypeCell, SizeCell, ZeroCell, Cells
<1> SUFFICES ASSUME NEW i \in 0 .. n - 1
             PROVE  Record(t, ps, n)[i] \in Cells
  BY DEF Record
<1>2. CASE i = 0
  BY <1>1, <1>2 DEF Record
<1>3. CASE i = 1
  BY <1>1, <1>3 DEF Record
<1>4. CASE i > 1 /\ i - 1 <= Len(ps)
  <2>1. ps[i - 1] \in Cells
    BY <1>4, ElementOfSeq
  <2>2. Record(t, ps, n)[i] = ps[i - 1]
    BY <1>4 DEF Record
  <2> QED
    BY <2>1, <2>2
<1>5. CASE i > 1 /\ ~(i - 1 <= Len(ps))
  <2>1. Record(t, ps, n)[i] = ZeroCell
    BY <1>5 DEF Record
  <2> QED
    BY <1>1, <2>1
<1> QED
  BY <1>2, <1>3, <1>4, <1>5

(* Copying a record into the ring leaves a ring of cells. *)
LEMMA PutType ==
  ASSUME buffer \in [0 .. BufferSize - 1 -> Cells],
         NEW o, NEW n \in Nat, NEW r \in [0 .. n - 1 -> Cells],
         Put(o, r)
  PROVE  buffer' \in [0 .. BufferSize - 1 -> Cells]
BY DEF Put

(* Whatever a header's cells hold, its fields are numbers. *)
LEMMA FieldType ==
  ASSUME NEW c \in Cells
  PROVE  TypeRead(c) \subseteq Nat /\ SizeRead(c) \subseteq Nat
<1>1. CASE c \in {"type", "size"} \X Nat \X {0}
  BY <1>1, SizesAssumption DEF TypeRead, SizeRead, Padding, All
<1>2. CASE c \in {"data"} \X Nat \X Nat
  BY <1>2, SizesAssumption DEF TypeRead, SizeRead, Padding, All
<1>3. CASE c = ZeroCell
  BY <1>3, SizesAssumption DEF TypeRead, SizeRead, ZeroCell
<1> QED
  BY <1>1, <1>2, <1>3 DEF Cells

(* The freshly initialised queue header and ring have their types. *)
LEMMA InitTypeOK == Init => TypeOK
<1> SUFFICES ASSUME Init PROVE TypeOK
  OBVIOUS
<1>1. buffer \in [0 .. BufferSize - 1 -> Cells]
  BY DEF Init, Cells
<1>2. msg \in [Producers -> [type : Padding .. All, len : Nat]]
  BY DEF Init, NoHeader, Padding, All
<1>3. sends \in [Producers -> 0 .. MaxSends]
  BY SizesAssumption DEF Init
<1>4. hdr \in [type : Nat, len : Nat]
  BY DEF Init, NoHeader, Padding
<1>5. \A S : <<>> \in Seq(S)
  BY SeqDef
<1> QED
  BY <1>1, <1>2, <1>3, <1>4, <1>5 DEF Init, TypeOK

(* A producer that returns or starts over keeps its variables in their types. *)
LEMMA ResetType ==
  ASSUME TypeOK, NEW p \in Producers, Return(p) \/ Retry(p)
  PROVE  /\ pc' \in [Producers -> {"idle", "readPos", "reservePos", "cas", "padding",
                                   "message", "publish", "dead", "lost"}]
         /\ msg' \in [Producers -> [type : Padding .. All, len : Nat]]
         /\ rd' \in [Producers -> Nat]
         /\ rs' \in [Producers -> Nat]
         /\ sends' \in [Producers -> 0 .. MaxSends]
<1>1. pc' \in [Producers -> {"idle", "readPos", "reservePos", "cas", "padding",
                            "message", "publish", "dead", "lost"}]
  BY DEF TypeOK, Return, Retry, Goto
<1>2. NoHeader \in [type : Padding .. All, len : Nat]
  BY DEF NoHeader, Padding, All
<1>3. msg' = [msg EXCEPT ![p] = NoHeader] \/ msg' = msg
  BY DEF Return, Retry
<1>4. msg' \in [Producers -> [type : Padding .. All, len : Nat]]
  BY <1>2, <1>3 DEF TypeOK
<1>5. rd' \in [Producers -> Nat] /\ rs' \in [Producers -> Nat]
  <2>1. rd \in [Producers -> Nat] /\ rs \in [Producers -> Nat]
    BY DEF TypeOK
  <2>2. rd' = [rd EXCEPT ![p] = 0] /\ rs' = [rs EXCEPT ![p] = 0]
    BY DEF Return, Retry
  <2> QED
    BY <2>1, <2>2
<1>6. sends' \in [Producers -> 0 .. MaxSends]
  BY DEF TypeOK, Return, Retry
<1> QED
  BY <1>1, <1>4, <1>5, <1>6

(* The calls of a producer keep every variable in its type. *)
LEMMA ProducerTypeOK ==
  ASSUME TypeOK, NEW p \in Producers, StartSend(p) \/ Work(p) \/ Crash(p)
  PROVE  TypeOK'
<1> USE DEF Goto, positions, consumerVars, history
<1>m. msg[p] \in [type : Padding .. All, len : Nat] /\ rs[p] \in Nat /\ rd[p] \in Nat
  BY DEF TypeOK
<1>s. /\ msg[p].len \in Nat /\ msg[p].type \in Nat
      /\ Required(rs[p], msg[p]) \in Nat
      /\ PaddingSize(rs[p], msg[p]) \in Nat
      /\ MessageSize(msg[p]) \in Nat
      /\ rs[p] + Required(rs[p], msg[p]) \in Nat
  <2>1. msg[p].len \in Nat /\ msg[p].type \in Nat
    BY <1>m DEF Padding, All
  <2>2. Required(rs[p], msg[p]) \in Nat /\ PaddingSize(rs[p], msg[p]) \in Nat
    BY <1>m, <2>1, RequiredType
  <2> QED
    BY <1>m, <2>1, <2>2, SizeType
<1>1. CASE StartSend(p)
  <2>1. PICK m \in Messages : msg' = [msg EXCEPT ![p] = m]
    BY <1>1 DEF StartSend
  <2>2. m \in [type : Padding .. All, len : Nat]
    BY MessagesAssumption DEF Padding, Text, Number, Stop, All
  <2>3. sends' \in [Producers -> 0 .. MaxSends]
    BY <1>1, SizesAssumption DEF StartSend, TypeOK
  <2> QED
    BY <1>1, <2>1, <2>2, <2>3 DEF StartSend, TypeOK
<1>2. CASE LoadReadPos(p)
  BY <1>2 DEF LoadReadPos, TypeOK
<1>3. CASE LoadReservePos(p)
  <2>1. CASE Admits(p)
    BY <1>3, <2>1 DEF LoadReservePos, TypeOK
  <2>2. CASE ~Admits(p)
    <3>1. Return(p) \/ Retry(p)
      BY <1>3, <2>2 DEF LoadReservePos
    <3>2. UNCHANGED <<positions, buffer, consumerVars, history>>
      BY <1>3 DEF LoadReservePos
    <3> QED
      BY ResetType, <3>1, <3>2 DEF TypeOK
  <2> QED
    BY <2>1, <2>2
<1>4. CASE CasReserve(p)
  <2>1. log' \in Seq([start : Nat, msg : [type : Padding .. All, len : Nat]])
    BY <1>4, <1>m, AppendProperties DEF CasReserve, TypeOK
  <2>2. reservePos' \in Nat
    BY <1>4, <1>s DEF CasReserve
  <2>3. wrapped' \in BOOLEAN
    BY <1>4 DEF CasReserve
  <2>4. pc' \in [Producers -> {"idle", "readPos", "reservePos", "cas", "padding",
                               "message", "publish", "dead", "lost"}]
    BY <1>4 DEF CasReserve, TypeOK
  <2>5. UNCHANGED <<commitPos, readPos, buffer, msg, rd, rs, sends, consumerVars, delivered>>
    BY <1>4 DEF CasReserve
  <2> QED
    BY <2>1, <2>2, <2>3, <2>4, <2>5 DEF TypeOK
<1>5. CASE CasReserveFails(p)
  <2>1. Retry(p) /\ UNCHANGED <<positions, buffer, consumerVars, history>>
    BY <1>5 DEF CasReserveFails
  <2> QED
    BY ResetType, <2>1 DEF TypeOK
<1>6. CASE WritePaddingRecord(p)
  <2> DEFINE n == PaddingSize(rs[p], msg[p])
             zeros == [i \in 1 .. n - HeaderSize |-> ZeroCell]
  <2>1. ZeroCell \in Cells
    BY DEF Cells
  <2>2. zeros \in Seq(Cells)
    <3>1. n \in Nat
      BY <1>s
    <3> HIDE DEF n
    <3>2. CASE n >= HeaderSize
      <4>1. n - HeaderSize \in Nat
        BY <3>1, <3>2 DEF HeaderSize
      <4>2. zeros \in [1 .. n - HeaderSize -> Cells]
        BY <2>1
      <4> HIDE DEF zeros
      <4>3. [1 .. n - HeaderSize -> Cells] \subseteq Seq(Cells)
        BY <4>1, SeqDef
      <4> QED
        BY <4>2, <4>3
    <3>3. CASE ~(n >= HeaderSize)
      <4>1. 1 .. n - HeaderSize = 1 .. 0
        BY <3>1, <3>3 DEF HeaderSize
      <4>2. zeros \in [1 .. 0 -> Cells]
        BY <2>1, <4>1
      <4> HIDE DEF zeros
      <4>3. [1 .. 0 -> Cells] \subseteq Seq(Cells)
        BY SeqDef
      <4> QED
        BY <4>2, <4>3
    <3> QED
      BY <3>2, <3>3
  <2>3. Record(Padding, zeros, n) \in [0 .. n - 1 -> Cells]
    <3>1. n \in Nat /\ Padding \in Nat
      BY <1>s DEF Padding
    <3> HIDE DEF n, zeros
    <3> QED
      BY <3>1, <2>2, RecordType
  <2>4. buffer' \in [0 .. BufferSize - 1 -> Cells]
    <3>1. Put(Offset(rs[p]), Record(Padding, zeros, n))
      BY <1>6 DEF WritePaddingRecord
    <3>2. n \in Nat /\ buffer \in [0 .. BufferSize - 1 -> Cells]
      BY <1>s DEF TypeOK
    <3> HIDE DEF n, zeros
    <3> QED
      BY <3>1, <3>2, <2>3, PutType
  <2> QED
    BY <1>6, <2>4 DEF WritePaddingRecord, TypeOK
<1>7. CASE WriteMessageRecord(p)
  <2>1. Record(msg[p].type, Payload(rs[p], msg[p]), MessageSize(msg[p]))
          \in [0 .. MessageSize(msg[p]) - 1 -> Cells]
    BY <1>m, <1>s, PayloadType, RecordType
  <2>2. buffer' \in [0 .. BufferSize - 1 -> Cells]
    BY <1>7, <1>s, <2>1, PutType DEF WriteMessageRecord, TypeOK
  <2> QED
    BY <1>7, <2>2 DEF WriteMessageRecord, TypeOK
<1>8. CASE PublishReservedRange(p)
  <2>1. Return(p) /\ UNCHANGED <<reservePos, readPos, buffer, consumerVars, history>>
    BY <1>8 DEF PublishReservedRange
  <2>2. commitPos' \in Nat
    BY <1>8, <1>s DEF PublishReservedRange
  <2> QED
    BY ResetType, <2>1, <2>2 DEF TypeOK
<1>9. CASE Crash(p)
  BY <1>9 DEF Crash, TypeOK
<1> QED
  BY <1>1, <1>2, <1>3, <1>4, <1>5, <1>6, <1>7, <1>8, <1>9 DEF Work

(* So do the consumer's, even when it reads a header nobody wrote. *)
LEMMA ConsumerTypeOK ==
  ASSUME TypeOK, Consume
  PROVE  TypeOK'
<1> USE DEF positions, producerVars, history
<1>e. <<>> \in Seq(Cells) /\ ZeroCell \in Cells
  BY DEF Cells
<1>h. readPos \in Nat /\ hdr \in [type : Nat, len : Nat] /\ hdr.len \in Nat
  BY DEF TypeOK
<1>n. NextReadPos \in Nat
  BY <1>h, SizeType DEF NextReadPos
<1>o. Offset(readPos) \in 0 .. BufferSize - 1 /\ TailSpace(readPos) \in 1 .. BufferSize
  BY <1>h, OffsetType
<1>a. Again => cpc' = "load" /\ cm' \in Nat /\ hdr' \in [type : Nat, len : Nat]
                 /\ payload' \in Seq(Cells)
  BY <1>e DEF Again, NoHeader, Padding
<1>1. CASE LoadCommitPos
  BY <1>1 DEF LoadCommitPos, TypeOK
<1>2. CASE ReadHeader /\ TailSpace(readPos) < HeaderSize
  <2>1. readPos' = readPos + TailSpace(readPos) /\ Again
    BY <1>2 DEF ReadHeader
  <2>2. readPos' \in Nat
    BY <1>h, <1>o, <2>1
  <2>3. UNCHANGED <<reservePos, commitPos, buffer, producerVars, history>>
    BY <1>2 DEF ReadHeader
  <2> QED
    BY <1>a, <2>1, <2>2, <2>3 DEF TypeOK
<1>3. CASE ReadHeader /\ ~(TailSpace(readPos) < HeaderSize)
  <2>1. Offset(readPos) + 1 \in 0 .. BufferSize - 1
    BY <1>3, <1>o, SizesAssumption DEF TailSpace, HeaderSize
  <2>2. buffer[Offset(readPos)] \in Cells /\ buffer[Offset(readPos) + 1] \in Cells
    BY <1>o, <2>1 DEF TypeOK
  <2>3. PICK t \in TypeRead(buffer[Offset(readPos)]),
             n \in SizeRead(buffer[Offset(readPos) + 1]) :
           hdr' = [type |-> t, len |-> n]
    BY <1>3 DEF ReadHeader
  <2>4. t \in Nat /\ n \in Nat
    BY <2>2, FieldType
  <2>5. hdr' \in [type : Nat, len : Nat]
    BY <2>3, <2>4
  <2>6. cpc' = "record" /\ UNCHANGED <<readPos, cm, payload>>
    BY <1>3 DEF ReadHeader
  <2>7. UNCHANGED <<reservePos, commitPos, buffer, producerVars, history>>
    BY <1>3 DEF ReadHeader
  <2> QED
    BY <2>5, <2>6, <2>7 DEF TypeOK
<1>4. CASE PassOver
  <2>1. readPos' \in Nat
    BY <1>4, <1>h, <1>n DEF PassOver
  <2>2. Again /\ UNCHANGED <<reservePos, commitPos, buffer, producerVars, history>>
    BY <1>4 DEF PassOver
  <2> QED
    BY <1>a, <2>1, <2>2 DEF TypeOK
<1>5. CASE CopyPayload
  <2>1. \A i \in 1 .. hdr.len : Offset(readPos) + HeaderSize + i - 1 \in Nat
    BY <1>h, <1>o DEF HeaderSize
  <2>2. \A i \in 1 .. hdr.len : Offset(readPos) + HeaderSize + i - 1 < BufferSize =>
          buffer[Offset(readPos) + HeaderSize + i - 1] \in Cells
    BY <2>1, SizesAssumption DEF TypeOK
  <2>3. payload' \in [1 .. hdr.len -> Cells]
    BY <1>5, <1>e, <2>2 DEF CopyPayload
  <2>4. payload' \in Seq(Cells)
    BY <1>h, <2>3, SeqDef
  <2> QED
    BY <1>5, <2>4 DEF CopyPayload, TypeOK
<1>6. CASE FinishReceive
  <2>1. [type |-> hdr.type, payload |-> payload] \in [type : Nat, payload : Seq(Cells)]
    BY DEF TypeOK
  <2>2. delivered' \in Seq([type : Nat, payload : Seq(Cells)])
    BY <1>6, <2>1, AppendProperties DEF FinishReceive, TypeOK
  <2>3. readPos' \in Nat
    BY <1>6, <1>n DEF FinishReceive
  <2>4. Again /\ UNCHANGED <<reservePos, commitPos, buffer, producerVars, log, wrapped>>
    BY <1>6 DEF FinishReceive
  <2> QED
    BY <1>a, <2>2, <2>3, <2>4 DEF TypeOK
<1> QED
  BY <1>1, <1>2, <1>3, <1>4, <1>5, <1>6 DEF Consume

(* Every step of a producer or of the consumer keeps the types. *)
LEMMA NextTypeOK == TypeOK /\ [Next]_vars => TypeOK'
<1> SUFFICES ASSUME TypeOK, [Next]_vars PROVE TypeOK'
  OBVIOUS
<1>1. CASE UNCHANGED vars
  BY <1>1 DEF vars, positions, producerVars, consumerVars, history, TypeOK
<1>2. CASE Next
  BY <1>2, ProducerTypeOK, ConsumerTypeOK DEF Next
<1> QED
  BY <1>1, <1>2

(* The shared positions stay natural numbers, the ring holds only header fields,
   payload and zeros, and both loops stay at known points, whatever is sent. *)
THEOREM TypeCorrect == Spec => []TypeOK
<1>1. TypeOK /\ [Next]_vars => TypeOK'
  BY NextTypeOK
<1> QED
  BY <1>1, InitTypeOK, PTL DEF Spec

-----------------------------------------------------------------------------
(* The inductive invariant *)

(* Without wrapping, freeSpace is what it says. *)
LEMMA FreeSpaceExact ==
  ASSUME NEW r \in Nat, NEW w \in Nat, r <= w, w - r <= BufferSize
  PROVE  FreeSpace(r, w) = BufferSize - (w - r)
BY SizesAssumption DEF FreeSpace, Sub64

(* The types that the arithmetic below needs, by name. *)
LEMMA Numbers ==
  ASSUME TypeOK
  PROVE  /\ reservePos \in Nat /\ commitPos \in Nat /\ readPos \in Nat /\ cm \in Nat
         /\ \A p \in Producers : /\ rd[p] \in Nat /\ rs[p] \in Nat
                                 /\ Required(rs[p], msg[p]) \in Nat
                                 /\ Required(rs[p], msg[p]) >= 2
                                 /\ EndOf(p) \in Nat
                                 /\ EndOf(p) = rs[p] + Required(rs[p], msg[p])
<1>1. reservePos \in Nat /\ commitPos \in Nat /\ readPos \in Nat /\ cm \in Nat
  BY DEF TypeOK
<1>2. ASSUME NEW p \in Producers
      PROVE  /\ rd[p] \in Nat /\ rs[p] \in Nat
             /\ Required(rs[p], msg[p]) \in Nat
             /\ Required(rs[p], msg[p]) >= 2
  <2>1. rd[p] \in Nat /\ rs[p] \in Nat /\ msg[p].len \in Nat
    BY DEF TypeOK
  <2> QED
    BY <2>1, RequiredType
<1>3. ASSUME NEW p \in Producers
      PROVE  EndOf(p) \in Nat /\ EndOf(p) = rs[p] + Required(rs[p], msg[p])
  <2>1. EndOf(p) = rs[p] + Required(rs[p], msg[p])
    BY DEF EndOf
  <2>2. rs[p] \in Nat /\ Required(rs[p], msg[p]) \in Nat
    BY <1>2
  <2>3. rs[p] + Required(rs[p], msg[p]) \in Nat
    BY <2>2
  <2> QED
    BY <2>1, <2>3
<1> QED
  BY <1>1, <1>2, <1>3

(* Reservations stay where they are when none is made or published. *)
LEMMA HeldKept ==
  ASSUME ReservationsInside, ReservationsApart,
         UNCHANGED <<reservePos, commitPos>>,
         \A q \in Producers : Holds(q)' => Holds(q) /\ EndOf(q)' = EndOf(q) /\ rs'[q] = rs[q]
  PROVE  ReservationsInside' /\ ReservationsApart'
BY DEF ReservationsInside, ReservationsApart

(* What the other producers hold does not depend on p's variables. *)
LEMMA OthersUnchanged ==
  ASSUME TypeOK, NEW p \in Producers, StartSend(p) \/ Work(p) \/ Crash(p)
  PROVE  \A q \in Producers \ {p} :
           /\ pc'[q] = pc[q] /\ rd'[q] = rd[q] /\ rs'[q] = rs[q] /\ msg'[q] = msg[q]
           /\ Holds(q)' = Holds(q)
           /\ EndOf(q)' = EndOf(q)
<1>1. \A q \in Producers \ {p} :
        pc'[q] = pc[q] /\ rd'[q] = rd[q] /\ rs'[q] = rs[q] /\ msg'[q] = msg[q]
  <2> USE DEF TypeOK, Goto
  <2>1. CASE StartSend(p)
    BY <2>1 DEF StartSend
  <2>2. CASE LoadReadPos(p)
    BY <2>2 DEF LoadReadPos
  <2>3. CASE LoadReservePos(p)
    BY <2>3 DEF LoadReservePos, Return, Retry
  <2>4. CASE CasReserve(p)
    BY <2>4 DEF CasReserve
  <2>5. CASE CasReserveFails(p)
    BY <2>5 DEF CasReserveFails, Retry
  <2>6. CASE WritePaddingRecord(p)
    BY <2>6 DEF WritePaddingRecord
  <2>7. CASE WriteMessageRecord(p)
    BY <2>7 DEF WriteMessageRecord
  <2>8. CASE PublishReservedRange(p)
    BY <2>8 DEF PublishReservedRange, Return
  <2>9. CASE Crash(p)
    BY <2>9 DEF Crash
  <2> QED
    BY <2>1, <2>2, <2>3, <2>4, <2>5, <2>6, <2>7, <2>8, <2>9 DEF Work
<1> QED
  BY <1>1 DEF Holds, EndOf

(* Steps of a producer that move no shared position. *)
LEMMA QuietIInv ==
  ASSUME IInv, TypeOK', NEW p \in Producers,
         \/ StartSend(p) \/ LoadReadPos(p) \/ LoadReservePos(p) \/ CasReserveFails(p)
         \/ WritePaddingRecord(p) \/ WriteMessageRecord(p) \/ Crash(p)
  PROVE  IInv'
<1> USE DEF IInv
<1>1. UNCHANGED <<reservePos, commitPos, readPos, cpc, cm, hdr, wrapped>>
  BY DEF StartSend, LoadReadPos, LoadReservePos, CasReserveFails, WritePaddingRecord,
         WriteMessageRecord, Crash, positions, consumerVars, history
<1>2. \A q \in Producers \ {p} :
        /\ pc'[q] = pc[q] /\ rd'[q] = rd[q] /\ rs'[q] = rs[q] /\ msg'[q] = msg[q]
        /\ Holds(q)' = Holds(q)
        /\ EndOf(q)' = EndOf(q)
  BY OthersUnchanged DEF Work
<1>3. Holds(p)' => Holds(p) /\ EndOf(p)' = EndOf(p) /\ rs'[p] = rs[p]
  BY DEF Holds, EndOf, TypeOK, Goto, StartSend, LoadReadPos, LoadReservePos, CasReserveFails,
         WritePaddingRecord, WriteMessageRecord, Crash, Return, Retry
<1>4. ReservationsInside' /\ ReservationsApart'
  BY <1>1, <1>2, <1>3, HeldKept
<1>5. ReaderBehind' /\ NoOverrun'
  BY <1>1 DEF ReaderBehind, NoOverrun, NextReadPos
<1>6. /\ rd'[p] <= readPos
      /\ pc'[p] = "cas" => /\ rd'[p] <= rs'[p]
                           /\ rs'[p] <= reservePos
                           /\ FreeSpace(rd'[p], rs'[p]) >= Required(rs'[p], msg'[p])
      /\ SoleProducer =>
           /\ pc'[p] = "reservePos" => reservePos <= rd'[p] + BufferSize
           /\ pc'[p] = "cas" => rs'[p] = reservePos /\ rs'[p] <= rd'[p] + BufferSize
  <2>1. CASE LoadReadPos(p)
    <3>1. rd'[p] = readPos /\ pc'[p] = "reservePos"
      BY <2>1 DEF LoadReadPos, Goto, TypeOK
    <3>2. SoleProducer => reservePos <= readPos + BufferSize
      BY DEF SoleNeverWraps, NoOverrun
    <3> QED
      BY <3>1, <3>2, Numbers
  <2>2. CASE LoadReservePos(p) /\ Admits(p)
    <3>1. /\ pc[p] = "reservePos" /\ pc'[p] = "cas"
          /\ rd'[p] = rd[p] /\ msg'[p] = msg[p] /\ rs'[p] = reservePos
      BY <2>2 DEF LoadReservePos, Goto, TypeOK
    <3>2. FreeSpace(rd[p], reservePos) >= Required(reservePos, msg[p])
      BY <2>2 DEF Admits
    <3>3. rd[p] <= readPos /\ readPos <= commitPos /\ commitPos <= reservePos
      BY DEF StaleLoads, ReaderBehind, ReservationsInside
    <3>4. rd[p] <= reservePos
      BY <3>3, Numbers
    <3>5. SoleProducer => reservePos <= rd[p] + BufferSize
      BY <3>1 DEF SoleNeverWraps
    <3> QED
      BY <3>1, <3>2, <3>3, <3>4, <3>5, Numbers
  <2>3. CASE (LoadReservePos(p) /\ ~Admits(p)) \/ CasReserveFails(p)
    <3>1. rd'[p] = 0 /\ pc'[p] \in {"idle", "readPos"}
      BY <2>3 DEF LoadReservePos, CasReserveFails, Return, Retry, Goto, TypeOK
    <3> QED
      BY <3>1, Numbers
  <2>4. CASE \/ StartSend(p) \/ WritePaddingRecord(p) \/ WriteMessageRecord(p) \/ Crash(p)
    <3>1. rd'[p] = rd[p] /\ pc'[p] \in {"readPos", "message", "publish", "dead", "lost"}
      BY <2>4 DEF StartSend, WritePaddingRecord, WriteMessageRecord, Crash, Goto, TypeOK
    <3> QED
      BY <3>1 DEF StaleLoads
  <2> QED
    BY <2>1, <2>2, <2>3, <2>4
<1>7. StaleLoads'
  BY <1>1, <1>2, <1>6 DEF StaleLoads
<1>8. SoleNeverWraps'
  BY <1>1, <1>2, <1>6 DEF SoleNeverWraps, SoleProducer
<1> QED
  BY <1>4, <1>5, <1>7, <1>8

(* A successful reservation begins where all others end, and stays within
   bufferSize of readPos unless freeSpace had wrapped (mpsc_queue.cpp 179-201). *)
LEMMA CasReserveIInv ==
  ASSUME IInv, TypeOK', NEW p \in Producers, CasReserve(p)
  PROVE  IInv'
<1> USE DEF IInv
<1>1. /\ pc[p] = "cas" /\ reservePos = rs[p] /\ Holds(p)' /\ pc'[p] # "cas" /\ pc'[p] # "reservePos"
      /\ UNCHANGED <<commitPos, readPos, cpc, cm, hdr>>
      /\ rd'[p] = rd[p] /\ rs'[p] = rs[p] /\ msg'[p] = msg[p]
  BY DEF CasReserve, Goto, Holds, TypeOK, consumerVars
<1>2. reservePos' = EndOf(p) /\ EndOf(p)' = EndOf(p)
  BY <1>1 DEF CasReserve, EndOf
<1>3. wrapped' = (wrapped \/ rs[p] - rd[p] > BufferSize)
  BY DEF CasReserve
<1>4. \A q \in Producers \ {p} :
        /\ pc'[q] = pc[q] /\ rd'[q] = rd[q] /\ rs'[q] = rs[q] /\ msg'[q] = msg[q]
        /\ Holds(q)' = Holds(q)
        /\ EndOf(q)' = EndOf(q)
  BY OthersUnchanged DEF Work
<1>5. reservePos < EndOf(p)
  BY <1>1, Numbers
<1>6. ReaderBehind'
  BY <1>1 DEF ReaderBehind, NextReadPos
<1>7. ReservationsInside'
  <2>1. commitPos <= reservePos'
    BY <1>2, <1>5, Numbers DEF ReservationsInside
  <2>2. ASSUME NEW q \in Producers, Holds(q)'
        PROVE  commitPos <= rs'[q] /\ EndOf(q)' <= reservePos'
    <3>1. CASE q = p
      BY <1>1, <1>2, <3>1, Numbers DEF ReservationsInside
    <3>2. CASE q # p
      <4>1. commitPos <= rs[q] /\ EndOf(q) <= reservePos
        BY <1>4, <2>2, <3>2 DEF ReservationsInside
      <4> QED
        BY <1>2, <1>4, <1>5, <3>2, <4>1, Numbers
    <3> QED
      BY <3>1, <3>2
  <2> QED
    BY <1>1, <2>1, <2>2 DEF ReservationsInside
<1>8. ReservationsApart'
  <2>1. \A q \in Producers \ {p} : Holds(q)' => EndOf(q)' <= rs'[p]
    BY <1>1, <1>4 DEF ReservationsInside
  <2> QED
    BY <1>4, <2>1 DEF ReservationsApart
<1>9. StaleLoads'
  <2>1. rd'[p] <= readPos' /\ pc'[p] # "cas"
    BY <1>1 DEF StaleLoads
  <2>2. ASSUME NEW q \in Producers \ {p}
        PROVE  /\ rd'[q] <= readPos'
               /\ pc'[q] = "cas" => /\ rd'[q] <= rs'[q]
                                    /\ rs'[q] <= reservePos'
                                    /\ FreeSpace(rd'[q], rs'[q]) >= Required(rs'[q], msg'[q])
    <3>1. /\ rd[q] <= readPos
          /\ pc[q] = "cas" => /\ rd[q] <= rs[q]
                              /\ rs[q] <= reservePos
                              /\ FreeSpace(rd[q], rs[q]) >= Required(rs[q], msg[q])
      BY DEF StaleLoads
    <3>2. pc[q] = "cas" => rs[q] <= EndOf(p)
      BY <1>5, <3>1, Numbers
    <3> QED
      BY <1>1, <1>2, <1>4, <3>1, <3>2
  <2> QED
    BY <2>1, <2>2 DEF StaleLoads
<1>10. NoOverrun'
  <2> SUFFICES ASSUME ~wrapped' PROVE reservePos' <= readPos' + BufferSize
    BY DEF NoOverrun
  <2>1. /\ rd[p] <= rs[p] /\ rd[p] <= readPos
        /\ FreeSpace(rd[p], rs[p]) >= Required(rs[p], msg[p])
    BY <1>1 DEF StaleLoads
  <2>2. rs[p] - rd[p] <= BufferSize
    <3>1. ~(rs[p] - rd[p] > BufferSize)
      BY <1>3, Zenon
    <3> QED
      BY <3>1, Numbers, SizesAssumption
  <2>3. FreeSpace(rd[p], rs[p]) = BufferSize - (rs[p] - rd[p])
    BY <2>1, <2>2, FreeSpaceExact, Numbers
  <2> QED
    BY <1>1, <1>2, <2>1, <2>3, Numbers, SizesAssumption
<1>11. SoleNeverWraps'
  <2> SUFFICES ASSUME SoleProducer
               PROVE  /\ ~wrapped'
                      /\ \A q \in Producers :
                           /\ pc'[q] = "reservePos" => reservePos' <= rd'[q] + BufferSize
                           /\ pc'[q] = "cas" => /\ rs'[q] = reservePos'
                                                /\ rs'[q] <= rd'[q] + BufferSize
    BY DEF SoleNeverWraps, SoleProducer
  <2>1. ~wrapped /\ rs[p] <= rd[p] + BufferSize
    BY <1>1 DEF SoleNeverWraps
  <2>2. ~wrapped'
    <3>1. ~(rs[p] - rd[p] > BufferSize)
      BY <2>1, Numbers, SizesAssumption
    <3> QED
      BY <1>3, <2>1, <3>1, Zenon
  <2>3. \A q \in Producers : q = p
    BY DEF SoleProducer
  <2> QED
    BY <1>1, <2>2, <2>3
<1> QED
  BY <1>6, <1>7, <1>8, <1>9, <1>10, <1>11

(* Only the earliest unpublished reservation can be published, and commitPos
   then moves to where the next one begins. *)
LEMMA PublishIInv ==
  ASSUME IInv, TypeOK', NEW p \in Producers, PublishReservedRange(p)
  PROVE  IInv'
<1> USE DEF IInv
<1>1. /\ Holds(p) /\ commitPos = rs[p] /\ commitPos' = EndOf(p)
      /\ UNCHANGED <<reservePos, readPos, cpc, cm, hdr, wrapped>>
      /\ pc'[p] = "idle" /\ ~Holds(p)' /\ rd'[p] = 0
  BY DEF PublishReservedRange, Return, Goto, Holds, EndOf, TypeOK, consumerVars, history
<1>2. \A q \in Producers \ {p} :
        /\ pc'[q] = pc[q] /\ rd'[q] = rd[q] /\ rs'[q] = rs[q] /\ msg'[q] = msg[q]
        /\ Holds(q)' = Holds(q)
        /\ EndOf(q)' = EndOf(q)
  BY OthersUnchanged DEF Work
<1>3. commitPos <= EndOf(p)
  BY <1>1, Numbers
<1>4. ReaderBehind'
  <2>1. readPos <= EndOf(p) /\ cm <= EndOf(p)
    BY <1>3, Numbers DEF ReaderBehind
  <2> QED
    BY <1>1, <2>1 DEF ReaderBehind, NextReadPos
<1>5. ReservationsInside'
  <2>1. commitPos' <= reservePos'
    BY <1>1 DEF ReservationsInside
  <2>2. ASSUME NEW q \in Producers, Holds(q)'
        PROVE  commitPos' <= rs'[q] /\ EndOf(q)' <= reservePos'
    <3>1. q \in Producers \ {p} /\ Holds(q)
      BY <1>1, <1>2, <2>2
    <3>2. commitPos <= rs[q] /\ EndOf(q) <= reservePos
      BY <3>1 DEF ReservationsInside
    <3>3. EndOf(p) <= rs[q] \/ EndOf(q) <= rs[p]
      BY <1>1, <3>1 DEF ReservationsApart
    <3>4. EndOf(p) <= rs[q]
      BY <1>1, <3>1, <3>2, <3>3, Numbers
    <3> QED
      BY <1>1, <1>2, <3>1, <3>2, <3>4
  <2> QED
    BY <2>1, <2>2 DEF ReservationsInside
<1>6. ReservationsApart'
  BY <1>1, <1>2 DEF ReservationsApart
<1>7. StaleLoads'
  <2>1. rd'[p] <= readPos'
    BY <1>1, Numbers
  <2> QED
    BY <1>1, <1>2, <2>1 DEF StaleLoads
<1>8. NoOverrun'
  BY <1>1 DEF NoOverrun
<1>9. SoleNeverWraps'
  BY <1>1, <1>2 DEF SoleNeverWraps, SoleProducer
<1> QED
  BY <1>4, <1>5, <1>6, <1>7, <1>8, <1>9

(* The consumer only moves readPos forward, by aligned steps, and never past
   what it saw published.  In an aligned ring no tail is too short for a
   header, so the skip of mpsc_queue.cpp 350-353 is never taken. *)
LEMMA ConsumerIInv ==
  ASSUME IInv, TypeOK', BufferSize % Alignment = 0, Consume
  PROVE  IInv'
<1> USE DEF IInv
<1>1. UNCHANGED <<reservePos, commitPos, wrapped, pc, msg, rd, rs>>
  BY DEF Consume, LoadCommitPos, ReadHeader, PassOver, CopyPayload, FinishReceive,
         positions, producerVars, history
<1>2. hdr.len \in Nat
  BY DEF TypeOK
<1>3. NextReadPos \in Nat /\ NextReadPos % 2 = 0 /\ NextReadPos >= readPos
  BY <1>2, SizeType, Numbers DEF NextReadPos, ReaderBehind, Alignment
<1>4. ~(TailSpace(readPos) < HeaderSize)
  <2>1. TailSpace(readPos) \in Nat /\ TailSpace(readPos) >= HeaderSize
    BY EvenOffset, OffsetType, Numbers DEF ReaderBehind, Alignment
  <2> QED
    BY <2>1 DEF HeaderSize
<1>5. readPos' \in Nat /\ readPos' >= readPos /\ readPos' <= commitPos /\ readPos' % 2 = 0
  <2>1. \/ readPos' = readPos
        \/ readPos' = NextReadPos /\ NextReadPos <= cm
    BY <1>3, <1>4, Numbers DEF Consume, LoadCommitPos, ReadHeader, PassOver, CopyPayload,
       FinishReceive, positions, ReaderBehind
  <2> QED
    BY <1>3, <2>1, Numbers DEF ReaderBehind, Alignment
<1>6. cm' <= commitPos'
  <2>1. cm' \in {cm, commitPos, 0}
    BY DEF Consume, LoadCommitPos, ReadHeader, PassOver, CopyPayload, FinishReceive, Again
  <2> QED
    BY <1>1, <2>1, Numbers DEF ReaderBehind
<1>7. cpc' = "return" => NextReadPos' <= cm'
  BY DEF Consume, LoadCommitPos, ReadHeader, PassOver, CopyPayload, FinishReceive, Again,
         NextReadPos, positions
<1>8. ReaderBehind'
  BY <1>1, <1>5, <1>6, <1>7 DEF ReaderBehind, Alignment
<1>9. ReservationsInside' /\ ReservationsApart'
  BY <1>1 DEF ReservationsInside, ReservationsApart, Holds, EndOf
<1>10. StaleLoads'
  <2>1. ASSUME NEW p \in Producers
        PROVE  rd[p] <= readPos'
    BY <1>5, Numbers DEF StaleLoads
  <2> QED
    BY <1>1, <2>1 DEF StaleLoads
<1>11. NoOverrun'
  <2>1. readPos + BufferSize <= readPos' + BufferSize
    BY <1>5, Numbers, SizesAssumption
  <2> QED
    BY <1>1, <1>5, <2>1, Numbers, SizesAssumption DEF NoOverrun
<1>12. SoleNeverWraps'
  BY <1>1 DEF SoleNeverWraps, SoleProducer
<1> QED
  BY <1>8, <1>9, <1>10, <1>11, <1>12

(* Every step preserves the inductive invariant in an aligned ring. *)
LEMMA NextIInv ==
  ASSUME BufferSize % Alignment = 0, IInv, [Next]_vars
  PROVE  IInv'
<1>1. TypeOK'
  BY NextTypeOK DEF IInv
<1>2. CASE UNCHANGED vars
  BY <1>1, <1>2 DEF vars, positions, producerVars, consumerVars, history, IInv, ReaderBehind,
     NextReadPos, ReservationsInside, ReservationsApart, Holds, EndOf, StaleLoads, NoOverrun,
     SoleNeverWraps, SoleProducer
<1>3. CASE Next
  BY <1>1, <1>3, QuietIInv, CasReserveIInv, PublishIInv, ConsumerIInv DEF Next, Work
<1> QED
  BY <1>2, <1>3

(* The freshly initialised queue satisfies the inductive invariant. *)
LEMMA InitIInv == Init => IInv
<1> SUFFICES ASSUME Init PROVE IInv
  OBVIOUS
<1>1. TypeOK
  BY InitTypeOK
<1>2. \A p \in Producers : pc[p] = "idle" /\ rd[p] = 0 /\ ~Holds(p)
  BY DEF Init, Holds
<1>3. ReaderBehind
  BY DEF Init, ReaderBehind, Alignment
<1>4. ReservationsInside /\ ReservationsApart
  BY <1>2 DEF Init, ReservationsInside, ReservationsApart
<1>5. StaleLoads
  <2>1. readPos = 0 /\ 0 <= 0
    BY DEF Init
  <2> QED
    BY <1>2, <2>1 DEF StaleLoads
<1>6. NoOverrun
  BY SizesAssumption DEF Init, NoOverrun
<1>7. SoleNeverWraps
  BY <1>2 DEF Init, SoleNeverWraps
<1> QED
  BY <1>1, <1>3, <1>4, <1>5, <1>6, <1>7 DEF IInv

(* In a ring whose size is a multiple of Alignment, the invariant holds for any
   number of producers, any messages and any number of crashes. *)
THEOREM Invariance ==
  ASSUME BufferSize % Alignment = 0
  PROVE  Spec => []IInv
<1>1. IInv /\ [Next]_vars => IInv'
  BY NextIInv
<1> QED
  BY <1>1, InitIInv, PTL DEF Spec

(* readPos, commitPos and reservePos keep their order and at most bufferSize is
   reserved, as long as freeSpace has not wrapped (mpsc_queue.cpp 170-286). *)
THEOREM Positions ==
  ASSUME BufferSize % Alignment = 0
  PROVE  Spec => []PositionsOrdered
<1>1. IInv => PositionsOrdered
  BY DEF IInv, ReaderBehind, ReservationsInside, NoOverrun, PositionsOrdered
<1> QED
  BY <1>1, Invariance, PTL

(* With a single producer freeSpace never wraps: the stale readPos of the first
   load is only a danger when somebody else moves reservePos in between. *)
THEOREM SoleProducerNeverWraps ==
  ASSUME BufferSize % Alignment = 0, SoleProducer
  PROVE  Spec => [](reservePos <= readPos + BufferSize)
<1>1. IInv => reservePos <= readPos + BufferSize
  BY DEF IInv, NoOverrun, SoleNeverWraps
<1> QED
  BY <1>1, Invariance, PTL

(* Two positions less than bufferSize apart are different cells of the ring. *)
LEMMA OffsetInjective ==
  ASSUME NEW i \in Nat, NEW j \in Nat, i < j, j - i < BufferSize
  PROVE  Offset(i) # Offset(j)
<1> DEFINE a == i \div BufferSize
           b == j \div BufferSize
<1>1. a \in Nat /\ i = BufferSize * a + Offset(i)
  BY SizesAssumption DEF Offset
<1>2. b \in Nat /\ j = BufferSize * b + Offset(j)
  BY SizesAssumption DEF Offset
<1> HIDE DEF a, b
<1> SUFFICES ASSUME Offset(i) = Offset(j) PROVE FALSE
  OBVIOUS
<1>3. Offset(i) \in Nat
  BY OffsetType
<1>4. BufferSize * b - BufferSize * a = j - i
  <2>1. BufferSize * a \in Nat /\ BufferSize * b \in Nat
    BY <1>1, <1>2, SizesAssumption
  <2> QED
    BY <1>1, <1>2, <1>3, <2>1
<1>5. CASE b <= a
  <2>1. BufferSize * b <= BufferSize * a
    BY <1>1, <1>2, <1>5, SizesAssumption
  <2> QED
    BY <1>1, <1>2, <1>4, <2>1, SizesAssumption
<1>6. CASE b >= a + 1
  <2>1. BufferSize * b >= BufferSize * (a + 1)
    BY <1>1, <1>2, <1>6, SizesAssumption
  <2>2. BufferSize * (a + 1) = BufferSize * a + BufferSize
    BY <1>1, SizesAssumption
  <2>3. BufferSize * a \in Nat /\ BufferSize * b \in Nat
    BY <1>1, <1>2, SizesAssumption
  <2> QED
    BY <1>4, <2>1, <2>2, <2>3, SizesAssumption
<1> QED
  BY <1>1, <1>2, <1>5, <1>6

(* Ranges of positions that are apart, within one turn of the ring, have no cell
   in common. *)
LEMMA CellsApart ==
  ASSUME NEW a \in Nat, NEW b \in Nat, NEW c \in Nat, NEW d \in Nat, NEW r \in Nat,
         r <= a, b <= c, d <= r + BufferSize
  PROVE  CellsOf(a, b) \cap CellsOf(c, d) = {}
<1> SUFFICES ASSUME NEW i \in a .. b - 1, NEW j \in c .. d - 1
             PROVE  Offset(i) # Offset(j)
  BY DEF CellsOf
<1>1. i \in Nat /\ j \in Nat /\ i < j /\ j - i < BufferSize
  BY SizesAssumption
<1> QED
  BY <1>1, OffsetInjective

(* No producer fills a cell that the consumer may be reading or that another
   producer is filling: memcpy into the ring needs no lock (mpsc_queue.cpp 209-215). *)
THEOREM WritersNeverCollide ==
  ASSUME BufferSize % Alignment = 0
  PROVE  Spec => []WritersApart
<1>1. ASSUME IInv PROVE WritersApart
  <2> SUFFICES ASSUME ~wrapped, NEW p \in Producers, Holds(p)
               PROVE  /\ Reserved(p) \cap CellsOf(readPos, commitPos) = {}
                      /\ \A q \in Producers \ {p} : Holds(q) => Reserved(p) \cap Reserved(q) = {}
    BY DEF WritersApart
  <2>t. TypeOK
    BY <1>1 DEF IInv
  <2>n. /\ readPos \in Nat /\ commitPos \in Nat /\ reservePos \in Nat
        /\ \A q \in Producers : rs[q] \in Nat /\ EndOf(q) \in Nat
    BY <2>t, Numbers
  <2>r. readPos <= commitPos /\ reservePos <= readPos + BufferSize
    BY <1>1 DEF IInv, ReaderBehind, NoOverrun
  <2>i. \A q \in Producers : Holds(q) => commitPos <= rs[q] /\ EndOf(q) <= reservePos
    BY <1>1 DEF IInv, ReservationsInside
  <2>w. \A q \in Producers : Holds(q) => readPos <= rs[q] /\ EndOf(q) <= readPos + BufferSize
    BY <2>n, <2>r, <2>i, SizesAssumption
  <2>1. CellsOf(readPos, commitPos) \cap CellsOf(rs[p], EndOf(p)) = {}
    BY <2>n, <2>i, <2>w, CellsApart
  <2>2. ASSUME NEW q \in Producers \ {p}, Holds(q)
        PROVE  Reserved(p) \cap Reserved(q) = {}
    <3>1. EndOf(p) <= rs[q] \/ EndOf(q) <= rs[p]
      BY <1>1, <2>2 DEF IInv, ReservationsApart
    <3>2. CASE EndOf(p) <= rs[q]
      BY <2>2, <2>n, <2>w, <3>2, CellsApart DEF Reserved
    <3>3. CASE EndOf(q) <= rs[p]
      <4>1. CellsOf(rs[q], EndOf(q)) \cap CellsOf(rs[p], EndOf(p)) = {}
        BY <2>2, <2>n, <2>w, <3>3, CellsApart
      <4> QED
        BY <4>1 DEF Reserved
    <3> QED
      BY <3>1, <3>2, <3>3
  <2> QED
    BY <2>1, <2>2 DEF Reserved
<1> QED
  BY <1>1, Invariance, PTL

-----------------------------------------------------------------------------
(* The contents of the ring *)

(* Where the message of a reservation begins, behind its padding. *)
MsgPos(e) == e.start + PaddingSize(e.start, e.msg)

(* Reservations follow one another without a gap, on aligned positions. *)
LogOK ==
  /\ reservePos % 2 = 0
  /\ \A k \in DOMAIN log :
       /\ log[k].msg \in Messages /\ MessageSize(log[k].msg) <= BufferSize
       /\ log[k].start % 2 = 0 /\ End(log[k]) <= reservePos
       /\ End(log[k]) = IF k < Len(log) THEN log[k + 1].start ELSE reservePos
  /\ \A j, k \in DOMAIN log : j < k => End(log[j]) <= log[k].start

(* A producer sends a message that fits, in the range it has reserved. *)
SendersOK ==
  \A p \in Producers :
    /\ pc[p] \notin {"idle", "dead", "lost"} =>
         msg[p] \in Messages /\ MessageSize(msg[p]) <= BufferSize
    /\ Holds(p) => \E k \in DOMAIN log : log[k].start = rs[p] /\ log[k].msg = msg[p]

(* Reservations are published as a whole. *)
CommitOK == commitPos = reservePos \/ \E k \in DOMAIN log : commitPos = log[k].start

(* The consumer is at the beginning of a record. *)
ReaderOK ==
  /\ readPos = reservePos \/ \E k \in DOMAIN log : readPos \in {log[k].start, MsgPos(log[k])}
  /\ cpc # "load" => readPos < cm

(* Reservation e is published, or its producer has got to one of the places L. *)
Filled(e, L) ==
  End(e) <= commitPos \/ \E p \in Producers : pc[p] \in L /\ rs[p] = e.start

Zeros(n) == [i \in 1 .. n |-> ZeroCell]

(* The record with type t, payload ps and n cells lies at pos. *)
HasRecord(pos, t, ps, n) == \A i \in 0 .. n - 1 : buffer[Offset(pos) + i] = Record(t, ps, n)[i]

HasPadding(e) ==
  LET n == PaddingSize(e.start, e.msg)
  IN  HasRecord(e.start, Padding, Zeros(n - HeaderSize), n)

HasMessage(e) == HasRecord(MsgPos(e), e.msg.type, Payload(e.start, e.msg), MessageSize(e.msg))

(* What has been filled in and not been read yet is there. *)
RingHolds ==
  \A k \in DOMAIN log :
    /\ PaddingSize(log[k].start, log[k].msg) > 0 /\ readPos <= log[k].start
         /\ Filled(log[k], {"message", "publish"}) => HasPadding(log[k])
    /\ readPos <= MsgPos(log[k]) /\ Filled(log[k], {"publish"}) => HasMessage(log[k])

(* The header that the consumer has copied is that of the record at readPos. *)
AtPadding(e) ==
  /\ readPos = e.start /\ PaddingSize(e.start, e.msg) > 0
  /\ hdr.type = Padding /\ hdr.len = PaddingSize(e.start, e.msg) - HeaderSize

AtMessage(e) == readPos = MsgPos(e) /\ hdr.type = e.msg.type /\ hdr.len = e.msg.len

HeaderOK ==
  /\ cpc = "record" =>
       \E k \in DOMAIN log : End(log[k]) <= commitPos /\ (AtPadding(log[k]) \/ AtMessage(log[k]))
  /\ cpc = "return" =>
       \E k \in DOMAIN log : /\ End(log[k]) <= commitPos /\ AtMessage(log[k])
                             /\ IsWanted(log[k].msg.type)
                             /\ payload = Payload(log[k].start, log[k].msg)

ReadsOK == ReaderOK /\ RingHolds /\ HeaderOK /\ DeliversExactly

CInv == LogOK /\ SendersOK /\ CommitOK /\ (~wrapped => ReadsOK)

(* Remainders are unique. *)
LEMMA RemainderUnique ==
  ASSUME NEW B \in Nat \ {0}, NEW a \in Int, NEW b \in Int,
         NEW x \in 0 .. B - 1, NEW y \in 0 .. B - 1, B * a + x = B * b + y
  PROVE  x = y
<1>1. PICK d \in Int : d = a - b
  OBVIOUS
<1>2. B * a = B * b + B * d
  BY <1>1
<1>3. PICK m \in Int : m = B * d
  OBVIOUS
<1>4. B * a \in Int /\ B * b \in Int
  OBVIOUS
<1>5. m = y - x
  BY <1>2, <1>3, <1>4
<1>6. CASE d = 0
  BY <1>3, <1>5, <1>6
<1>7. CASE d >= 1
  <2>1. B * d >= B
    BY <1>7
  <2> QED
    BY <1>3, <1>5, <2>1
<1>8. CASE d <= -1
  <2>1. B * d <= -B
    BY <1>8
  <2> QED
    BY <1>3, <1>5, <2>1
<1> QED
  BY <1>6, <1>7, <1>8

(* Up to the end of the ring, cells follow one another as positions do. *)
LEMMA OffsetRun ==
  ASSUME NEW pos \in Nat, NEW i \in Nat, Offset(pos) + i < BufferSize
  PROVE  Offset(pos + i) = Offset(pos) + i
<1> DEFINE a == pos \div BufferSize
           b == (pos + i) \div BufferSize
<1>1. /\ a \in Int /\ pos = BufferSize * a + Offset(pos) /\ Offset(pos) \in 0 .. BufferSize - 1
  BY SizesAssumption DEF Offset
<1>2. /\ b \in Int /\ pos + i = BufferSize * b + Offset(pos + i)
      /\ Offset(pos + i) \in 0 .. BufferSize - 1
  BY SizesAssumption DEF Offset
<1> HIDE DEF a, b
<1>3. Offset(pos) + i \in 0 .. BufferSize - 1
  BY <1>1, SizesAssumption
<1>4. BufferSize * a \in Int /\ BufferSize * b \in Int
  BY <1>1, <1>2, SizesAssumption
<1>5. BufferSize * a + (Offset(pos) + i) = BufferSize * b + Offset(pos + i)
  BY <1>1, <1>2, <1>4
<1> QED
  BY <1>1, <1>2, <1>3, <1>5, RemainderUnique, SizesAssumption

(* Behind the tail the ring begins again. *)
LEMMA OffsetWraps ==
  ASSUME NEW pos \in Nat
  PROVE  Offset(pos + TailSpace(pos)) = 0
<1> DEFINE a == pos \div BufferSize
           p == pos + TailSpace(pos)
           b == p \div BufferSize
<1>1. /\ a \in Int /\ pos = BufferSize * a + Offset(pos) /\ Offset(pos) \in 0 .. BufferSize - 1
  BY SizesAssumption DEF Offset
<1>2. p \in Nat
  BY OffsetType
<1>3. b \in Int /\ p = BufferSize * b + Offset(p) /\ Offset(p) \in 0 .. BufferSize - 1
  BY <1>2, SizesAssumption DEF Offset
<1>4. p = pos + (BufferSize - Offset(pos))
  BY DEF TailSpace
<1> HIDE DEF a, b, p
<1>5. BufferSize * (a + 1) = BufferSize * a + BufferSize /\ a + 1 \in Int
  BY <1>1, SizesAssumption
<1>6. BufferSize * a \in Int /\ BufferSize * b \in Int
  BY <1>1, <1>3, SizesAssumption
<1>7. BufferSize * (a + 1) + 0 = BufferSize * b + Offset(p)
  BY <1>1, <1>3, <1>4, <1>5, <1>6, SizesAssumption
<1>8. 0 \in 0 .. BufferSize - 1
  BY SizesAssumption
<1>9. Offset(p) = 0
  BY <1>3, <1>5, <1>7, <1>8, RemainderUnique, SizesAssumption
<1> QED
  BY <1>9 DEF p

(* A message and the padding before it each lie in one piece in the ring. *)
LEMMA InOnePiece ==
  ASSUME BufferSize % Alignment = 0, NEW s \in Nat, s % 2 = 0,
         NEW m, m.len \in Nat, MessageSize(m) <= BufferSize
  PROVE  /\ PaddingSize(s, m) \in Nat /\ PaddingSize(s, m) % 2 = 0
         /\ PaddingSize(s, m) > 0 => PaddingSize(s, m) >= 2
         /\ PaddingSize(s, m) <= TailSpace(s) /\ Offset(s) + PaddingSize(s, m) <= BufferSize
         /\ Offset(s + PaddingSize(s, m)) + MessageSize(m) <= BufferSize
<1>1. /\ Offset(s) \in 0 .. BufferSize - 1 /\ TailSpace(s) \in Nat
      /\ TailSpace(s) = BufferSize - Offset(s)
      /\ TailSpace(s) % 2 = 0 /\ TailSpace(s) >= 2
      /\ MessageSize(m) \in Nat
  BY OffsetType, EvenOffset, SizeType DEF Alignment, HeaderSize, TailSpace
<1>2. CASE TailSpace(s) < MessageSize(m)
  <2>1. PaddingSize(s, m) = TailSpace(s)
    BY <1>2 DEF PaddingSize
  <2>2. Offset(s + TailSpace(s)) = 0
    BY OffsetWraps
  <2> QED
    BY <1>1, <2>1, <2>2, SizesAssumption
<1>3. CASE ~(TailSpace(s) < MessageSize(m))
  <2>1. PaddingSize(s, m) = 0 /\ s + 0 = s
    BY <1>3 DEF PaddingSize
  <2> QED
    BY <1>1, <1>3, <2>1, SizesAssumption
<1> QED
  BY <1>2, <1>3

(* A record that was just copied is there. *)
LEMMA PutIsThere ==
  ASSUME buffer \in [0 .. BufferSize - 1 -> Cells], NEW pos \in Nat, NEW n \in Nat,
         NEW t, NEW ps, Offset(pos) + n <= BufferSize, Put(Offset(pos), Record(t, ps, n))
  PROVE  HasRecord(pos, t, ps, n)'
<1> SUFFICES ASSUME NEW i \in 0 .. n - 1
             PROVE  buffer'[Offset(pos) + i] = Record(t, ps, n)[i]
  BY DEF HasRecord, Offset, Record
<1>1. Offset(pos) \in 0 .. BufferSize - 1 /\ BufferSize \in Nat
  BY OffsetType, SizesAssumption
<1>2. Offset(pos) + i \in 0 .. BufferSize - 1 /\ (Offset(pos) + i) - Offset(pos) = i
  BY <1>1
<1>3. DOMAIN Record(t, ps, n) = 0 .. n - 1 /\ DOMAIN buffer = 0 .. BufferSize - 1
  BY DEF Record
<1> DEFINE r == Record(t, ps, n)
           o == Offset(pos)
<1>4. buffer' = [c \in DOMAIN buffer |-> IF c - o \in DOMAIN r THEN r[c - o] ELSE buffer[c]]
  BY DEF Put
<1> HIDE DEF r, o
<1>5. buffer'[o + i] = r[i]
  BY <1>2, <1>3, <1>4 DEF r, o
<1> QED
  BY <1>5 DEF r, o

(* Copying a record leaves the others alone that are unread or being filled: they
   are less than a turn of the ring away. *)
LEMMA PutElsewhere ==
  ASSUME buffer \in [0 .. BufferSize - 1 -> Cells], NEW pos \in Nat, NEW n \in Nat,
         NEW t, NEW ps, Offset(pos) + n <= BufferSize, Put(Offset(pos), Record(t, ps, n)),
         NEW at \in Nat, NEW k \in Nat, Offset(at) + k <= BufferSize, NEW u, NEW qs,
         HasRecord(at, u, qs, k),
         NEW low \in Nat, low <= pos, low <= at,
         pos + n <= low + BufferSize, at + k <= low + BufferSize,
         pos + n <= at \/ at + k <= pos
  PROVE  HasRecord(at, u, qs, k)'
<1> SUFFICES ASSUME NEW i \in 0 .. k - 1
             PROVE  buffer'[Offset(at) + i] = buffer[Offset(at) + i]
  BY DEF HasRecord, Offset, Record
<1>1. /\ Offset(pos) \in 0 .. BufferSize - 1 /\ Offset(at) \in 0 .. BufferSize - 1
      /\ BufferSize \in Nat
  BY OffsetType, SizesAssumption
<1>2. Offset(at) + i \in 0 .. BufferSize - 1
  BY <1>1
<1>3. DOMAIN Record(t, ps, n) = 0 .. n - 1 /\ DOMAIN buffer = 0 .. BufferSize - 1
  BY DEF Record
<1>4. (Offset(at) + i) - Offset(pos) \notin 0 .. n - 1
  <2> SUFFICES ASSUME NEW j \in 0 .. n - 1, Offset(at) + i = Offset(pos) + j
               PROVE  FALSE
    BY <1>1
  <2>1. Offset(at + i) = Offset(at) + i
    BY <1>1, <1>2, OffsetRun
  <2>2. Offset(pos + j) = Offset(pos) + j
    BY <1>1, OffsetRun
  <2>3. at + i \in Nat /\ pos + j \in Nat
    OBVIOUS
  <2>4. \/ at + i < pos + j /\ (pos + j) - (at + i) < BufferSize
        \/ pos + j < at + i /\ (at + i) - (pos + j) < BufferSize
    BY <1>1
  <2> QED
    BY <2>1, <2>2, <2>3, <2>4, OffsetInjective
<1> DEFINE r == Record(t, ps, n)
           o == Offset(pos)
           a == Offset(at)
<1>5. buffer' = [c \in DOMAIN buffer |-> IF c - o \in DOMAIN r THEN r[c - o] ELSE buffer[c]]
  BY DEF Put
<1> HIDE DEF r, o, a
<1>6. buffer'[a + i] = buffer[a + i]
  BY <1>2, <1>3, <1>4, <1>5 DEF r, o, a
<1> QED
  BY <1>6 DEF a

-----------------------------------------------------------------------------
(* Reservations *)

(* What LogOK says of every reservation. *)
Sound(e) ==
  /\ e.start \in Nat /\ e.start % 2 = 0
  /\ e.msg \in Messages /\ MessageSize(e.msg) <= BufferSize

(* The parts of a reservation, in numbers. *)
LEMMA Parts ==
  ASSUME BufferSize % Alignment = 0, NEW e, Sound(e)
  PROVE  /\ e.msg.len \in Nat /\ e.msg.type \in {Text, Number, Stop}
         /\ MessageSize(e.msg) \in Nat /\ MessageSize(e.msg) >= 2
         /\ PaddingSize(e.start, e.msg) \in Nat /\ PaddingSize(e.start, e.msg) % 2 = 0
         /\ PaddingSize(e.start, e.msg) > 0 => PaddingSize(e.start, e.msg) >= 2
         /\ MsgPos(e) \in Nat /\ MsgPos(e) = e.start + PaddingSize(e.start, e.msg)
         /\ End(e) \in Nat /\ End(e) = MsgPos(e) + MessageSize(e.msg)
         /\ End(e) % 2 = 0
         /\ e.start <= MsgPos(e) /\ MsgPos(e) < End(e) /\ e.start < End(e)
         /\ Offset(e.start) + PaddingSize(e.start, e.msg) <= BufferSize
         /\ Offset(MsgPos(e)) + MessageSize(e.msg) <= BufferSize
<1>1. /\ e.start \in Nat /\ e.start % 2 = 0 /\ MessageSize(e.msg) <= BufferSize
      /\ e.msg.len \in Nat /\ e.msg.type \in {Text, Number, Stop}
  BY MessagesAssumption DEF Sound
<1>2. MessageSize(e.msg) \in Nat /\ MessageSize(e.msg) % 2 = 0 /\ MessageSize(e.msg) >= 2
  BY <1>1, SizeType
<1>3. /\ PaddingSize(e.start, e.msg) \in Nat /\ PaddingSize(e.start, e.msg) % 2 = 0
      /\ PaddingSize(e.start, e.msg) > 0 => PaddingSize(e.start, e.msg) >= 2
      /\ Offset(e.start) + PaddingSize(e.start, e.msg) <= BufferSize
      /\ Offset(e.start + PaddingSize(e.start, e.msg)) + MessageSize(e.msg) <= BufferSize
  BY <1>1, InOnePiece
<1>4. MsgPos(e) \in Nat /\ MsgPos(e) = e.start + PaddingSize(e.start, e.msg)
  BY <1>1, <1>3 DEF MsgPos
<1>5. End(e) = e.start + (PaddingSize(e.start, e.msg) + MessageSize(e.msg))
  BY DEF End, Required
<1>6. End(e) \in Nat /\ End(e) = MsgPos(e) + MessageSize(e.msg)
  BY <1>1, <1>2, <1>3, <1>4, <1>5
<1>7. End(e) % 2 = 0
  BY <1>1, <1>2, <1>3, <1>5
<1>8. e.start <= MsgPos(e) /\ MsgPos(e) < End(e) /\ e.start < End(e)
  BY <1>1, <1>2, <1>3, <1>4, <1>6
<1>9. Offset(MsgPos(e)) + MessageSize(e.msg) <= BufferSize
  BY <1>3, <1>4
<1> QED
  BY <1>1, <1>2, <1>3, <1>4, <1>6, <1>7, <1>8, <1>9

(* The reservations of the log. *)
LEMMA LogEntries ==
  ASSUME TypeOK, LogOK
  PROVE  /\ Len(log) \in Nat /\ DOMAIN log = 1 .. Len(log)
         /\ \A k \in DOMAIN log : Sound(log[k]) /\ End(log[k]) <= reservePos /\ k \in Nat
<1>1. Len(log) \in Nat /\ DOMAIN log = 1 .. Len(log)
  BY LenProperties DEF TypeOK
<1>2. \A k \in DOMAIN log : log[k].start \in Nat
  <2>1. \A k \in 1 .. Len(log) :
          log[k] \in [start : Nat, msg : [type : Padding .. All, len : Nat]]
    BY ElementOfSeq DEF TypeOK
  <2> QED
    BY <1>1, <2>1
<1> QED
  BY <1>1, <1>2 DEF LogOK, Sound

(* Two reservations are one behind the other. *)
LEMMA OneBehindTheOther ==
  ASSUME BufferSize % Alignment = 0, TypeOK, LogOK, NEW j \in DOMAIN log, NEW k \in DOMAIN log
  PROVE  \/ j = k
         \/ j < k /\ End(log[j]) <= log[k].start
         \/ k < j /\ End(log[k]) <= log[j].start
<1>1. j \in Nat /\ k \in Nat
  BY LogEntries
<1> QED
  BY <1>1 DEF LogOK

(* So a reservation is known by where it begins. *)
LEMMA KnownByStart ==
  ASSUME BufferSize % Alignment = 0, TypeOK, LogOK,
         NEW j \in DOMAIN log, NEW k \in DOMAIN log, log[j].start = log[k].start
  PROVE  j = k
<1>1. /\ log[j].start \in Nat /\ log[k].start \in Nat
      /\ End(log[j]) \in Nat /\ log[j].start < End(log[j])
      /\ End(log[k]) \in Nat /\ log[k].start < End(log[k])
  BY LogEntries, Parts DEF Sound
<1> QED
  BY <1>1, OneBehindTheOther

(* What a producer holds is one of the reservations. *)
LEMMA HeldInLog ==
  ASSUME BufferSize % Alignment = 0, TypeOK, LogOK, SendersOK, NEW p \in Producers, Holds(p)
  PROVE  \E k \in DOMAIN log : /\ log[k].start = rs[p] /\ log[k].msg = msg[p]
                               /\ End(log[k]) = EndOf(p) /\ MsgPos(log[k]) = MessagePos(p)
BY DEF SendersOK, End, EndOf, MsgPos, MessagePos

(* What is not published yet is not filled in on account of commitPos. *)
LEMMA FilledByHolder ==
  ASSUME BufferSize % Alignment = 0, IInv, LogOK, SendersOK, NEW p \in Producers, Holds(p),
         NEW k \in DOMAIN log, log[k].start = rs[p]
  PROVE  \A L \in SUBSET {"padding", "message", "publish"} : Filled(log[k], L) <=> pc[p] \in L
<1>1. commitPos <= rs[p] /\ commitPos \in Nat /\ rs[p] \in Nat
  BY Numbers DEF IInv, ReservationsInside
<1>2. Sound(log[k]) /\ End(log[k]) \in Nat /\ log[k].start < End(log[k])
  BY LogEntries, Parts DEF IInv
<1>3. ~(End(log[k]) <= commitPos)
  BY <1>1, <1>2
<1>4. ASSUME NEW q \in Producers, Holds(q), rs[q] = rs[p] PROVE q = p
  <2>1. /\ rs[p] < EndOf(p) /\ rs[q] < EndOf(q) /\ EndOf(p) \in Nat /\ EndOf(q) \in Nat
        /\ rs[q] \in Nat
    BY <1>1, Numbers DEF IInv
  <2>2. p # q => EndOf(p) <= rs[q] \/ EndOf(q) <= rs[p]
    BY <1>4 DEF IInv, ReservationsApart
  <2> QED
    BY <1>1, <1>4, <2>1, <2>2
<1> QED
  BY <1>3, <1>4 DEF Filled, Holds

-----------------------------------------------------------------------------
(* Steps and contents *)

(* The reservations and the consumer's view of them do not change with the rest. *)
LEMMA ContentsKept ==
  ASSUME UNCHANGED <<reservePos, readPos, cpc, cm, hdr, payload, log, delivered>>
  PROVE  /\ LogOK => LogOK'
         /\ ReaderOK => ReaderOK'
         /\ DeliversExactly => DeliversExactly'
         /\ UNCHANGED commitPos => (CommitOK => CommitOK') /\ (HeaderOK => HeaderOK')
<1>1. \A e : End(e)' = End(e) /\ MsgPos(e)' = MsgPos(e) /\ Content(e)' = Content(e)
  BY DEF End, MsgPos, Content
<1>2. LogOK => LogOK'
  BY <1>1 DEF LogOK
<1>3. ReaderOK => ReaderOK'
  BY <1>1 DEF ReaderOK
<1>4. Due' = Due
  BY <1>1 DEF Due
<1>5. DeliversExactly => DeliversExactly'
  BY <1>1, <1>4 DEF DeliversExactly, Rank
<1>6. UNCHANGED commitPos => (CommitOK => CommitOK') /\ (HeaderOK => HeaderOK')
  BY <1>1 DEF CommitOK, HeaderOK, AtPadding, AtMessage
<1> QED
  BY <1>2, <1>3, <1>5, <1>6

(* A record stays where it is as long as nobody writes. *)
LEMMA RingKept ==
  ASSUME RingHolds, UNCHANGED <<log, buffer, readPos>>,
         \A k \in DOMAIN log :
           \A L \in {{"message", "publish"}, {"publish"}} : Filled(log[k], L)' => Filled(log[k], L)
  PROVE  RingHolds'
<1>1. \A e : MsgPos(e)' = MsgPos(e)
  BY DEF MsgPos
<1>2. \A e : (HasPadding(e)' <=> HasPadding(e)) /\ (HasMessage(e)' <=> HasMessage(e))
  BY DEF HasPadding, HasMessage, HasRecord, MsgPos
<1> QED
  BY <1>1, <1>2 DEF RingHolds

(* Steps of a producer outside its reserved range. *)
LEMMA QuietCInv ==
  ASSUME IInv, CInv, NEW p \in Producers,
         StartSend(p) \/ LoadReadPos(p) \/ LoadReservePos(p) \/ CasReserveFails(p) \/ Crash(p)
  PROVE  CInv'
<1>t. TypeOK
  BY DEF IInv
<1>1. UNCHANGED <<reservePos, commitPos, readPos, buffer, cpc, cm, hdr, payload, log, delivered,
                  wrapped>>
  BY DEF StartSend, LoadReadPos, LoadReservePos, CasReserveFails, Crash, positions,
         consumerVars, history
<1>2. \A q \in Producers \ {p} :
        /\ pc'[q] = pc[q] /\ rs'[q] = rs[q] /\ msg'[q] = msg[q] /\ Holds(q)' = Holds(q)
  BY <1>t, OthersUnchanged DEF Work
<1>3. /\ pc'[p] \in {"readPos", "reservePos", "cas", "idle", "dead", "lost"}
      /\ pc'[p] \notin {"idle", "dead", "lost"} =>
           msg'[p] \in Messages /\ MessageSize(msg'[p]) <= BufferSize
  <2>1. CASE StartSend(p)
    BY <1>t, <2>1 DEF StartSend, Goto, TypeOK
  <2>2. CASE LoadReadPos(p)
    BY <1>t, <2>2 DEF LoadReadPos, Goto, TypeOK, CInv, SendersOK
  <2>3. CASE LoadReservePos(p)
    BY <1>t, <2>3 DEF LoadReservePos, Return, Retry, Goto, TypeOK, CInv, SendersOK
  <2>4. CASE CasReserveFails(p)
    BY <1>t, <2>4 DEF CasReserveFails, Retry, Goto, TypeOK, CInv, SendersOK
  <2>5. CASE Crash(p)
    BY <1>t, <2>5 DEF Crash, Goto, TypeOK
  <2> QED
    BY <2>1, <2>2, <2>3, <2>4, <2>5
<1>4. LogOK' /\ CommitOK'
  BY <1>1, ContentsKept DEF CInv
<1>5. SendersOK'
  <2>1. ~Holds(p)'
    BY <1>3 DEF Holds
  <2> QED
    BY <1>1, <1>2, <1>3, <2>1 DEF CInv, SendersOK
<1>6. ASSUME ~wrapped' PROVE ReadsOK'
  <2>1. ReadsOK
    BY <1>1, <1>6 DEF CInv
  <2>2. \A k \in DOMAIN log :
          \A L \in {{"message", "publish"}, {"publish"}} : Filled(log[k], L)' => Filled(log[k], L)
    BY <1>1, <1>2, <1>3 DEF Filled, End
  <2>3. RingHolds'
    BY <1>1, <2>1, <2>2, RingKept DEF ReadsOK
  <2> QED
    BY <1>1, <2>1, <2>3, ContentsKept DEF ReadsOK
<1> QED
  BY <1>4, <1>5, <1>6 DEF CInv

(* A new reservation continues the log.  Nothing of it is filled in yet, and nothing
   of it has been read. *)
LEMMA CasReserveCInv ==
  ASSUME BufferSize % Alignment = 0, IInv, IInv', CInv, NEW p \in Producers, CasReserve(p)
  PROVE  CInv'
<1> DEFINE n == Len(log)
           new == [start |-> rs[p], msg |-> msg[p]]
<1>t. TypeOK /\ TypeOK' /\ LogOK /\ SendersOK /\ CommitOK
  BY DEF IInv, CInv
<1>1. /\ pc[p] = "cas" /\ reservePos = rs[p]
      /\ UNCHANGED <<commitPos, readPos, buffer, cpc, cm, hdr, payload, delivered>>
      /\ rs'[p] = rs[p] /\ msg'[p] = msg[p] /\ log' = Append(log, new)
      /\ pc'[p] = IF PaddingSize(rs[p], msg[p]) >= HeaderSize THEN "padding" ELSE "message"
  BY <1>t DEF CasReserve, Goto, TypeOK, consumerVars
<1>2. reservePos' = End(new)
  BY <1>1 DEF CasReserve, End
<1>3. \A q \in Producers \ {p} :
        /\ pc'[q] = pc[q] /\ rs'[q] = rs[q] /\ msg'[q] = msg[q] /\ Holds(q)' = Holds(q)
  BY <1>t, OthersUnchanged DEF Work
<1>4. Sound(new) /\ new.start = reservePos /\ new.msg = msg[p]
  <2>1. msg[p] \in Messages /\ MessageSize(msg[p]) <= BufferSize
    BY <1>1, <1>t DEF SendersOK
  <2>2. reservePos \in Nat /\ reservePos % 2 = 0
    BY <1>t, Numbers DEF LogOK
  <2> QED
    BY <1>1, <2>1, <2>2 DEF Sound
<1>5. /\ End(new) \in Nat /\ End(new) % 2 = 0 /\ new.start < End(new)
      /\ PaddingSize(new.start, new.msg) \in Nat
      /\ PaddingSize(new.start, new.msg) > 0 => PaddingSize(new.start, new.msg) >= 2
      /\ MsgPos(new) \in Nat
  BY <1>4, Parts
<1>6. /\ n \in Nat /\ DOMAIN log = 1 .. n
      /\ \A k \in DOMAIN log : Sound(log[k]) /\ End(log[k]) <= reservePos /\ k \in Nat
  BY <1>t, LogEntries
<1>7. /\ Len(log') = n + 1 /\ DOMAIN log' = 1 .. n + 1
      /\ \A k \in DOMAIN log : log'[k] = log[k]
      /\ log'[n + 1] = new
  <2>1. new \in [start : Nat, msg : [type : Padding .. All, len : Nat]]
    BY <1>t DEF TypeOK
  <2> HIDE DEF new
  <2>2. /\ Append(log, new) \in Seq([start : Nat, msg : [type : Padding .. All, len : Nat]])
        /\ Len(Append(log, new)) = n + 1
        /\ \A k \in 1 .. n : Append(log, new)[k] = log[k]
        /\ Append(log, new)[n + 1] = new
    BY <1>t, <2>1, AppendProperties DEF TypeOK
  <2> QED
    BY <1>1, <1>6, <2>2, LenProperties
<1>8. DOMAIN log' = DOMAIN log \cup {n + 1} /\ n + 1 \notin DOMAIN log
  BY <1>6, <1>7
<1>9. \A e : End(e)' = End(e) /\ MsgPos(e)' = MsgPos(e) /\ Content(e)' = Content(e)
  BY DEF End, MsgPos, Content
<1>10. /\ reservePos \in Nat /\ reservePos < End(new)
       /\ \A k \in DOMAIN log : /\ log[k].start \in Nat /\ End(log[k]) \in Nat
                                /\ log[k].start < End(log[k]) /\ log[k].start < reservePos
                                /\ End(log[k]) <= End(new)
  <2>1. reservePos \in Nat
    BY <1>t, Numbers
  <2>2. ASSUME NEW k \in DOMAIN log
        PROVE  log[k].start \in Nat /\ End(log[k]) \in Nat /\ log[k].start < End(log[k])
    BY <1>6, Parts DEF Sound
  <2> HIDE DEF new
  <2> QED
    BY <1>4, <1>5, <1>6, <2>1, <2>2
<1> HIDE DEF new, n
<1>11. LogOK'
  <2>1. ASSUME NEW k \in DOMAIN log'
        PROVE  /\ log'[k].msg \in Messages /\ MessageSize(log'[k].msg) <= BufferSize
               /\ log'[k].start % 2 = 0 /\ End(log'[k]) <= reservePos'
               /\ End(log'[k]) = IF k < Len(log') THEN log'[k + 1].start ELSE reservePos'
    <3>1. CASE k = n + 1
      <4>1. ~(k < Len(log')) /\ End(new) <= End(new)
        BY <1>5, <1>6, <1>7, <3>1
      <4> QED
        BY <1>2, <1>4, <1>7, <3>1, <4>1 DEF Sound
    <3>2. CASE k \in DOMAIN log
      <4>1. log'[k] = log[k] /\ Sound(log[k]) /\ End(log[k]) <= End(new)
        BY <1>6, <1>7, <1>10, <3>2
      <4>2. k < Len(log')
        BY <1>6, <1>7, <3>2
      <4>3. CASE k < n
        <5>1. k + 1 \in DOMAIN log
          BY <1>6, <3>2, <4>3
        <5>2. End(log[k]) = log[k + 1].start
          BY <1>t, <3>2, <4>3 DEF LogOK, n
        <5> QED
          BY <1>2, <1>7, <4>1, <4>2, <5>1, <5>2 DEF Sound
      <4>4. CASE k = n
        <5>1. End(log[k]) = reservePos
          BY <1>6, <1>t, <3>2, <4>4 DEF LogOK, n
        <5> QED
          BY <1>2, <1>4, <1>7, <4>1, <4>2, <4>4, <5>1 DEF Sound
      <4> QED
        BY <1>6, <3>2, <4>3, <4>4
    <3> QED
      BY <1>8, <3>1, <3>2
  <2>2. ASSUME NEW j \in DOMAIN log', NEW k \in DOMAIN log', j < k
        PROVE  End(log'[j]) <= log'[k].start
    <3>1. j \in DOMAIN log
      BY <1>6, <1>7, <2>2
    <3>2. CASE k = n + 1
      BY <1>4, <1>6, <1>7, <3>1, <3>2
    <3>3. CASE k \in DOMAIN log
      BY <1>7, <1>t, <2>2, <3>1, <3>3 DEF LogOK
    <3> QED
      BY <1>8, <3>2, <3>3
  <2>3. reservePos' % 2 = 0
    BY <1>2, <1>5
  <2> QED
    BY <1>9, <2>1, <2>2, <2>3 DEF LogOK
<1>12. SendersOK'
  <2>1. ASSUME NEW q \in Producers \ {p}
        PROVE  /\ pc'[q] \notin {"idle", "dead", "lost"} =>
                    msg'[q] \in Messages /\ MessageSize(msg'[q]) <= BufferSize
               /\ Holds(q)' => \E k \in DOMAIN log' : log'[k].start = rs'[q] /\ log'[k].msg = msg'[q]
    BY <1>3, <1>7, <1>8, <1>t DEF SendersOK
  <2>2. msg'[p] \in Messages /\ MessageSize(msg'[p]) <= BufferSize
    BY <1>1, <1>4 DEF Sound
  <2>3. n + 1 \in DOMAIN log' /\ log'[n + 1].start = rs'[p] /\ log'[n + 1].msg = msg'[p]
    BY <1>1, <1>4, <1>7, <1>8
  <2> QED
    BY <2>1, <2>2, <2>3 DEF SendersOK
<1>13. CommitOK'
  <2>1. CASE commitPos = reservePos
    BY <1>1, <1>4, <1>7, <1>8, <2>1 DEF CommitOK
  <2>2. CASE commitPos # reservePos
    BY <1>1, <1>7, <1>8, <1>t, <2>2 DEF CommitOK
  <2> QED
    BY <2>1, <2>2
<1>14. ASSUME ~wrapped' PROVE ReadsOK'
  <2>1. ReadsOK
    <3>1. ~wrapped
      BY <1>14 DEF CasReserve
    <3> QED
      BY <3>1 DEF CInv
  <2>2. ReaderOK'
    <3>1. CASE readPos = reservePos
      BY <1>1, <1>4, <1>7, <1>8, <2>1, <3>1 DEF ReaderOK, ReadsOK
    <3>2. CASE readPos # reservePos
      BY <1>1, <1>7, <1>8, <1>9, <2>1, <3>2 DEF ReaderOK, ReadsOK
    <3> QED
      BY <3>1, <3>2
  <2>3. readPos \in Nat /\ commitPos \in Nat /\ readPos <= reservePos /\ commitPos <= reservePos
    BY <1>t, Numbers DEF IInv, ReaderBehind, ReservationsInside
  <2>4. ASSUME NEW k \in DOMAIN log, NEW L \in {{"message", "publish"}, {"publish"}}, Filled(log[k], L)'
        PROVE  Filled(log[k], L)
    <3>1. log'[k] = log[k] /\ rs'[p] # log[k].start
      BY <1>1, <1>7, <1>10
    <3>2. End(log[k]) <= commitPos \/ \E q \in Producers : pc'[q] \in L /\ rs'[q] = log[k].start
      BY <1>1, <1>9, <2>4, <3>1 DEF Filled
    <3> QED
      BY <1>3, <3>1, <3>2 DEF Filled
  <2>5. ~Filled(new, {"publish"})'
    <3>1. ~(End(new) <= commitPos)
      BY <1>5, <1>10, <2>3
    <3>2. pc'[p] # "publish"
      BY <1>1
    <3>3. ASSUME NEW q \in Producers, pc[q] = "publish" PROVE rs[q] # reservePos
      <4>1. EndOf(q) <= reservePos /\ rs[q] < EndOf(q) /\ rs[q] \in Nat /\ EndOf(q) \in Nat
        BY <1>t, <3>3, Numbers DEF IInv, ReservationsInside, Holds
      <4> QED
        BY <1>10, <4>1
    <3>4. ~\E q \in Producers : pc'[q] \in {"publish"} /\ rs'[q] = reservePos
      BY <1>3, <3>2, <3>3
    <3>5. \A e : e = new => ~Filled(e, {"publish"})'
      BY <1>1, <1>4, <1>9, <3>1, <3>4 DEF Filled
    <3>6. new' = new
      BY <1>1 DEF new
    <3> QED
      BY <3>5, <3>6
  <2>6. PaddingSize(new.start, new.msg) > 0 => ~Filled(new, {"message", "publish"})'
    <3> SUFFICES ASSUME PaddingSize(new.start, new.msg) > 0
                 PROVE  ~Filled(new, {"message", "publish"})'
      OBVIOUS
    <3>1. ~(End(new) <= commitPos)
      BY <1>5, <1>10, <2>3
    <3>2. pc'[p] = "padding"
      BY <1>1, <1>4, <1>5 DEF HeaderSize
    <3>3. ASSUME NEW q \in Producers, pc[q] \in {"message", "publish"} PROVE rs[q] # reservePos
      <4>1. EndOf(q) <= reservePos /\ rs[q] < EndOf(q) /\ rs[q] \in Nat /\ EndOf(q) \in Nat
        BY <1>t, <3>3, Numbers DEF IInv, ReservationsInside, Holds
      <4> QED
        BY <1>10, <4>1
    <3>4. ~\E q \in Producers : pc'[q] \in {"message", "publish"} /\ rs'[q] = reservePos
      BY <1>3, <3>2, <3>3
    <3>5. \A e : e = new => ~Filled(e, {"message", "publish"})'
      BY <1>1, <1>4, <1>9, <3>1, <3>4 DEF Filled
    <3>6. new' = new
      BY <1>1 DEF new
    <3> QED
      BY <3>5, <3>6
  <2>7. RingHolds'
    <3>1. \A e : (HasPadding(e)' <=> HasPadding(e)) /\ (HasMessage(e)' <=> HasMessage(e))
      BY <1>1 DEF HasPadding, HasMessage, HasRecord, MsgPos
    <3> SUFFICES ASSUME NEW k \in DOMAIN log'
                 PROVE  /\ PaddingSize(log'[k].start, log'[k].msg) > 0 /\ readPos' <= log'[k].start
                             /\ Filled(log[k], {"message", "publish"})' => HasPadding(log[k])'
                        /\ readPos' <= MsgPos(log[k])' /\ Filled(log[k], {"publish"})'
                             => HasMessage(log[k])'
      BY DEF RingHolds
    <3>2. CASE k \in DOMAIN log
      <4>1. log'[k] = log[k]
        BY <1>7, <3>2
      <4>2. /\ HasPadding(log[k])' <=> HasPadding(log[k])
            /\ HasMessage(log[k])' <=> HasMessage(log[k])
            /\ MsgPos(log[k])' = MsgPos(log[k])
        BY <4>1, <1>1 DEF HasPadding, HasMessage, HasRecord, MsgPos
      <4>3. /\ Filled(log[k], {"message", "publish"})' => Filled(log[k], {"message", "publish"})
            /\ Filled(log[k], {"publish"})' => Filled(log[k], {"publish"})
        BY <2>4, <3>2
      <4> QED
        BY <1>1, <2>1, <3>2, <4>1, <4>2, <4>3 DEF ReadsOK, RingHolds
    <3>3. CASE k = n + 1
      <4>1. log'[k] = new /\ new' = new
        BY <1>1, <1>7, <3>3 DEF new
      <4> QED
        BY <2>5, <2>6, <4>1 DEF Filled
    <3> QED
      BY <1>8, <3>2, <3>3
  <2>8. HeaderOK'
    BY <1>1, <1>7, <1>8, <1>9, <2>1 DEF ReadsOK, HeaderOK, AtPadding, AtMessage
  <2>9. DeliversExactly'
    <3>1. ~(End(new) <= readPos)
      BY <1>5, <1>10, <2>3
    <3>2. Due' = Due
      BY <1>1, <1>7, <1>8, <1>9, <3>1 DEF Due
    <3>3. \A i \in Due : Content(log'[i]) = Content(log[i])
      BY <1>7 DEF Due
    <3> QED
      BY <1>1, <1>9, <2>1, <3>2, <3>3 DEF ReadsOK, DeliversExactly, Rank
  <2> QED
    BY <2>2, <2>7, <2>8, <2>9 DEF ReadsOK
<1> QED
  BY <1>11, <1>12, <1>13, <1>14 DEF CInv

(* A record written inside reservation k, before it is published, damages none of
   the unread records: not those of other reservations, and not k's own padding
   when the message is written behind it. *)
LEMMA WriteKeeps ==
  ASSUME BufferSize % Alignment = 0, IInv, LogOK, ~wrapped,
         NEW k \in DOMAIN log, readPos <= log[k].start,
         NEW pos \in Nat, NEW n \in Nat, NEW t, NEW ps,
         log[k].start <= pos, pos + n <= End(log[k]), Offset(pos) + n <= BufferSize,
         Put(Offset(pos), Record(t, ps, n)),
         NEW j \in DOMAIN log, NEW e, e = log[j]
  PROVE  /\ (j # k \/ MsgPos(e) <= pos) /\ readPos <= e.start /\ HasPadding(e) => HasPadding(e)'
         /\ j # k /\ readPos <= MsgPos(e) /\ HasMessage(e) => HasMessage(e)'
<1>t. TypeOK /\ buffer \in [0 .. BufferSize - 1 -> Cells] /\ BufferSize \in Nat
  BY SizesAssumption DEF IInv, TypeOK
<1>n. readPos \in Nat /\ reservePos \in Nat /\ reservePos <= readPos + BufferSize
  BY <1>t, Numbers DEF IInv, NoOverrun
<1>k. /\ log[k].start \in Nat /\ End(log[k]) \in Nat /\ End(log[k]) <= reservePos
  BY <1>t, LogEntries, Parts DEF Sound
<1>e. /\ Sound(e) /\ End(e) <= reservePos
  BY <1>t, LogEntries
<1>p. /\ e.start \in Nat /\ MessageSize(e.msg) \in Nat /\ PaddingSize(e.start, e.msg) \in Nat
      /\ MsgPos(e) \in Nat /\ MsgPos(e) = e.start + PaddingSize(e.start, e.msg)
      /\ End(e) \in Nat /\ End(e) = MsgPos(e) + MessageSize(e.msg)
      /\ Offset(e.start) + PaddingSize(e.start, e.msg) <= BufferSize
      /\ Offset(MsgPos(e)) + MessageSize(e.msg) <= BufferSize
  BY <1>e, Parts DEF Sound
<1>a. j # k => End(e) <= log[k].start \/ End(log[k]) <= e.start
  BY <1>t, OneBehindTheOther
<1>l. readPos <= pos /\ pos + n <= readPos + BufferSize
  BY <1>t, <1>n, <1>k
<1>1. ASSUME j # k \/ MsgPos(e) <= pos, readPos <= e.start, HasPadding(e)
      PROVE  HasPadding(e)'
  <2> DEFINE c == PaddingSize(e.start, e.msg)
  <2>1. HasRecord(e.start, Padding, Zeros(c - HeaderSize), c)
    BY <1>1 DEF HasPadding
  <2>2. c \in Nat /\ Offset(e.start) + c <= BufferSize /\ e.start + c = MsgPos(e)
    BY <1>p
  <2>3. e.start + c <= readPos + BufferSize
    BY <1>t, <1>n, <1>e, <1>p
  <2>4. pos + n <= e.start \/ e.start + c <= pos
    <3>1. CASE MsgPos(e) <= pos
      BY <2>2, <3>1
    <3>2. CASE j # k
      BY <1>a, <1>k, <1>p, <2>2, <3>2
    <3> QED
      BY <1>1, <3>1, <3>2
  <2> HIDE DEF c
  <2>5. HasRecord(e.start, Padding, Zeros(c - HeaderSize), c)'
    BY <1>1, <1>t, <1>n, <1>p, <1>l, <2>1, <2>2, <2>3, <2>4, PutElsewhere
  <2> QED
    BY <2>5 DEF HasPadding, c
<1>2. ASSUME j # k, readPos <= MsgPos(e), HasMessage(e)
      PROVE  HasMessage(e)'
  <2>1. HasRecord(MsgPos(e), e.msg.type, Payload(e.start, e.msg), MessageSize(e.msg))
    BY <1>2 DEF HasMessage
  <2>2. MsgPos(e) + MessageSize(e.msg) <= readPos + BufferSize
    BY <1>t, <1>n, <1>e, <1>p
  <2>3. pos + n <= MsgPos(e) \/ MsgPos(e) + MessageSize(e.msg) <= pos
    BY <1>2, <1>a, <1>k, <1>p
  <2>4. HasRecord(MsgPos(e), e.msg.type, Payload(e.start, e.msg), MessageSize(e.msg))'
    BY <1>2, <1>t, <1>n, <1>p, <1>l, <2>1, <2>2, <2>3, PutElsewhere
  <2> QED
    BY <2>4 DEF HasMessage
<1> QED
  BY <1>1, <1>2

(* Filling a reserved range in puts the record there, and keeps what else is unread. *)
LEMMA WriteCInv ==
  ASSUME BufferSize % Alignment = 0, IInv, CInv, NEW p \in Producers,
         WritePaddingRecord(p) \/ WriteMessageRecord(p)
  PROVE  CInv'
<1>t. TypeOK /\ LogOK /\ SendersOK /\ CommitOK /\ buffer \in [0 .. BufferSize - 1 -> Cells]
  BY DEF IInv, CInv, TypeOK
<1>1. /\ UNCHANGED <<reservePos, commitPos, readPos, cpc, cm, hdr, payload, log, delivered, wrapped>>
      /\ rs' = rs /\ msg' = msg
  BY DEF WritePaddingRecord, WriteMessageRecord, positions, consumerVars, history
<1>2. \A q \in Producers \ {p} :
        /\ pc'[q] = pc[q] /\ rs'[q] = rs[q] /\ msg'[q] = msg[q] /\ Holds(q)' = Holds(q)
  BY <1>t, OthersUnchanged DEF Work
<1>3. /\ WritePaddingRecord(p) => pc[p] = "padding" /\ pc'[p] = "message"
      /\ WriteMessageRecord(p) => pc[p] = "message" /\ pc'[p] = "publish"
      /\ Holds(p) /\ Holds(p)'
  BY <1>t DEF WritePaddingRecord, WriteMessageRecord, Goto, TypeOK, Holds
<1>4. PICK k \in DOMAIN log : /\ log[k].start = rs[p] /\ log[k].msg = msg[p]
                              /\ End(log[k]) = EndOf(p) /\ MsgPos(log[k]) = MessagePos(p)
  BY <1>t, <1>3, HeldInLog
<1>5. LogOK' /\ CommitOK'
  BY <1>1, <1>t, ContentsKept
<1>6. SendersOK'
  BY <1>1, <1>2, <1>3, <1>t DEF SendersOK, Holds
<1>7. ASSUME ~wrapped' PROVE ReadsOK'
  <2>1. ReadsOK /\ ~wrapped
    BY <1>1, <1>7 DEF CInv
  <2>2. readPos <= log[k].start
    <3>1. readPos <= commitPos /\ commitPos <= rs[p]
      BY <1>3 DEF IInv, ReaderBehind, ReservationsInside
    <3> QED
      BY <1>4, <1>t, <3>1, Numbers
  <2>3. Sound(log[k])
    BY <1>t, LogEntries
  <2> DEFINE c == PaddingSize(rs[p], msg[p])
             s == MessageSize(msg[p])
  <2>4. /\ rs[p] \in Nat /\ c \in Nat /\ s \in Nat
        /\ MessagePos(p) \in Nat /\ MessagePos(p) = rs[p] + c
        /\ EndOf(p) \in Nat /\ EndOf(p) = MessagePos(p) + s
        /\ Offset(rs[p]) + c <= BufferSize
        /\ Offset(MessagePos(p)) + s <= BufferSize
    BY <1>4, <2>3, Parts DEF Sound
  <2>5. ASSUME NEW j \in DOMAIN log, j # k,
               NEW L \in {{"message", "publish"}, {"publish"}}, Filled(log[j], L)'
        PROVE  Filled(log[j], L)
    <3>1. log[j].start # rs[p]
      BY <1>4, <1>t, <2>5, KnownByStart
    <3>2. End(log[j])' = End(log[j])
      BY <1>1 DEF End
    <3> QED
      BY <1>1, <1>2, <2>5, <3>1, <3>2 DEF Filled
  <2>6. ASSUME NEW L \in {{"message", "publish"}, {"publish"}}, Filled(log[k], L)'
        PROVE  pc'[p] \in L
    <3>1. End(log[k])' = End(log[k])
      BY <1>1 DEF End
    <3>2. Filled(log[k], L) \/ pc'[p] \in L
      BY <1>1, <1>2, <1>4, <2>6, <3>1 DEF Filled
    <3>3. Filled(log[k], L) => pc[p] \in L
      BY <1>3, <1>4, <1>t, FilledByHolder
    <3> QED
      BY <1>3, <3>2, <3>3
  <2>7. \A e : MsgPos(e)' = MsgPos(e)
    BY DEF MsgPos
  <2>8. ASSUME NEW j \in DOMAIN log, j # k, NEW e, e = log[j]
        PROVE  /\ readPos <= e.start /\ HasPadding(e) => HasPadding(e)'
               /\ readPos <= MsgPos(e) /\ HasMessage(e) => HasMessage(e)'
    <3>1. CASE WritePaddingRecord(p)
      <4>1. Put(Offset(rs[p]), Record(Padding, Zeros(c - HeaderSize), c))
        BY <3>1 DEF WritePaddingRecord, Zeros
      <4>2. log[k].start <= rs[p] /\ rs[p] + c <= End(log[k])
        BY <1>4, <2>4
      <4> HIDE DEF c
      <4> QED
        BY <1>t, <2>1, <2>2, <2>4, <2>8, <4>1, <4>2, WriteKeeps
    <3>2. CASE WriteMessageRecord(p)
      <4>1. Put(Offset(MessagePos(p)), Record(msg[p].type, Payload(rs[p], msg[p]), s))
        BY <3>2 DEF WriteMessageRecord
      <4>2. log[k].start <= MessagePos(p) /\ MessagePos(p) + s <= End(log[k])
        BY <1>4, <2>4
      <4> HIDE DEF s
      <4> QED
        BY <1>t, <2>1, <2>2, <2>4, <2>8, <4>1, <4>2, WriteKeeps
    <3> QED
      BY <3>1, <3>2
  <2>9. ASSUME NEW e, e = log[k]
        PROVE  /\ WritePaddingRecord(p) => HasPadding(e)'
               /\ WriteMessageRecord(p) => HasMessage(e)'
               /\ WriteMessageRecord(p) /\ readPos <= e.start /\ HasPadding(e) => HasPadding(e)'
    <3>1. ASSUME WritePaddingRecord(p) PROVE HasPadding(e)'
      <4>1. Put(Offset(rs[p]), Record(Padding, Zeros(c - HeaderSize), c))
        BY <3>1 DEF WritePaddingRecord, Zeros
      <4>2. c = PaddingSize(e.start, e.msg) /\ rs[p] = e.start
        BY <1>4, <2>9
      <4> HIDE DEF c
      <4>3. Put(Offset(e.start), Record(Padding, Zeros(c - HeaderSize), c))
        BY <4>1, <4>2
      <4>4. e.start \in Nat /\ c \in Nat /\ Offset(e.start) + c <= BufferSize
        BY <2>4, <4>2
      <4>5. \A z : z = c => HasRecord(e.start, Padding, Zeros(z - HeaderSize), z)'
        BY <1>t, <4>3, <4>4, PutIsThere
      <4> QED
        BY <4>2, <4>5 DEF HasPadding
    <3>2. ASSUME WriteMessageRecord(p)
          PROVE  HasMessage(e)' /\ (readPos <= e.start /\ HasPadding(e) => HasPadding(e)')
      <4>1. Put(Offset(MessagePos(p)), Record(msg[p].type, Payload(rs[p], msg[p]), s))
        BY <3>2 DEF WriteMessageRecord
      <4>2. /\ MessagePos(p) = MsgPos(e) /\ msg[p] = e.msg /\ rs[p] = e.start
            /\ s = MessageSize(e.msg)
        BY <1>4, <2>9
      <4>3. log[k].start <= MessagePos(p) /\ MessagePos(p) + s <= End(log[k])
        BY <1>4, <2>4
      <4> HIDE DEF s
      <4>4. Put(Offset(MsgPos(e)), Record(e.msg.type, Payload(e.start, e.msg), MessageSize(e.msg)))
        BY <4>1, <4>2
      <4>5. MsgPos(e) \in Nat /\ MessageSize(e.msg) \in Nat
            /\ Offset(MsgPos(e)) + MessageSize(e.msg) <= BufferSize
        BY <2>4, <4>2
      <4>6. HasRecord(MsgPos(e), e.msg.type, Payload(e.start, e.msg), MessageSize(e.msg))'
        BY <1>t, <4>4, <4>5, PutIsThere
      <4>7. readPos <= e.start /\ HasPadding(e) => HasPadding(e)'
        <5>1. MsgPos(e) <= MessagePos(p)
          BY <4>2, <4>5
        <5> QED
          BY <1>t, <2>1, <2>2, <2>4, <2>9, <4>1, <4>3, <5>1, WriteKeeps
      <4> QED
        BY <4>6, <4>7 DEF HasMessage
    <3> QED
      BY <3>1, <3>2
  <2>10. RingHolds'
    <3> SUFFICES ASSUME NEW j \in DOMAIN log, NEW e, e = log[j]
                 PROVE  /\ PaddingSize(e.start, e.msg) > 0 /\ readPos <= e.start
                             /\ Filled(log[j], {"message", "publish"})' => HasPadding(e)'
                        /\ readPos <= MsgPos(e) /\ Filled(log[j], {"publish"})' => HasMessage(e)'
      <4>1. \A j \in DOMAIN log' :
              /\ PaddingSize(log[j].start, log[j].msg) > 0 /\ readPos <= log[j].start
                   /\ Filled(log[j], {"message", "publish"})' => HasPadding(log[j])'
              /\ readPos <= MsgPos(log[j]) /\ Filled(log[j], {"publish"})' => HasMessage(log[j])'
        BY <1>1
      <4> QED
        BY <1>1, <2>7, <4>1 DEF RingHolds
    <3>1. /\ PaddingSize(e.start, e.msg) > 0 /\ readPos <= e.start
               /\ Filled(log[j], {"message", "publish"}) => HasPadding(e)
          /\ readPos <= MsgPos(e) /\ Filled(log[j], {"publish"}) => HasMessage(e)
      BY <2>1 DEF ReadsOK, RingHolds
    <3>2. CASE j # k
      BY <2>5, <2>8, <3>1, <3>2
    <3>3. CASE j = k
      <4>1. WriteMessageRecord(p) => Filled(log[j], {"message", "publish"})
        BY <1>3, <1>4, <3>3 DEF Filled
      <4>2. Filled(log[j], {"publish"})' => WriteMessageRecord(p)
        <5>1. Filled(log[j], {"publish"})' => pc'[p] \in {"publish"}
          BY <2>6, <3>3
        <5> QED
          BY <1>3, <5>1
      <4> QED
        BY <2>9, <3>1, <3>3, <4>1, <4>2
    <3> QED
      BY <3>2, <3>3
  <2> QED
    BY <1>1, <2>1, <2>10, ContentsKept DEF ReadsOK
<1> QED
  BY <1>5, <1>6, <1>7 DEF CInv

(* Publishing makes filled-in records readable, and nothing else. *)
LEMMA PublishCInv ==
  ASSUME BufferSize % Alignment = 0, IInv, CInv, NEW p \in Producers, PublishReservedRange(p)
  PROVE  CInv'
<1>t. TypeOK /\ LogOK /\ SendersOK
  BY DEF IInv, CInv
<1>1. /\ UNCHANGED <<reservePos, readPos, buffer, cpc, cm, hdr, payload, log, delivered, wrapped>>
      /\ pc[p] = "publish" /\ Holds(p) /\ commitPos = rs[p] /\ commitPos' = EndOf(p)
      /\ pc'[p] = "idle" /\ ~Holds(p)'
  BY <1>t DEF PublishReservedRange, Return, Goto, Holds, EndOf, TypeOK, consumerVars, history
<1>2. \A q \in Producers \ {p} :
        /\ pc'[q] = pc[q] /\ rs'[q] = rs[q] /\ msg'[q] = msg[q] /\ Holds(q)' = Holds(q)
  BY <1>t, OthersUnchanged DEF Work
<1>3. PICK k \in DOMAIN log : /\ log[k].start = rs[p] /\ log[k].msg = msg[p]
                              /\ End(log[k]) = EndOf(p)
  BY <1>t, <1>1, HeldInLog
<1>4. LogOK'
  BY <1>1, <1>t, ContentsKept
<1>5. SendersOK'
  BY <1>1, <1>2, <1>t DEF SendersOK
<1>6. CommitOK'
  <2>1. Len(log) \in Nat /\ DOMAIN log = 1 .. Len(log) /\ k \in Nat
    BY <1>t, LogEntries
  <2>2. commitPos' = IF k < Len(log) THEN log[k + 1].start ELSE reservePos
    BY <1>1, <1>3, <1>t DEF LogOK
  <2>3. k < Len(log) => k + 1 \in DOMAIN log
    BY <2>1
  <2> QED
    BY <1>1, <2>2, <2>3 DEF CommitOK
<1>7. ASSUME ~wrapped' PROVE ReadsOK'
  <2>1. ReadsOK
    BY <1>1, <1>7 DEF CInv
  <2>2. \A e : End(e)' = End(e)
    BY DEF End
  <2>3. commitPos \in Nat /\ commitPos' \in Nat /\ commitPos <= commitPos'
    BY <1>1, <1>t, Numbers
  <2>4. ASSUME NEW j \in DOMAIN log, NEW L \in {{"message", "publish"}, {"publish"}},
               Filled(log[j], L)'
        PROVE  Filled(log[j], L)
    <3>1. log' = log /\ End(log[j])' = End(log[j])
      BY <1>1, <2>2
    <3>2. CASE End(log[j]) <= commitPos'
      <4>1. /\ Sound(log[j]) /\ End(log[j]) \in Nat /\ log[j].start \in Nat
            /\ log[j].start < End(log[j])
        BY <1>t, LogEntries, Parts DEF Sound
      <4>2. \/ j = k
            \/ End(log[j]) <= commitPos
            \/ commitPos' <= log[j].start
        BY <1>1, <1>3, <1>t, OneBehindTheOther
      <4>3. ~(commitPos' <= log[j].start)
        BY <2>3, <3>2, <4>1
      <4>4. j = k => Filled(log[j], L)
        BY <1>1, <1>3 DEF Filled
      <4> QED
        BY <4>2, <4>3, <4>4 DEF Filled
    <3>3. CASE ~(End(log[j]) <= commitPos')
      <4>1. PICK q \in Producers : pc'[q] \in L /\ rs'[q] = log[j].start
        BY <2>4, <3>1, <3>3 DEF Filled
      <4>2. q # p
        BY <1>1, <4>1
      <4> QED
        BY <1>2, <4>1, <4>2 DEF Filled
    <3> QED
      BY <3>2, <3>3
  <2>5. RingHolds'
    BY <1>1, <2>1, <2>4, RingKept DEF ReadsOK
  <2>6. HeaderOK'
    <3>1. \A e : MsgPos(e)' = MsgPos(e)
      BY DEF MsgPos
    <3>2. ASSUME NEW j \in DOMAIN log, End(log[j]) <= commitPos PROVE End(log[j]) <= commitPos'
      <4>1. End(log[j]) \in Nat
        BY <1>t, LogEntries, Parts
      <4> QED
        BY <2>3, <3>2, <4>1
    <3> QED
      BY <1>1, <2>1, <2>2, <3>1, <3>2 DEF ReadsOK, HeaderOK, AtPadding, AtMessage
  <2> QED
    BY <1>1, <2>1, <2>5, <2>6, ContentsKept DEF ReadsOK
<1> QED
  BY <1>4, <1>5, <1>6, <1>7 DEF CInv

-----------------------------------------------------------------------------
(* What the consumer reads *)

(* A header that lies whole in the ring is read as it was written. *)
LEMMA HeaderAsWritten ==
  ASSUME NEW pos \in Nat, NEW t, NEW ps, NEW n \in Nat, n >= 2, HasRecord(pos, t, ps, n)
  PROVE  /\ TypeRead(buffer[Offset(pos)]) = {t}
         /\ SizeRead(buffer[Offset(pos) + 1]) = {Len(ps)}
<1>1. Offset(pos) \in Nat /\ 0 \in 0 .. n - 1 /\ 1 \in 0 .. n - 1
  BY OffsetType
<1>2. Record(t, ps, n)[0] = TypeCell(t) /\ Record(t, ps, n)[1] = SizeCell(Len(ps))
  BY <1>1 DEF Record
<1>3. buffer[Offset(pos) + 0] = TypeCell(t) /\ buffer[Offset(pos) + 1] = SizeCell(Len(ps))
  BY <1>1, <1>2 DEF HasRecord
<1>4. Offset(pos) + 0 = Offset(pos)
  BY <1>1
<1>5. TypeRead(TypeCell(t)) = {t}
  BY DEF TypeRead, TypeCell
<1>6. SizeRead(SizeCell(Len(ps))) = {Len(ps)}
  BY DEF SizeRead, SizeCell
<1> QED
  BY <1>3, <1>4, <1>5, <1>6

(* So is the payload behind it. *)
LEMMA PayloadAsWritten ==
  ASSUME NEW pos \in Nat, NEW s, NEW m, m.len \in Nat, Offset(pos) + MessageSize(m) <= BufferSize,
         HasRecord(pos, m.type, Payload(s, m), MessageSize(m)), NEW i \in 1 .. m.len
  PROVE  /\ Offset(pos) + HeaderSize + i - 1 < BufferSize
         /\ buffer[Offset(pos) + HeaderSize + i - 1] = Payload(s, m)[i]
<1>1. /\ Offset(pos) \in Nat /\ BufferSize \in Nat
      /\ MessageSize(m) \in Nat /\ MessageSize(m) >= 2 + m.len
  <2>1. HeaderSize + m.len \in Nat
    BY DEF HeaderSize
  <2> QED
    BY <2>1, OffsetType, SizesAssumption, AlignUpEven DEF MessageSize, HeaderSize
<1>2. /\ Offset(pos) + HeaderSize + i - 1 = Offset(pos) + (i + 1)
      /\ Offset(pos) + (i + 1) < BufferSize
      /\ i + 1 \in 0 .. MessageSize(m) - 1 /\ (i + 1) - 1 = i
  BY <1>1 DEF HeaderSize
<1>3. Len(Payload(s, m)) = m.len
  BY DEF Payload
<1>4. Record(m.type, Payload(s, m), MessageSize(m))[i + 1] = Payload(s, m)[i]
  <2> DEFINE ps == Payload(s, m)
             n == MessageSize(m)
  <2>1. i + 1 \in 0 .. n - 1 /\ (i + 1) - 1 = i /\ i <= Len(ps) /\ ~(i + 1 = 0) /\ ~(i + 1 = 1)
        /\ i + 1 > 1
    BY <1>2, <1>3
  <2> HIDE DEF ps, n
  <2>2. Record(m.type, ps, n)[i + 1] = ps[i]
    BY <2>1 DEF Record
  <2> QED
    BY <2>2 DEF ps, n
<1> QED
  BY <1>2, <1>4 DEF HasRecord

(* Where the consumer goes on behind a padding record and behind a message. *)
LEMMA NextRecord ==
  ASSUME BufferSize % Alignment = 0, NEW e, Sound(e), readPos \in Nat
  PROVE  /\ AtPadding(e) => NextReadPos = MsgPos(e)
         /\ AtMessage(e) => NextReadPos = End(e)
<1>1. /\ MsgPos(e) = e.start + PaddingSize(e.start, e.msg)
      /\ PaddingSize(e.start, e.msg) \in Nat /\ PaddingSize(e.start, e.msg) % 2 = 0
      /\ End(e) = MsgPos(e) + MessageSize(e.msg)
  BY Parts
<1>2. ASSUME AtPadding(e) PROVE NextReadPos = MsgPos(e)
  <2> DEFINE c == PaddingSize(e.start, e.msg)
  <2>1. MessageSize(hdr) = AlignUp(2 + (c - 2))
    BY <1>2 DEF AtPadding, MessageSize, HeaderSize
  <2>2. c \in Nat /\ c % 2 = 0
    BY <1>1
  <2> HIDE DEF c
  <2>3. AlignUp(2 + (c - 2)) = c
    BY <2>2 DEF AlignUp, Alignment
  <2> QED
    BY <1>1, <1>2, <2>1, <2>3 DEF NextReadPos, AtPadding, c
<1>3. ASSUME AtMessage(e) PROVE NextReadPos = End(e)
  <2>1. MessageSize(hdr) = MessageSize(e.msg)
    BY <1>3 DEF AtMessage, MessageSize
  <2> QED
    BY <1>1, <1>3, <2>1 DEF NextReadPos, AtMessage
<1> QED
  BY <1>2, <1>3

(* Which reservations end before a place in reservation k: those before k, and k
   itself at its end. *)
LEMMA ReadBefore ==
  ASSUME BufferSize % Alignment = 0, TypeOK, LogOK, NEW i \in DOMAIN log, NEW k \in DOMAIN log
  PROVE  /\ End(log[i]) <= log[k].start <=> i < k
         /\ End(log[i]) <= MsgPos(log[k]) <=> i < k
         /\ End(log[i]) <= End(log[k]) <=> i < k \/ i = k
<1>1. /\ log[i].start \in Nat /\ End(log[i]) \in Nat /\ log[i].start < End(log[i])
      /\ log[k].start \in Nat /\ MsgPos(log[k]) \in Nat /\ End(log[k]) \in Nat
      /\ log[k].start <= MsgPos(log[k]) /\ MsgPos(log[k]) < End(log[k])
      /\ i \in Nat /\ k \in Nat
  BY LogEntries, Parts DEF Sound
<1>2. \/ i = k
      \/ i < k /\ End(log[i]) <= log[k].start
      \/ k < i /\ End(log[k]) <= log[i].start
  BY OneBehindTheOther
<1>3. CASE i = k
  BY <1>1, <1>3
<1>4. CASE i < k /\ End(log[i]) <= log[k].start
  BY <1>1, <1>4
<1>5. CASE k < i /\ End(log[k]) <= log[i].start
  BY <1>1, <1>5
<1> QED
  BY <1>2, <1>3, <1>4, <1>5

(* Where something is published, a whole published reservation lies before the
   consumer, or its message does. *)
LEMMA PublishedRecord ==
  ASSUME BufferSize % Alignment = 0, IInv, LogOK, CommitOK, ReaderOK, RingHolds,
         readPos < commitPos
  PROVE  \E k \in DOMAIN log :
           /\ End(log[k]) <= commitPos
           /\ \/ /\ readPos = log[k].start /\ PaddingSize(log[k].start, log[k].msg) > 0
                 /\ HasPadding(log[k])
              \/ readPos = MsgPos(log[k]) /\ HasMessage(log[k])
<1>t. TypeOK
  BY DEF IInv
<1>1. /\ readPos \in Nat /\ commitPos \in Nat /\ reservePos \in Nat /\ commitPos <= reservePos
      /\ readPos < commitPos
  BY <1>t, Numbers DEF IInv, ReservationsInside
<1>2. readPos # reservePos
  BY <1>1
<1>3. PICK k \in DOMAIN log : readPos \in {log[k].start, MsgPos(log[k])}
  BY <1>2 DEF ReaderOK
<1>4. /\ log[k].start \in Nat /\ MsgPos(log[k]) \in Nat /\ log[k].start <= MsgPos(log[k])
      /\ End(log[k]) \in Nat /\ End(log[k]) <= reservePos
      /\ PaddingSize(log[k].start, log[k].msg) \in Nat
      /\ MsgPos(log[k]) = log[k].start + PaddingSize(log[k].start, log[k].msg)
  BY <1>t, LogEntries, Parts DEF Sound
<1>5. End(log[k]) <= commitPos
  <2>1. CASE commitPos = reservePos
    BY <1>4, <2>1
  <2>2. CASE commitPos # reservePos
    <3>1. PICK j \in DOMAIN log : commitPos = log[j].start
      BY <2>2 DEF CommitOK
    <3>2. log[j].start \in Nat /\ End(log[j]) \in Nat /\ log[j].start < End(log[j])
      BY <1>t, LogEntries, Parts DEF Sound
    <3>3. \/ j = k
          \/ End(log[j]) <= log[k].start
          \/ End(log[k]) <= log[j].start
      BY <1>t, OneBehindTheOther
    <3>4. log[k].start < log[j].start
      BY <1>1, <1>3, <1>4, <3>1
    <3> QED
      BY <1>4, <3>1, <3>2, <3>3, <3>4
  <2> QED
    BY <2>1, <2>2
<1>6. \A L : Filled(log[k], L)
  BY <1>5 DEF Filled
<1>7. CASE readPos = log[k].start /\ PaddingSize(log[k].start, log[k].msg) > 0
  <2>1. HasPadding(log[k])
    BY <1>1, <1>6, <1>7 DEF RingHolds
  <2> QED
    BY <1>5, <1>7, <2>1
<1>8. CASE readPos = MsgPos(log[k])
  <2>1. HasMessage(log[k])
    BY <1>1, <1>6, <1>8 DEF RingHolds
  <2> QED
    BY <1>5, <1>8, <2>1
<1>9. readPos = log[k].start /\ ~(PaddingSize(log[k].start, log[k].msg) > 0)
        => readPos = MsgPos(log[k])
  BY <1>4
<1> QED
  BY <1>3, <1>7, <1>8, <1>9

(* Reading on keeps the records that are still unread. *)
LEMMA RingReadOn ==
  ASSUME BufferSize % Alignment = 0, TypeOK, LogOK, RingHolds,
         readPos \in Nat, readPos' \in Nat, readPos <= readPos',
         UNCHANGED <<log, buffer, commitPos, pc, rs>>
  PROVE  RingHolds'
<1>1. \A e : MsgPos(e)' = MsgPos(e)
  BY DEF MsgPos
<1>2. \A e : (HasPadding(e)' <=> HasPadding(e)) /\ (HasMessage(e)' <=> HasMessage(e))
  BY DEF HasPadding, HasMessage, HasRecord, MsgPos
<1>3. \A e, L : Filled(e, L)' <=> Filled(e, L)
  BY DEF Filled, End
<1>4. ASSUME NEW k \in DOMAIN log
      PROVE  /\ readPos' <= log[k].start => readPos <= log[k].start
             /\ readPos' <= MsgPos(log[k]) => readPos <= MsgPos(log[k])
  <2>1. log[k].start \in Nat /\ MsgPos(log[k]) \in Nat
    BY LogEntries, Parts DEF Sound
  <2> QED
    BY <2>1
<1>5. ASSUME NEW k \in DOMAIN log, NEW e, e = log[k]
      PROVE  /\ PaddingSize(e.start, e.msg) > 0 /\ readPos' <= e.start
                  /\ Filled(e, {"message", "publish"})' => HasPadding(e)'
             /\ readPos' <= MsgPos(e) /\ Filled(e, {"publish"})' => HasMessage(e)'
  BY <1>2, <1>3, <1>4, <1>5 DEF RingHolds
<1>6. \A k \in DOMAIN log' :
        /\ PaddingSize(log[k].start, log[k].msg) > 0 /\ readPos' <= log[k].start
             /\ Filled(log[k], {"message", "publish"})' => HasPadding(log[k])'
        /\ readPos' <= MsgPos(log[k]) /\ Filled(log[k], {"publish"})' => HasMessage(log[k])'
  BY <1>5
<1> QED
  BY <1>1, <1>6 DEF RingHolds

-----------------------------------------------------------------------------
(* Steps of the consumer *)

(* What a step of the consumer leaves alone. *)
LEMMA ConsumerLeaves ==
  ASSUME BufferSize % Alignment = 0, IInv, Consume
  PROVE  /\ UNCHANGED <<reservePos, commitPos, buffer, pc, msg, rs, log, wrapped>>
         /\ ~(TailSpace(readPos) < HeaderSize)
<1>1. UNCHANGED <<reservePos, commitPos, buffer, pc, msg, rs, log, wrapped>>
  BY DEF Consume, LoadCommitPos, ReadHeader, PassOver, CopyPayload, FinishReceive,
         positions, producerVars, history
<1>2. TailSpace(readPos) \in Nat /\ TailSpace(readPos) >= HeaderSize
  BY EvenOffset, OffsetType, Numbers DEF IInv, ReaderBehind, Alignment
<1> QED
  BY <1>1, <1>2 DEF HeaderSize

(* At the place where a reservation ends the next one begins. *)
LEMMA EndIsStart ==
  ASSUME TypeOK, LogOK, NEW k \in DOMAIN log
  PROVE  End(log[k]) = reservePos \/ \E j \in DOMAIN log : End(log[k]) = log[j].start
<1>1. Len(log) \in Nat /\ DOMAIN log = 1 .. Len(log) /\ k \in Nat
  BY LogEntries
<1>2. End(log[k]) = IF k < Len(log) THEN log[k + 1].start ELSE reservePos
  BY DEF LogOK
<1>3. k < Len(log) => k + 1 \in DOMAIN log
  BY <1>1
<1> QED
  BY <1>2, <1>3

(* The consumer copies the header of a record that is there. *)
LEMMA ReadHeaderOK ==
  ASSUME BufferSize % Alignment = 0, IInv, LogOK, CommitOK, ReadsOK, ReadHeader
  PROVE  HeaderOK'
<1>t. TypeOK
  BY DEF IInv
<1>1. /\ UNCHANGED <<reservePos, commitPos, buffer, log, readPos>>
      /\ cpc = "header" /\ cpc' = "record"
  BY ConsumerLeaves DEF Consume, ReadHeader
<1>2. PICK t \in TypeRead(buffer[Offset(readPos)]), n \in SizeRead(buffer[Offset(readPos) + 1]) :
        hdr' = [type |-> t, len |-> n]
  BY ConsumerLeaves DEF Consume, ReadHeader
<1>3. readPos \in Nat /\ readPos < commitPos
  <2>1. readPos < cm /\ cm <= commitPos
    BY <1>1 DEF ReadsOK, ReaderOK, IInv, ReaderBehind
  <2> QED
    BY <1>t, <2>1, Numbers
<1>4. PICK k \in DOMAIN log :
           /\ End(log[k]) <= commitPos
           /\ \/ /\ readPos = log[k].start /\ PaddingSize(log[k].start, log[k].msg) > 0
                 /\ HasPadding(log[k])
              \/ readPos = MsgPos(log[k]) /\ HasMessage(log[k])
  BY <1>3, PublishedRecord DEF ReadsOK
<1>5. Sound(log[k])
  BY <1>t, LogEntries
<1> DEFINE e == log[k]
<1>6. /\ e.msg.len \in Nat /\ MessageSize(e.msg) \in Nat /\ MessageSize(e.msg) >= 2
      /\ PaddingSize(e.start, e.msg) \in Nat
      /\ PaddingSize(e.start, e.msg) > 0 => PaddingSize(e.start, e.msg) >= 2
  BY <1>5, Parts
<1>7. CASE readPos = e.start /\ PaddingSize(e.start, e.msg) > 0 /\ HasPadding(e)
  <2> DEFINE c == PaddingSize(e.start, e.msg)
  <2>1. HasRecord(readPos, Padding, Zeros(c - HeaderSize), c) /\ c \in Nat /\ c >= 2
    BY <1>6, <1>7 DEF HasPadding
  <2>2. Len(Zeros(c - HeaderSize)) = c - HeaderSize
    <3>1. c - HeaderSize \in Nat
      BY <2>1 DEF HeaderSize
    <3> HIDE DEF c
    <3> QED
      BY <3>1 DEF Zeros
  <2> HIDE DEF c
  <2>3. t = Padding /\ n = c - HeaderSize
    <3>1. /\ TypeRead(buffer[Offset(readPos)]) = {Padding}
          /\ SizeRead(buffer[Offset(readPos) + 1]) = {Len(Zeros(c - HeaderSize))}
      BY <1>3, <2>1, HeaderAsWritten
    <3> QED
      BY <2>2, <3>1
  <2>4. hdr'.type = Padding /\ hdr'.len = PaddingSize(e.start, e.msg) - HeaderSize
    BY <1>2, <2>3 DEF c
  <2>5. AtPadding(log[k])'
    BY <1>1, <1>7, <2>4 DEF AtPadding
  <2> QED
    BY <1>1, <1>4, <2>5 DEF HeaderOK, End
<1>8. CASE readPos = MsgPos(e) /\ HasMessage(e)
  <2>1. HasRecord(readPos, e.msg.type, Payload(e.start, e.msg), MessageSize(e.msg))
    BY <1>8 DEF HasMessage
  <2>2. Len(Payload(e.start, e.msg)) = e.msg.len
    BY <1>6 DEF Payload
  <2>3. t = e.msg.type /\ n = e.msg.len
    <3>1. /\ TypeRead(buffer[Offset(readPos)]) = {e.msg.type}
          /\ SizeRead(buffer[Offset(readPos) + 1]) = {Len(Payload(e.start, e.msg))}
      <4> HIDE DEF e
      <4> QED
        BY <1>3, <1>6, <2>1, HeaderAsWritten
    <3> QED
      BY <2>2, <3>1
  <2>4. hdr'.type = e.msg.type /\ hdr'.len = e.msg.len
    BY <1>2, <2>3
  <2>5. AtMessage(log[k])'
    BY <1>1, <1>8, <2>4 DEF AtMessage, MsgPos
  <2> QED
    BY <1>1, <1>4, <2>5 DEF HeaderOK, End
<1> QED
  BY <1>4, <1>7, <1>8

(* It copies the payload of the message that is there. *)
LEMMA CopyPayloadOK ==
  ASSUME BufferSize % Alignment = 0, IInv, LogOK, ReadsOK, CopyPayload
  PROVE  HeaderOK'
<1>t. TypeOK
  BY DEF IInv
<1>1. /\ UNCHANGED <<reservePos, commitPos, buffer, log, readPos, hdr>>
      /\ cpc = "record" /\ cpc' = "return" /\ hdr.type # Padding /\ IsWanted(hdr.type)
  BY DEF CopyPayload, positions, history
<1>2. PICK k \in DOMAIN log : End(log[k]) <= commitPos /\ (AtPadding(log[k]) \/ AtMessage(log[k]))
  BY <1>1 DEF ReadsOK, HeaderOK
<1>3. AtMessage(log[k])
  BY <1>1, <1>2 DEF AtPadding
<1> DEFINE e == log[k]
<1>4. /\ e.msg.len \in Nat /\ MsgPos(e) \in Nat
      /\ Offset(MsgPos(e)) + MessageSize(e.msg) <= BufferSize
  BY <1>t, LogEntries, Parts
<1>5. readPos = MsgPos(e) /\ hdr.type = e.msg.type /\ hdr.len = e.msg.len
  BY <1>3 DEF AtMessage
<1>6. HasMessage(e)
  <2>1. Filled(e, {"publish"}) /\ readPos <= MsgPos(e)
    BY <1>2, <1>4, <1>5 DEF Filled
  <2> QED
    BY <2>1 DEF ReadsOK, RingHolds
<1>7. ASSUME NEW i \in 1 .. e.msg.len
      PROVE  /\ Offset(readPos) + HeaderSize + i - 1 < BufferSize
             /\ buffer[Offset(readPos) + HeaderSize + i - 1] = Payload(e.start, e.msg)[i]
  <2>1. HasRecord(readPos, e.msg.type, Payload(e.start, e.msg), MessageSize(e.msg))
    BY <1>5, <1>6 DEF HasMessage
  <2>2. readPos \in Nat /\ Offset(readPos) + MessageSize(e.msg) <= BufferSize
    BY <1>4, <1>5
  <2> HIDE DEF e
  <2> QED
    BY <1>4, <2>1, <2>2, PayloadAsWritten
<1>8. payload' = Payload(e.start, e.msg)
  <2>1. payload' = [i \in 1 .. e.msg.len |->
                      IF Offset(readPos) + HeaderSize + i - 1 < BufferSize
                        THEN buffer[Offset(readPos) + HeaderSize + i - 1] ELSE ZeroCell]
    BY <1>5 DEF CopyPayload
  <2>2. payload' = [i \in 1 .. e.msg.len |-> Payload(e.start, e.msg)[i]]
    <3> HIDE DEF e
    <3> QED
      BY <1>7, <2>1
  <2>3. Payload(e.start, e.msg) = [i \in 1 .. e.msg.len |-> Payload(e.start, e.msg)[i]]
    BY DEF Payload
  <2> QED
    BY <2>2, <2>3
<1>9. AtMessage(log[k])'
  BY <1>1, <1>5 DEF AtMessage, MsgPos
<1> QED
  BY <1>1, <1>2, <1>5, <1>8, <1>9 DEF HeaderOK, End, Payload, IsWanted

(* What is skipped is padding, or a message the consumer did not ask for. *)
LEMMA PassOverOK ==
  ASSUME BufferSize % Alignment = 0, IInv, LogOK, ReadsOK, PassOver
  PROVE  ReaderOK' /\ DeliversExactly'
<1>t. TypeOK
  BY DEF IInv
<1>1. /\ UNCHANGED <<reservePos, commitPos, buffer, log, delivered>>
      /\ cpc = "record" /\ cpc' = "load"
  BY DEF PassOver, Again, history
<1>2. \A e : End(e)' = End(e) /\ MsgPos(e)' = MsgPos(e) /\ Content(e)' = Content(e)
  BY DEF End, MsgPos, Content
<1>3. \A i : IsWanted(i)' = IsWanted(i)
  BY DEF IsWanted
<1>4. Due' = Due => DeliversExactly'
  BY <1>1, <1>2 DEF ReadsOK, DeliversExactly, Rank
<1>5. CASE readPos' = readPos
  <2>1. Due' = Due
    BY <1>1, <1>2, <1>3, <1>5 DEF Due
  <2>2. ReaderOK'
    BY <1>1, <1>2, <1>5 DEF ReadsOK, ReaderOK
  <2> QED
    BY <1>4, <2>1, <2>2
<1>6. CASE readPos' # readPos
  <2>1. readPos' = NextReadPos /\ ~(NextReadPos > cm)
    BY <1>6 DEF PassOver
  <2>2. hdr.type = Padding \/ ~IsWanted(hdr.type)
    BY <2>1 DEF PassOver
  <2>3. PICK k \in DOMAIN log : AtPadding(log[k]) \/ AtMessage(log[k])
    BY <1>1 DEF ReadsOK, HeaderOK
  <2>4. Sound(log[k]) /\ readPos \in Nat /\ log[k].msg.type \in {Text, Number, Stop}
    BY <1>t, LogEntries, Parts, Numbers
  <2>5. CASE AtPadding(log[k])
    <3>1. readPos' = MsgPos(log[k]) /\ readPos = log[k].start
      BY <2>1, <2>4, <2>5, NextRecord DEF AtPadding
    <3>2. \A i \in DOMAIN log : End(log[i]) <= readPos' <=> End(log[i]) <= readPos
      BY <1>t, <3>1, ReadBefore
    <3>3. Due' = Due
      BY <1>1, <1>2, <1>3, <3>2 DEF Due
    <3>4. ReaderOK'
      BY <1>1, <1>2, <3>1 DEF ReaderOK
    <3> QED
      BY <1>4, <3>3, <3>4
  <2>6. CASE AtMessage(log[k])
    <3>1. readPos' = End(log[k]) /\ readPos = MsgPos(log[k]) /\ hdr.type = log[k].msg.type
      BY <2>1, <2>4, <2>6, NextRecord DEF AtMessage
    <3>2. ~IsWanted(log[k].msg.type)
      BY <2>2, <2>4, <3>1 DEF Padding, Text, Number, Stop
    <3>3. \A i \in DOMAIN log : End(log[i]) <= readPos' <=> End(log[i]) <= readPos \/ i = k
      BY <1>t, <3>1, ReadBefore
    <3>4. Due' = Due
      BY <1>1, <1>2, <1>3, <3>2, <3>3 DEF Due
    <3>5. ReaderOK'
      BY <1>1, <1>2, <1>t, <3>1, EndIsStart DEF ReaderOK
    <3> QED
      BY <1>4, <3>4, <3>5
  <2> QED
    BY <2>3, <2>5, <2>6
<1> QED
  BY <1>5, <1>6

(* What Receive() returns is the next wanted message, and comes after all the others. *)
LEMMA FinishReceiveOK ==
  ASSUME BufferSize % Alignment = 0, IInv, LogOK, ReadsOK, FinishReceive
  PROVE  ReaderOK' /\ DeliversExactly'
<1>t. TypeOK
  BY DEF IInv
<1> DEFINE it == [type |-> hdr.type, payload |-> payload]
<1>1. /\ UNCHANGED <<reservePos, commitPos, buffer, log>>
      /\ cpc = "return" /\ cpc' = "load" /\ readPos' = NextReadPos
      /\ delivered' = Append(delivered, it)
  BY DEF FinishReceive, Again
<1>2. \A e : End(e)' = End(e) /\ MsgPos(e)' = MsgPos(e) /\ Content(e)' = Content(e)
  BY DEF End, MsgPos, Content
<1>3. \A i : IsWanted(i)' = IsWanted(i)
  BY DEF IsWanted
<1>4. PICK k \in DOMAIN log : /\ AtMessage(log[k]) /\ IsWanted(log[k].msg.type)
                              /\ payload = Payload(log[k].start, log[k].msg)
  BY <1>1 DEF ReadsOK, HeaderOK
<1>5. readPos \in Nat /\ Sound(log[k])
  BY <1>t, LogEntries, Numbers
<1>6. readPos' = End(log[k]) /\ readPos = MsgPos(log[k]) /\ hdr.type = log[k].msg.type
  BY <1>1, <1>4, <1>5, NextRecord DEF AtMessage
<1>7. ReaderOK'
  BY <1>1, <1>2, <1>t, <1>6, EndIsStart DEF ReaderOK
<1>8. it = Content(log[k])
  BY <1>4, <1>6 DEF Content
<1>9. /\ \A i \in DOMAIN log : End(log[i]) <= readPos <=> i < k
      /\ \A i \in DOMAIN log : End(log[i]) <= readPos' <=> End(log[i]) <= readPos \/ i = k
  BY <1>t, <1>6, ReadBefore
<1>10. Due' = Due \cup {k}
  BY <1>1, <1>2, <1>3, <1>4, <1>9 DEF Due
<1>11. /\ Due \in SUBSET Nat /\ IsFiniteSet(Due) /\ k \in Nat
       /\ \A i \in Due : i < k
  <2>1. Len(log) \in Nat /\ DOMAIN log = 1 .. Len(log)
    BY <1>t, LogEntries
  <2>2. IsFiniteSet(1 .. Len(log)) /\ Due \subseteq 1 .. Len(log)
    BY <2>1, FS_Interval DEF Due
  <2>3. IsFiniteSet(Due)
    BY <2>2, FS_Subset
  <2>4. \A i \in Due : i < k
    BY <1>9 DEF Due
  <2> QED
    BY <2>1, <2>2, <2>3, <2>4
<1> DEFINE n == Cardinality(Due)
<1>12. n \in Nat /\ Cardinality(Due') = n + 1 /\ Rank(k, Due') = n + 1
  BY <1>10, <1>11, LastOne DEF Rank
<1>13. \A i \in Due : Rank(i, Due') = Rank(i, Due) /\ Rank(i, Due) \in 1 .. n
  <2>1. ASSUME NEW i \in Due PROVE Rank(i, Due') = Rank(i, Due)
    <3>1. {j \in Due \cup {k} : j <= i} = {j \in Due : j <= i}
      BY <1>11, LastOne
    <3> QED
      BY <1>10, <3>1 DEF Rank
  <2>2. ASSUME NEW i \in Due PROVE Rank(i, Due) \in 1 .. n
    BY <1>11, PlaceType DEF Rank
  <2> QED
    BY <2>1, <2>2
<1>14. Len(delivered) = n /\ \A i \in Due : delivered[Rank(i, Due)] = Content(log[i])
  BY DEF ReadsOK, DeliversExactly
<1> HIDE DEF n, it
<1>15. /\ Len(delivered') = n + 1 /\ delivered'[n + 1] = it
       /\ \A r \in 1 .. n : delivered'[r] = delivered[r]
  <2>1. it \in [type : Nat, payload : Seq(Cells)] /\ delivered \in Seq([type : Nat, payload : Seq(Cells)])
    BY <1>t DEF TypeOK, it
  <2> QED
    BY <1>1, <1>14, <2>1, AppendProperties
<1>16. ASSUME NEW i \in Due' PROVE delivered'[Rank(i, Due')] = Content(log[i])
  <2>1. CASE i = k
    BY <1>8, <1>12, <1>15, <2>1
  <2>2. CASE i \in Due
    BY <1>13, <1>14, <1>15, <2>2
  <2> QED
    BY <1>10, <2>1, <2>2
<1>17. \A i : Rank(i, Due)' = Rank(i, Due')
  BY DEF Rank
<1>18. DeliversExactly'
  BY <1>1, <1>2, <1>12, <1>15, <1>16, <1>17 DEF DeliversExactly
<1> QED
  BY <1>7, <1>18

(* The consumer's steps: readPos goes from record to record, and each header and
   payload is that of a published record. *)
LEMMA ConsumerCInv ==
  ASSUME BufferSize % Alignment = 0, IInv, IInv', CInv, Consume
  PROVE  CInv'
<1>t. TypeOK /\ TypeOK' /\ LogOK /\ SendersOK /\ CommitOK
  BY DEF IInv, CInv
<1>1. /\ UNCHANGED <<reservePos, commitPos, buffer, pc, msg, rs, log, wrapped>>
      /\ ~(TailSpace(readPos) < HeaderSize)
  BY ConsumerLeaves
<1>2. \A e : End(e)' = End(e) /\ MsgPos(e)' = MsgPos(e) /\ Content(e)' = Content(e)
  BY DEF End, MsgPos, Content
<1>3. LogOK' /\ CommitOK'
  BY <1>1, <1>2, <1>t DEF LogOK, CommitOK
<1>4. SendersOK'
  BY <1>1, <1>t DEF SendersOK, Holds
<1>5. ASSUME ~wrapped' PROVE ReadsOK'
  <2>1. ReadsOK
    BY <1>1, <1>5 DEF CInv
  <2>2. readPos \in Nat /\ readPos' \in Nat /\ cm \in Nat /\ commitPos \in Nat
    BY <1>t DEF TypeOK
  <2>3. RingHolds'
    <3>1. readPos <= readPos'
      <4>1. MessageSize(hdr) \in Nat
        BY <1>t, SizeType DEF TypeOK
      <4>2. readPos' \in {readPos, NextReadPos}
        BY <1>1 DEF Consume, LoadCommitPos, ReadHeader, PassOver, CopyPayload, FinishReceive,
           positions
      <4> QED
        BY <2>2, <4>1, <4>2 DEF NextReadPos
    <3> QED
      BY <1>1, <1>t, <2>1, <2>2, <3>1, RingReadOn DEF ReadsOK
  <2>4. ReaderOK /\ HeaderOK /\ DeliversExactly
    BY <2>1 DEF ReadsOK
  <2>5. UNCHANGED <<readPos, delivered>> => DeliversExactly'
    <3> SUFFICES ASSUME UNCHANGED <<readPos, delivered>> PROVE DeliversExactly'
      OBVIOUS
    <3>1. Due' = Due
      BY <1>1, <1>2 DEF Due, IsWanted
    <3> QED
      BY <1>1, <1>2, <2>4, <3>1 DEF DeliversExactly, Rank
  <2>6. CASE LoadCommitPos
    <3>1. readPos' = readPos /\ delivered' = delivered /\ cpc' = "header" /\ cm' = commitPos
      BY <2>6 DEF LoadCommitPos, positions, history
    <3>2. readPos < commitPos
      BY <2>2, <2>6 DEF LoadCommitPos, IInv, ReaderBehind
    <3>3. ReaderOK'
      BY <1>1, <1>2, <2>4, <3>1, <3>2 DEF ReaderOK
    <3>4. HeaderOK'
      BY <3>1 DEF HeaderOK
    <3> QED
      BY <2>3, <2>5, <3>1, <3>3, <3>4 DEF ReadsOK
  <2>7. CASE ReadHeader
    <3>1. /\ readPos' = readPos /\ delivered' = delivered /\ cpc # "load"
          /\ cm' = cm
      BY <1>1, <2>7 DEF ReadHeader, history
    <3>2. ReaderOK'
      BY <1>1, <1>2, <2>4, <3>1 DEF ReaderOK
    <3>3. HeaderOK'
      BY <1>t, <2>1, <2>7, ReadHeaderOK
    <3> QED
      BY <2>3, <2>5, <3>1, <3>2, <3>3 DEF ReadsOK
  <2>8. CASE PassOver
    <3>1. HeaderOK'
      BY <2>8 DEF PassOver, Again, HeaderOK
    <3> QED
      BY <1>t, <2>1, <2>3, <2>8, <3>1, PassOverOK DEF ReadsOK
  <2>9. CASE CopyPayload
    <3>1. /\ readPos' = readPos /\ delivered' = delivered /\ cpc # "load"
          /\ cm' = cm
      BY <2>9 DEF CopyPayload, positions, history
    <3>2. ReaderOK'
      BY <1>1, <1>2, <2>4, <3>1 DEF ReaderOK
    <3>3. HeaderOK'
      BY <1>t, <2>1, <2>9, CopyPayloadOK
    <3> QED
      BY <2>3, <2>5, <3>1, <3>2, <3>3 DEF ReadsOK
  <2>10. CASE FinishReceive
    <3>1. HeaderOK'
      BY <2>10 DEF FinishReceive, Again, HeaderOK
    <3> QED
      BY <1>t, <2>1, <2>3, <2>10, <3>1, FinishReceiveOK DEF ReadsOK
  <2> QED
    BY <2>6, <2>7, <2>8, <2>9, <2>10 DEF Consume
<1> QED
  BY <1>3, <1>4, <1>5 DEF CInv

(* The empty ring: nothing reserved, nothing due. *)
LEMMA InitCInv == Init => CInv
<1> SUFFICES ASSUME Init PROVE CInv
  OBVIOUS
<1>1. /\ log = <<>> /\ delivered = <<>> /\ DOMAIN log = {} /\ Len(delivered) = 0
      /\ reservePos = 0 /\ commitPos = 0 /\ readPos = 0 /\ cpc = "load"
  BY DEF Init
<1>2. \A p \in Producers : pc[p] = "idle" /\ ~Holds(p)
  BY DEF Init, Holds
<1>3. LogOK /\ CommitOK
  BY <1>1 DEF LogOK, CommitOK
<1>4. SendersOK
  BY <1>2 DEF SendersOK
<1>5. ReaderOK /\ RingHolds /\ HeaderOK
  BY <1>1 DEF ReaderOK, RingHolds, HeaderOK
<1>6. Due = {}
  BY <1>1 DEF Due
<1>7. DeliversExactly
  BY <1>1, <1>6, FS_EmptySet DEF DeliversExactly
<1> QED
  BY <1>3, <1>4, <1>5, <1>7 DEF CInv, ReadsOK

(* Every step keeps the log, the ring's contents and what was delivered in agreement. *)
LEMMA NextCInv ==
  ASSUME BufferSize % Alignment = 0, IInv, CInv, [Next]_vars
  PROVE  CInv'
<1>1. IInv'
  BY NextIInv
<1>2. CASE UNCHANGED vars
  <2>1. /\ UNCHANGED <<reservePos, commitPos, readPos, buffer, cpc, cm, hdr, payload, log>>
        /\ UNCHANGED <<delivered, wrapped, pc, rs, msg>>
    BY <1>2 DEF vars, positions, producerVars, consumerVars, history
  <2>2. LogOK' /\ CommitOK' /\ SendersOK'
    BY <2>1, ContentsKept DEF CInv, SendersOK, Holds
  <2>3. ReadsOK => ReadsOK'
    <3>1. \A k \in DOMAIN log :
            \A L \in {{"message", "publish"}, {"publish"}} : Filled(log[k], L)' => Filled(log[k], L)
      BY <2>1 DEF Filled, End
    <3>2. RingHolds => RingHolds'
      BY <2>1, <3>1, RingKept
    <3> QED
      BY <2>1, <3>2, ContentsKept DEF ReadsOK
  <2> QED
    BY <2>1, <2>2, <2>3 DEF CInv
<1>3. CASE Next
  BY <1>1, <1>3, QuietCInv, CasReserveCInv, WriteCInv, PublishCInv, ConsumerCInv DEF Next, Work
<1> QED
  BY <1>2, <1>3

(* In a ring whose size is a multiple of Alignment, what has been filled in and not
   been read is there, and what has been delivered is what was due. *)
THEOREM Contents ==
  ASSUME BufferSize % Alignment = 0
  PROVE  Spec => [](IInv /\ CInv)
<1>1. Init => IInv /\ CInv
  BY InitIInv, InitCInv
<1>2. IInv /\ CInv /\ [Next]_vars => (IInv /\ CInv)'
  BY NextIInv, NextCInv
<1> QED
  BY <1>1, <1>2, PTL DEF Spec

(* Receive() hands out exactly the messages of the wanted type (and Stop), each once,
   with the payload that was sent, in the order of the reservations, whatever the
   producers' interleaving and crashes, until freeSpace wraps (mpsc_queue.cpp 182). *)
THEOREM Delivery ==
  ASSUME BufferSize % Alignment = 0
  PROVE  Spec => []DeliversUntilWrap
<1>1. IInv /\ CInv => DeliversUntilWrap
  BY DEF CInv, ReadsOK, DeliversUntilWrap
<1> QED
  BY <1>1, Contents, PTL

(* With a single producer this holds without a proviso: freeSpace never wraps. *)
THEOREM SoleProducerDelivers ==
  ASSUME BufferSize % Alignment = 0, SoleProducer
  PROVE  Spec => []DeliversExactly
<1>1. IInv /\ CInv => DeliversExactly
  BY DEF IInv, SoleNeverWraps, CInv, ReadsOK
<1> QED
  BY <1>1, Contents, PTL

=============================================================================
