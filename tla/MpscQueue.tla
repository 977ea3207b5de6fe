------------------------------ MODULE MpscQueue ------------------------------
(***************************************************************************)
(* hw-5: the ring buffer in shared memory (mpsc_queue.cpp), once producers *)
(* and consumer are attached: ProducerNode::TrySend / Send and             *)
(* ConsumerNode::TryReceive / Receive.                                     *)
(*                                                                         *)
(* Sizes are counted in half-words of 4 bytes: a MessageHeader is two      *)
(* cells (type, payloadSize) and Alignment is two cells, so AlignUp still  *)
(* rounds.  One access to reservePos, commitPos or readPos is one action.  *)
(* Filling a reserved range is one action per record: nobody else may be   *)
(* using those cells, which WritersApart checks.                           *)
(*                                                                         *)
(* Positions are natural numbers, since 2^64 bytes are never sent; the     *)
(* differences of positions are taken modulo Word, as uint64_t does.       *)
(***************************************************************************)
EXTENDS Integers, Sequences, FiniteSets

CONSTANTS
  Producers,       \* the producer processes
  TryOnly,         \* producers that call TrySend and give up on false
  MayCrash,        \* producers that may be killed in the middle of a call
  BufferSize,      \* bufferSize, in half-words
  Messages,        \* the messages producers send: [type, len]
  InterestedType,  \* ConsumerNode::interestedType
  MaxSends,        \* bound: calls each producer makes
  Word             \* the modulus of uint64_t

HeaderSize == 2
Alignment  == 2

(* enum class MessageType *)
Padding == 0
Text    == 1
Number  == 2
Stop    == 3
All     == 4

ASSUME SizesAssumption ==
  /\ BufferSize \in Nat \ {0}
  /\ MaxSends \in Nat
  /\ Word \in Nat
  /\ BufferSize < Word

ASSUME ProducersAssumption ==
  /\ TryOnly \subseteq Producers
  /\ MayCrash \subseteq Producers

ASSUME MessagesAssumption ==
  /\ Messages \subseteq [type : {Text, Number, Stop}, len : Nat]
  /\ InterestedType \in {Text, Number, Stop, All}

VARIABLES
  reservePos, commitPos, readPos,  \* QueueHeader
  buffer,        \* the cells of the ring, by offset
  pc,            \* where each producer is in TrySend
  msg,           \* the message it is sending
  rd, rs,        \* its copies of readPos and reservePos
  sends,         \* calls it has made
  cpc,           \* where the consumer is in TryReceive
  cm,            \* its copy of commitPos
  hdr,           \* its copy of the record header
  payload,       \* the payload it has copied
  log,           \* history: successful reservations, in order
  delivered,     \* history: messages Receive() has returned
  wrapped        \* history: a reservation was admitted by a wrapped freeSpace

positions    == <<reservePos, commitPos, readPos>>
producerVars == <<pc, msg, rd, rs, sends>>
consumerVars == <<cpc, cm, hdr, payload>>
history      == <<log, delivered, wrapped>>
vars == <<positions, buffer, producerVars, consumerVars, history>>

-----------------------------------------------------------------------------
(* Arithmetic *)

AlignUp(n) == ((n + Alignment - 1) \div Alignment) * Alignment

(* a - b on uint64_t *)
Sub64(a, b) == IF b <= a THEN a - b ELSE a - b + Word

MessageSize(m) == AlignUp(HeaderSize + m.len)

Offset(pos) == pos % BufferSize

TailSpace(pos) == BufferSize - Offset(pos)

PaddingSize(pos, m) ==
  IF TailSpace(pos) < MessageSize(m) THEN TailSpace(pos) ELSE 0

(* What a message takes when its reservation begins at pos. *)
Required(pos, m) == PaddingSize(pos, m) + MessageSize(m)

FreeSpace(r, w) == Sub64(BufferSize, Sub64(w, r))

-----------------------------------------------------------------------------
(* Contents of the ring.  A cell is a field of a header, a half-word of the
   payload of the message reserved at `start', or zero. *)

(* Faulty variant: the size field is computed from the payload's length as if it
   included the header. *)
SizeCellLessHeader(n) == <<"size", n - HeaderSize, 0>>

TypeCell(t)        == <<"type", t, 0>>
SizeCell(n)        == <<"size", n, 0>>
DataCell(start, i) == <<"data", start, i>>
ZeroCell           == <<"zero", 0, 0>>

Cells ==
  ({"type", "size"} \X Nat \X {0}) \cup ({"data"} \X Nat \X Nat) \cup {ZeroCell}

Payload(start, m) == [i \in 1 .. m.len |-> DataCell(start, i)]

(* The n cells of a record of type t with payload ps, zero-filled. *)
Record(t, ps, n) ==
  [i \in 0 .. n - 1 |->
     CASE i = 0 -> TypeCell(t)
       [] i = 1 -> SizeCell(Len(ps))
       [] i > 1 /\ i - 1 <= Len(ps) -> ps[i - 1]
       [] OTHER -> ZeroCell]

(* memcpy of record r to offset o *)
Put(o, r) ==
  buffer' = [c \in DOMAIN buffer |->
               IF c - o \in DOMAIN r THEN r[c - o] ELSE buffer[c]]

(* What a header field yields when cell c is read as a type or as a size.  Only
   an intact field has one value; a payload half-word can hold anything, and a
   size of n half-words stands for the 4n-3 .. 4n bytes that round up to it. *)
TypeRead(c) ==
  CASE c[1] \in {"type", "zero"} -> {c[2]}
    [] c[1] = "size" -> IF c[2] = 0 THEN {0} ELSE 4 * c[2] - 3 .. 4 * c[2]
    [] OTHER -> Padding .. All

SizeRead(c) ==
  CASE c[1] \in {"size", "zero"} -> {c[2]}
    [] c[1] = "type" -> {(c[2] + 3) \div 4}
    [] OTHER -> 0 .. BufferSize

-----------------------------------------------------------------------------
NoHeader == [type |-> Padding, len |-> 0]

Init ==
  /\ reservePos = 0 /\ commitPos = 0 /\ readPos = 0
  /\ buffer = [c \in 0 .. BufferSize - 1 |-> ZeroCell]
  /\ pc = [p \in Producers |-> "idle"]
  /\ msg = [p \in Producers |-> NoHeader]
  /\ rd = [p \in Producers |-> 0]
  /\ rs = [p \in Producers |-> 0]
  /\ sends = [p \in Producers |-> 0]
  /\ cpc = "load" /\ cm = 0 /\ hdr = NoHeader /\ payload = <<>>
  /\ log = <<>> /\ delivered = <<>> /\ wrapped = FALSE

-----------------------------------------------------------------------------
(* ProducerNode *)

Goto(p, l) == pc' = [pc EXCEPT ![p] = l]

(* TrySend starts its loop again, without what it had loaded. *)
Retry(p) ==
  /\ Goto(p, "readPos")
  /\ rd' = [rd EXCEPT ![p] = 0]
  /\ rs' = [rs EXCEPT ![p] = 0]
  /\ UNCHANGED <<msg, sends>>

(* The call returns; its local variables are gone. *)
Return(p) ==
  /\ Goto(p, "idle")
  /\ msg' = [msg EXCEPT ![p] = NoHeader]
  /\ rd' = [rd EXCEPT ![p] = 0]
  /\ rs' = [rs EXCEPT ![p] = 0]
  /\ UNCHANGED sends

(* Send or TrySend is called.  A message larger than the ring throws before it
   reads any shared variable, so such a call changes nothing. *)
StartSend(p) ==
  /\ pc[p] = "idle"
  /\ sends[p] < MaxSends
  /\ \E m \in Messages :
       /\ MessageSize(m) <= BufferSize
       /\ msg' = [msg EXCEPT ![p] = m]
  /\ sends' = [sends EXCEPT ![p] = @ + 1]
  /\ Goto(p, "readPos")
  /\ UNCHANGED <<positions, buffer, rd, rs, consumerVars, history>>

LoadReadPos(p) ==
  /\ pc[p] = "readPos"
  /\ rd' = [rd EXCEPT ![p] = readPos]
  /\ Goto(p, "reservePos")
  /\ UNCHANGED <<positions, buffer, msg, rs, sends, consumerVars, history>>

(* Faulty variant: the padding is left out of the space that must be free. *)
AdmitsWithoutPadding(p) == FreeSpace(rd[p], reservePos) >= MessageSize(msg[p])

Admits(p) == FreeSpace(rd[p], reservePos) >= Required(reservePos, msg[p])

(* Faulty variant: readPos is loaded once and not again before a new attempt. *)
LoadReservePosOnly(p) ==
  /\ pc[p] = "reservePos"
  /\ IF Admits(p)
       THEN /\ rs' = [rs EXCEPT ![p] = reservePos]
            /\ Goto(p, "cas")
            /\ UNCHANGED <<msg, rd, sends>>
       ELSE IF p \in TryOnly THEN Return(p) ELSE UNCHANGED producerVars
  /\ UNCHANGED <<positions, buffer, consumerVars, history>>

(* The second load, and the verdict on the space: TrySend returns false when it
   does not suffice, and Send calls it again. *)
LoadReservePos(p) ==
  /\ pc[p] = "reservePos"
  /\ IF Admits(p)
       THEN /\ rs' = [rs EXCEPT ![p] = reservePos]
            /\ Goto(p, "cas")
            /\ UNCHANGED <<msg, rd, sends>>
       ELSE IF p \in TryOnly THEN Return(p) ELSE Retry(p)
  /\ UNCHANGED <<positions, buffer, consumerVars, history>>

(* compare_exchange_weak on reservePos succeeds: the range is ours. *)
CasReserve(p) ==
  /\ pc[p] = "cas"
  /\ reservePos = rs[p]
  /\ reservePos' = rs[p] + Required(rs[p], msg[p])
  /\ Goto(p, IF PaddingSize(rs[p], msg[p]) >= HeaderSize THEN "padding" ELSE "message")
  /\ log' = Append(log, [start |-> rs[p], msg |-> msg[p]])
  /\ wrapped' = (wrapped \/ rs[p] - rd[p] > BufferSize)
  /\ UNCHANGED <<commitPos, readPos, buffer, msg, rd, rs, sends, consumerVars, delivered>>

(* It fails, because reservePos has moved or for no reason: start over. *)
CasReserveFails(p) ==
  /\ pc[p] = "cas"
  /\ Retry(p)
  /\ UNCHANGED <<positions, buffer, consumerVars, history>>

WritePaddingRecord(p) ==
  /\ pc[p] = "padding"
  /\ LET n == PaddingSize(rs[p], msg[p])
         zeros == [i \in 1 .. n - HeaderSize |-> ZeroCell]
     IN  Put(Offset(rs[p]), Record(Padding, zeros, n))
  /\ Goto(p, "message")
  /\ UNCHANGED <<positions, msg, rd, rs, sends, consumerVars, history>>

MessagePos(p) == rs[p] + PaddingSize(rs[p], msg[p])

(* Faulty variant: the message goes where the padding begins. *)
WriteMessageRecordAtReserve(p) ==
  /\ pc[p] = "message"
  /\ Put(Offset(rs[p]),
         Record(msg[p].type, Payload(rs[p], msg[p]), MessageSize(msg[p])))
  /\ Goto(p, "publish")
  /\ UNCHANGED <<positions, msg, rd, rs, sends, consumerVars, history>>

WriteMessageRecord(p) ==
  /\ pc[p] = "message"
  /\ Put(Offset(MessagePos(p)),
         Record(msg[p].type, Payload(rs[p], msg[p]), MessageSize(msg[p])))
  /\ Goto(p, "publish")
  /\ UNCHANGED <<positions, msg, rd, rs, sends, consumerVars, history>>

(* Faulty variant: a producer publishes without waiting for its turn. *)
PublishOutOfTurn(p) ==
  /\ pc[p] = "publish"
  /\ commitPos' = rs[p] + Required(rs[p], msg[p])
  /\ Return(p)
  /\ UNCHANGED <<reservePos, readPos, buffer, consumerVars, history>>

(* compare_exchange_weak(myBegin -> myEnd) on commitPos, repeated until every
   earlier reservation has been published. *)
PublishReservedRange(p) ==
  /\ pc[p] = "publish"
  /\ commitPos = rs[p]
  /\ commitPos' = rs[p] + Required(rs[p], msg[p])
  /\ Return(p)
  /\ UNCHANGED <<reservePos, readPos, buffer, consumerVars, history>>

(* Between the reservation of a range and its publication. *)
Holds(p) == pc[p] \in {"padding", "message", "publish"}

(* The process is killed inside a call, before it has a range ("dead") or with
   one, which is then never published ("lost"). *)
Crash(p) ==
  /\ p \in MayCrash
  /\ pc[p] \notin {"idle", "dead", "lost"}
  /\ Goto(p, IF Holds(p) THEN "lost" ELSE "dead")
  /\ UNCHANGED <<positions, buffer, msg, rd, rs, sends, consumerVars, history>>

-----------------------------------------------------------------------------
(* ConsumerNode.  readPos is written by the consumer alone, so it is read where
   it is used.  Receive() calls TryReceive() until it returns a message. *)

(* The next turn of the loop, or the next call: the locals are gone. *)
Again ==
  /\ cpc' = "load"
  /\ cm' = 0
  /\ hdr' = NoHeader
  /\ payload' = <<>>

(* TryReceive returns nullopt at once while readPos = commitPos. *)
LoadCommitPos ==
  /\ cpc = "load"
  /\ readPos # commitPos
  /\ cm' = commitPos
  /\ cpc' = "header"
  /\ UNCHANGED <<positions, buffer, producerVars, hdr, payload, history>>

(* A tail too short for a header is skipped; otherwise the header is copied. *)
ReadHeader ==
  /\ cpc = "header"
  /\ IF TailSpace(readPos) < HeaderSize
       THEN /\ readPos' = readPos + TailSpace(readPos)
            /\ Again
       ELSE /\ \E t \in TypeRead(buffer[Offset(readPos)]),
                  n \in SizeRead(buffer[Offset(readPos) + 1]) :
                 hdr' = [type |-> t, len |-> n]
            /\ cpc' = "record"
            /\ UNCHANGED <<readPos, cm, payload>>
  /\ UNCHANGED <<reservePos, commitPos, buffer, producerVars, history>>

NextReadPos == readPos + MessageSize(hdr)

IsWanted(t) == t = Stop \/ InterestedType \in {All, t}

(* Faulty variant: a message of another type is ignored but not skipped. *)
PassOverKeepsOthers ==
  /\ cpc = "record"
  /\ NextReadPos > cm \/ hdr.type = Padding \/ ~IsWanted(hdr.type)
  /\ readPos' = IF NextReadPos > cm \/ hdr.type # Padding THEN readPos ELSE NextReadPos
  /\ Again
  /\ UNCHANGED <<reservePos, commitPos, buffer, producerVars, history>>

(* A record that does not end before commitPos is left alone (nullopt); padding
   and messages of other types are skipped. *)
PassOver ==
  /\ cpc = "record"
  /\ NextReadPos > cm \/ hdr.type = Padding \/ ~IsWanted(hdr.type)
  /\ readPos' = IF NextReadPos > cm THEN readPos ELSE NextReadPos
  /\ Again
  /\ UNCHANGED <<reservePos, commitPos, buffer, producerVars, history>>

(* A corrupt header may announce more than the ring holds; the cells read past
   its end are not the ring's. *)
CopyPayload ==
  /\ cpc = "record"
  /\ NextReadPos <= cm
  /\ hdr.type # Padding
  /\ IsWanted(hdr.type)
  /\ payload' = [i \in 1 .. hdr.len |->
                   LET o == Offset(readPos) + HeaderSize + i - 1
                   IN  IF o < BufferSize THEN buffer[o] ELSE ZeroCell]
  /\ cpc' = "return"
  /\ UNCHANGED <<positions, buffer, producerVars, cm, hdr, history>>

FinishReceive ==
  /\ cpc = "return"
  /\ readPos' = NextReadPos
  /\ delivered' = Append(delivered, [type |-> hdr.type, payload |-> payload])
  /\ Again
  /\ UNCHANGED <<reservePos, commitPos, buffer, producerVars, log, wrapped>>

-----------------------------------------------------------------------------
Work(p) ==
  \/ LoadReadPos(p)
  \/ LoadReservePos(p)
  \/ CasReserve(p)
  \/ CasReserveFails(p)
  \/ WritePaddingRecord(p)
  \/ WriteMessageRecord(p)
  \/ PublishReservedRange(p)

Consume ==
  \/ LoadCommitPos
  \/ ReadHeader
  \/ PassOver
  \/ CopyPayload
  \/ FinishReceive

Next ==
  \/ \E p \in Producers :
       StartSend(p) \/ Work(p) \/ Crash(p)
  \/ Consume

(* Every live process is scheduled.  A compare-exchange that is tried again and
   again with the expected value in place succeeds in the end: a weak one may
   fail spuriously, but not every time. *)
Fairness ==
  /\ \A p \in Producers : WF_vars(Work(p)) /\ SF_vars(CasReserve(p))
  /\ WF_vars(Consume)

Spec == Init /\ [][Next]_vars

FairSpec == Spec /\ Fairness

-----------------------------------------------------------------------------
(* The types, for whatever the consumer may read. *)
TypeOK ==
  /\ reservePos \in Nat /\ commitPos \in Nat /\ readPos \in Nat
  /\ buffer \in [0 .. BufferSize - 1 -> Cells]
  /\ pc \in [Producers -> {"idle", "readPos", "reservePos", "cas", "padding",
                           "message", "publish", "dead", "lost"}]
  /\ msg \in [Producers -> [type : Padding .. All, len : Nat]]
  /\ rd \in [Producers -> Nat] /\ rs \in [Producers -> Nat]
  /\ sends \in [Producers -> 0 .. MaxSends]
  /\ cpc \in {"load", "header", "record", "return"}
  /\ cm \in Nat
  /\ hdr \in [type : Nat, len : Nat]
  /\ payload \in Seq(Cells)
  /\ log \in Seq([start : Nat, msg : [type : Padding .. All, len : Nat]])
  /\ delivered \in Seq([type : Nat, payload : Seq(Cells)])
  /\ wrapped \in BOOLEAN

(* As long as no reservation was admitted by a wrapped freeSpace, the three
   positions keep their order and at most bufferSize is reserved and unread. *)
PositionsOrdered ==
  ~wrapped => /\ readPos <= commitPos
              /\ commitPos <= reservePos
              /\ reservePos <= readPos + BufferSize

EndOf(p) == rs[p] + Required(rs[p], msg[p])

CellsOf(from, to) == {Offset(i) : i \in from .. to - 1}

Reserved(p) == CellsOf(rs[p], EndOf(p))

(* The cells a producer fills between its reservation and its publication are
   used by nobody else: not by another producer, and not by the consumer, which
   may be reading any unread published cell. *)
WritersApart ==
  ~wrapped =>
    \A p \in Producers : Holds(p) =>
      /\ Reserved(p) \cap CellsOf(readPos, commitPos) = {}
      /\ \A q \in Producers \ {p} : Holds(q) => Reserved(p) \cap Reserved(q) = {}

End(e) == e.start + Required(e.start, e.msg)

Content(e) == [type |-> e.msg.type, payload |-> Payload(e.start, e.msg)]

(* The place of i in a set of numbers, counted from 1. *)
Rank(i, S) == Cardinality({j \in S : j <= i})

(* The messages a perfect queue would have handed out up to readPos. *)
Due == {i \in DOMAIN log : End(log[i]) <= readPos /\ IsWanted(log[i].msg.type)}

(* Receive() hands out exactly the wanted messages, each once, with its own
   payload, in the order of the reservations. *)
DeliversExactly ==
  /\ Len(delivered) = Cardinality(Due)
  /\ \A i \in Due : delivered[Rank(i, Due)] = Content(log[i])

(* The same, until freeSpace has wrapped (mpsc_queue.cpp 182). *)
DeliversUntilWrap == wrapped \/ DeliversExactly

(* The parts of the inductive invariant behind PositionsOrdered and
   WritersApart, for a ring whose size is a multiple of Alignment. *)

(* The consumer stays on aligned positions behind what it saw published. *)
ReaderBehind ==
  /\ readPos % Alignment = 0
  /\ readPos <= commitPos
  /\ cm <= commitPos
  /\ cpc = "return" => NextReadPos <= cm

(* Unpublished reservations lie between commitPos and reservePos. *)
ReservationsInside ==
  /\ commitPos <= reservePos
  /\ \A p \in Producers : Holds(p) => commitPos <= rs[p] /\ EndOf(p) <= reservePos

ReservationsApart ==
  \A p, q \in Producers :
    p # q /\ Holds(p) /\ Holds(q) => EndOf(p) <= rs[q] \/ EndOf(q) <= rs[p]

(* What a producer remembers of the positions may be old, never new, and it
   tries to reserve only what its two loads made it believe to be free. *)
StaleLoads ==
  \A p \in Producers :
    /\ rd[p] <= readPos
    /\ pc[p] = "cas" => /\ rd[p] <= rs[p]
                        /\ rs[p] <= reservePos
                        /\ FreeSpace(rd[p], rs[p]) >= Required(rs[p], msg[p])

NoOverrun == ~wrapped => reservePos <= readPos + BufferSize

(* A producer that has the ring for itself sees a reservePos that is at most
   bufferSize ahead of the readPos it loaded before. *)
SoleProducer == \A p, q \in Producers : p = q

SoleNeverWraps ==
  SoleProducer =>
    /\ ~wrapped
    /\ \A p \in Producers :
         /\ pc[p] = "reservePos" => reservePos <= rd[p] + BufferSize
         /\ pc[p] = "cas" => rs[p] = reservePos /\ rs[p] <= rd[p] + BufferSize

IInv ==
  /\ TypeOK
  /\ ReaderBehind
  /\ ReservationsInside
  /\ ReservationsApart
  /\ StaleLoads
  /\ NoOverrun
  /\ SoleNeverWraps

(* Every call of a live producer returns, unless a producer died with a range it
   had reserved: everybody behind that range waits.  A producer that dies at any
   other moment holds up nobody. *)
SendReturns ==
  \A p \in Producers :
    pc[p] # "idle" ~> \/ pc[p] \in {"idle", "dead"}
                      \/ \E q \in Producers : pc[q] = "lost"
                      \/ wrapped

(* What has been published is read, whatever happens to the producers. *)
PublishedIsRead == readPos < commitPos ~> readPos = commitPos \/ wrapped

=============================================================================
