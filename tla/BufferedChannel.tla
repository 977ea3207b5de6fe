-------------------------- MODULE BufferedChannel --------------------------
(***************************************************************************)
(* hw-3: class BufferedChannel (buffered_channel.h), a bounded channel     *)
(* over a circular buffer, a std::mutex and two condition variables.       *)
(*                                                                         *)
(* Everything between acquiring mtx and releasing it (by unlock, by wait   *)
(* or by leaving the function) is one action.  The notifications come      *)
(* after the unlock and are actions of their own, so other threads run in  *)
(* between.  Control state of a thread:                                    *)
(*                                                                         *)
(*   "idle"     outside the channel, or waiting for mtx in a new call      *)
(*   "waiting"  inside wait(): in notFull for senders, in notEmpty for     *)
(*              receivers                                                  *)
(*   "woken"    notified (or spuriously woken), waiting for mtx            *)
(*   "notify"   mtx released, notify_one of the other side still to come   *)
(*   "done"     Send has thrown or Recv has returned nullopt; the caller   *)
(*              stops there, as every caller in the repository does        *)
(*                                                                         *)
(* and of a thread that calls Close: "idle", "notEmpty", "notFull", "done" *)
(***************************************************************************)
EXTENDS Integers, Sequences, FiniteSets

CONSTANTS
  Senders, Receivers, Closers,   \* the calling threads
  Size,                          \* the constructor's argument
  CopyMayThrow,                  \* senders whose values may throw when copied
  MaxSends                       \* bound: values each sender sends

ASSUME ThreadsAssumption ==
  /\ IsFiniteSet(Senders) /\ IsFiniteSet(Receivers) /\ IsFiniteSet(Closers)
  /\ Senders \cap Receivers = {} /\ CopyMayThrow \subseteq Senders
  /\ (Senders \cup Receivers) \cap Closers = {}

ASSUME SizeAssumption == Size \in Int /\ MaxSends \in Nat

(* A channel of non-positive size has one slot. *)
capacity == IF Size > 0 THEN Size ELSE 1

VARIABLES
  closed,
  buffer, head, tail, size,   \* the circular buffer
  pc,
  sent,                       \* values each sender has sent
  received,                   \* history: values returned by Recv, in order
  dropped                     \* history: a woken sender has left by an exception

ring == <<buffer, head, tail, size>>
vars == <<closed, ring, pc, sent, received, dropped>>

Threads == Senders \cup Receivers \cup Closers

At(T, l) == {t \in T : pc[t] = l}

Goto(t, l) == pc' = [pc EXCEPT ![t] = l]

Empty == <<"no sender", 0>>      \* T{}, the value of a slot never written

Values == Senders \X (1 .. MaxSends)

Init ==
  /\ closed = FALSE
  /\ buffer = [i \in 0 .. capacity - 1 |-> Empty]
  /\ head = 0 /\ tail = 0 /\ size = 0
  /\ pc = [t \in Threads |-> "idle"]
  /\ sent = [s \in Senders |-> 0]
  /\ received = <<>>
  /\ dropped = FALSE

-----------------------------------------------------------------------------
(* Send *)

InSend(s) == pc[s] = "woken" \/ (pc[s] = "idle" /\ sent[s] < MaxSends)

(* The predicate of notFull.wait fails. *)
SendWait(s) ==
  /\ InSend(s)
  /\ ~closed /\ size = capacity
  /\ Goto(s, "waiting")
  /\ UNCHANGED <<closed, ring, sent, received, dropped>>

SendThrow(s) ==
  /\ InSend(s)
  /\ closed
  /\ Goto(s, "done")
  /\ UNCHANGED <<closed, ring, sent, received, dropped>>

(* The value goes to the slot at tail, which then moves to next. *)
Put(s, next, l) ==
  /\ InSend(s)
  /\ buffer' = [buffer EXCEPT ![tail] = <<s, sent[s] + 1>>]
  /\ tail' = next
  /\ size' = size + 1
  /\ sent' = [sent EXCEPT ![s] = @ + 1]
  /\ Goto(s, l)
  /\ UNCHANGED <<closed, head, received, dropped>>

Wrap(i) == (i + 1) % capacity

(* Faulty variant: a full buffer is noticed one element late. *)
SendPutFull(s) == ~closed /\ size <= capacity /\ Put(s, Wrap(tail), "notify")

(* Faulty variant: only a value put into an empty buffer is announced. *)
SendPutSilent(s) ==
  ~closed /\ size < capacity /\ Put(s, Wrap(tail), IF size = 0 THEN "notify" ELSE "idle")

(* Faulty variant: tail stays where it is. *)
SendPutNoAdvance(s) == ~closed /\ size < capacity /\ Put(s, tail, "notify")

(* Faulty variant: a sender woken by a close still stores its value. *)
SendPutClosed(s) == size < capacity /\ Put(s, Wrap(tail), "notify")

SendPut(s) == ~closed /\ size < capacity /\ Put(s, Wrap(tail), "notify")

(* The copy assignment of T throws: mtx is released, nobody is notified, and the
   notification that may have woken this sender is used up. *)
SendCopyThrows(s) ==
  /\ s \in CopyMayThrow
  /\ InSend(s)
  /\ ~closed /\ size < capacity
  /\ Goto(s, "done")
  /\ dropped' = (dropped \/ pc[s] = "woken")
  /\ UNCHANGED <<closed, ring, sent, received>>

(* notify_one on a condition variable with the waiters W, by thread t. *)
NotifyOne(t, W) ==
  /\ pc[t] = "notify"
  /\ IF W = {}
       THEN Goto(t, "idle")
       ELSE \E w \in W : pc' = [pc EXCEPT ![t] = "idle", ![w] = "woken"]
  /\ UNCHANGED <<closed, ring, sent, received, dropped>>

SendNotify(s) == NotifyOne(s, At(Receivers, "waiting"))

-----------------------------------------------------------------------------
(* Recv *)

InRecv(r) == pc[r] \in {"idle", "woken"}

RecvWait(r) ==
  /\ InRecv(r)
  /\ ~closed /\ size = 0
  /\ Goto(r, "waiting")
  /\ UNCHANGED <<closed, ring, sent, received, dropped>>

RecvNullopt(r) ==
  /\ InRecv(r)
  /\ closed /\ size = 0
  /\ Goto(r, "done")
  /\ UNCHANGED <<closed, ring, sent, received, dropped>>

Take(r, l) ==
  /\ InRecv(r)
  /\ size > 0
  /\ received' = Append(received, buffer[head])
  /\ head' = Wrap(head)
  /\ size' = size - 1
  /\ Goto(r, l)
  /\ UNCHANGED <<closed, buffer, tail, sent, dropped>>

(* Faulty variant: only a slot freed in a full buffer is announced. *)
RecvTakeSilent(r) == Take(r, IF size = capacity THEN "notify" ELSE "idle")

(* Values are moved out; the slot keeps a moved-from value until it is reused. *)
RecvTake(r) == Take(r, "notify")

RecvNotify(r) == NotifyOne(r, At(Senders, "waiting"))

(* A wait may end without a notification; the predicate is tested again. *)
SpuriousWake(t) ==
  /\ pc[t] = "waiting"
  /\ Goto(t, "woken")
  /\ UNCHANGED <<closed, ring, sent, received, dropped>>

-----------------------------------------------------------------------------
(* Close.  A second call returns at once and changes nothing. *)

CloseMark(c) ==
  /\ pc[c] = "idle"
  /\ ~closed
  /\ closed' = TRUE
  /\ Goto(c, "notEmpty")
  /\ UNCHANGED <<ring, sent, received, dropped>>

WakeAll(c, T, next) ==
  /\ pc' = [t \in Threads |-> CASE t = c -> next
                                [] t \in At(T, "waiting") -> "woken"
                                [] OTHER -> pc[t]]
  /\ UNCHANGED <<closed, ring, sent, received, dropped>>

CloseNotEmpty(c) == pc[c] = "notEmpty" /\ WakeAll(c, Receivers, "notFull")

(* Faulty variant: only one of the blocked senders learns of the close. *)
CloseNotFullOne(c) ==
  /\ pc[c] = "notFull"
  /\ IF At(Senders, "waiting") = {}
       THEN Goto(c, "done")
       ELSE \E s \in At(Senders, "waiting") :
              pc' = [pc EXCEPT ![c] = "done", ![s] = "woken"]
  /\ UNCHANGED <<closed, ring, sent, received, dropped>>

CloseNotFull(c) == pc[c] = "notFull" /\ WakeAll(c, Senders, "done")

-----------------------------------------------------------------------------
SendStep(s) == SendWait(s) \/ SendThrow(s) \/ SendPut(s) \/ SendCopyThrows(s)

RecvStep(r) == RecvWait(r) \/ RecvNullopt(r) \/ RecvTake(r)

Next ==
  \/ \E s \in Senders : SendStep(s) \/ SendNotify(s) \/ SpuriousWake(s)
  \/ \E r \in Receivers : RecvStep(r) \/ RecvNotify(r) \/ SpuriousWake(r)
  \/ \E c \in Closers : CloseMark(c) \/ CloseNotEmpty(c) \/ CloseNotFull(c)

(* A runnable thread runs, and whoever waits for mtx gets it in the end although
   others keep taking it.  Nobody is obliged to call anything. *)
Fairness ==
  /\ \A s \in Senders : /\ WF_vars(pc[s] = "woken" /\ SendStep(s))
                        /\ WF_vars(SendNotify(s))
  /\ \A r \in Receivers : /\ WF_vars(pc[r] = "woken" /\ RecvStep(r))
                          /\ WF_vars(RecvNotify(r))
  /\ \A c \in Closers : WF_vars(CloseNotEmpty(c)) /\ WF_vars(CloseNotFull(c))

Spec == Init /\ [][Next]_vars

FairSpec == Spec /\ Fairness

-----------------------------------------------------------------------------
(* The indices stay inside the buffer and size never exceeds capacity. *)
TypeOK ==
  /\ closed \in BOOLEAN
  /\ buffer \in [0 .. capacity - 1 -> Values \cup {Empty}]
  /\ head \in 0 .. capacity - 1
  /\ tail \in 0 .. capacity - 1
  /\ size \in 0 .. capacity
  /\ pc \in [Threads -> {"idle", "waiting", "woken", "notify", "notEmpty", "notFull", "done"}]
  /\ sent \in [Senders -> 0 .. MaxSends]
  /\ received \in Seq(Values)
  /\ dropped \in BOOLEAN

(* The elements of the circular buffer, oldest first. *)
Contents == [i \in 1 .. size |-> buffer[(head + i - 1) % capacity]]

Channel == INSTANCE AbstractChannel
             WITH queue <- Contents, Capacity <- capacity

(* The circular buffer with its two condition variables is a bounded FIFO
   queue: no value is lost, repeated or overtaken, and a Send that waited
   across a Close stores nothing. *)
ImplementsChannel == Channel!Spec

(* nullopt means the end: once a receiver has got it, the channel is closed and
   will stay empty, so no value is left behind (buffered_channel.h 55). *)
NulloptIsFinal == At(Receivers, "done") # {} => closed /\ size = 0

(* While receivers are blocked, every stored value has a wake-up on its way: a
   sender that has yet to notify or a receiver that has yet to look.  The same
   for blocked senders and free slots, as long as no sender that was woken left by
   an exception of the copy, and after a Close for everybody
   (buffered_channel.h 40-45, 60-66, 75-77). *)
NoLostWakeup ==
  /\ At(Receivers, "waiting") # {} =>
       IF closed
         THEN At(Closers, "notEmpty") # {}
         ELSE size <= Cardinality(At(Senders, "notify"))
                        + Cardinality(At(Receivers, "woken"))
  /\ At(Senders, "waiting") # {} =>
       IF closed
         THEN At(Closers, "notEmpty") \cup At(Closers, "notFull") # {}
         ELSE \/ dropped
              \/ capacity - size <= Cardinality(At(Receivers, "notify"))
                                      + Cardinality(At(Senders, "woken"))

(* After a Close every blocked call returns. *)
CloseReleasesAll ==
  closed ~> \A t \in Senders \cup Receivers : pc[t] \in {"idle", "done"}

(* Nobody sleeps for ever beside what it waits for: a blocked receiver beside a
   value, a blocked sender beside a free slot, unless the sender that was notified
   of it left by an exception. *)
BlockedCallProceeds ==
  /\ \A r \in Receivers :
       pc[r] = "waiting" /\ size > 0 ~> pc[r] # "waiting" \/ size = 0
  /\ \A s \in Senders :
       pc[s] = "waiting" /\ size < capacity
         ~> pc[s] # "waiting" \/ size = capacity \/ dropped

=============================================================================
