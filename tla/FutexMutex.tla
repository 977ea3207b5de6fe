----------------------------- MODULE FutexMutex -----------------------------
(***************************************************************************)
(* hw-4: class Mutex (mutex.h), a three-state lock word on a futex.        *)
(*                                                                         *)
(* Every access to mtx_state is one atomic read-modify-write, so each is   *)
(* one action.  The local variable `expected' only decides where control   *)
(* goes next, so it is folded into pc:                                     *)
(*                                                                         *)
(*   "idle"    outside Lock() and Unlock(), without the lock               *)
(*   "xchg"    about to execute mtx_state.exchange(2)   (mutex.h 28 or 34) *)
(*   "wait"    about to call FutexWait(&mtx_state, 2)   (mutex.h 33)       *)
(*   "asleep"  queued by the kernel on the address of mtx_state            *)
(*   "cs"      Lock() has returned, Unlock() has not been called           *)
(*   "wake"    in Unlock(), about to call FutexWakeOne  (mutex.h 44)       *)
(*                                                                         *)
(* A thread that unlocks is the thread that locked: the class does not     *)
(* record an owner and relies on its callers for this.                     *)
(***************************************************************************)
EXTENDS Naturals

CONSTANT Threads
ASSUME ThreadsNonempty == Threads # {}

VARIABLES
  mtx_state,   \* 0 free, 1 taken, 2 taken and waiters may be asleep
  pc           \* control state of each thread

vars == <<mtx_state, pc>>

Locations == {"idle", "xchg", "wait", "asleep", "cs", "wake"}

Goto(t, l) == pc' = [pc EXCEPT ![t] = l]

At(l) == {t \in Threads : pc[t] = l}

Init ==
  /\ mtx_state = 0
  /\ pc = [t \in Threads |-> "idle"]

-----------------------------------------------------------------------------
(* Lock() *)

(* Faulty variant: the fast path takes the lock whatever it finds. *)
LockFastBlind(t) ==
  /\ pc[t] = "idle"
  /\ mtx_state' = 1
  /\ Goto(t, "cs")

(* compare_exchange_strong(0 -> 1); a loser that already sees 2 goes straight
   to FutexWait, one that sees 1 first marks the lock contended. *)
LockFast(t) ==
  /\ pc[t] = "idle"
  /\ IF mtx_state = 0
       THEN mtx_state' = 1 /\ Goto(t, "cs")
       ELSE /\ Goto(t, IF mtx_state = 2 THEN "wait" ELSE "xchg")
            /\ UNCHANGED mtx_state

(* Faulty variant: every waiter adds itself to the lock word. *)
ExchangeIncrement(t) ==
  /\ pc[t] = "xchg"
  /\ mtx_state' = mtx_state + 1
  /\ Goto(t, IF mtx_state = 0 THEN "cs" ELSE "wait")

(* Faulty variant: a woken thread takes the lock with 1, as the fast path does,
   and forgets that others may still be asleep. *)
ExchangeUncontended(t) ==
  /\ pc[t] = "xchg"
  /\ mtx_state' = IF mtx_state = 0 THEN 1 ELSE 2
  /\ Goto(t, IF mtx_state = 0 THEN "cs" ELSE "wait")

(* expected = mtx_state.exchange(2): the lock is ours if it was free, and is
   marked contended in any case. *)
Exchange(t) ==
  /\ pc[t] = "xchg"
  /\ mtx_state' = 2
  /\ Goto(t, IF mtx_state = 0 THEN "cs" ELSE "wait")

(* Faulty variant: the kernel's compare with the expected value is not made. *)
FutexWaitNoCompare(t) ==
  /\ pc[t] = "wait"
  /\ Goto(t, "asleep")
  /\ UNCHANGED mtx_state

(* FUTEX_WAIT: atomically compare with 2 and queue; EAGAIN when it differs.
   The return value is ignored, the caller exchanges again. *)
FutexWait(t) ==
  /\ pc[t] = "wait"
  /\ Goto(t, IF mtx_state = 2 THEN "asleep" ELSE "xchg")
  /\ UNCHANGED mtx_state

(* FUTEX_WAIT may return without a wake-up: a signal, a spurious wake-up. *)
SpuriousWake(t) ==
  /\ pc[t] = "asleep"
  /\ Goto(t, "xchg")
  /\ UNCHANGED mtx_state

-----------------------------------------------------------------------------
(* Unlock() *)

(* prev = mtx_state.exchange(0); only a contended lock needs a wake-up. *)
UnlockExchange(t) ==
  /\ pc[t] = "cs"
  /\ mtx_state' = 0
  /\ Goto(t, IF mtx_state = 2 THEN "wake" ELSE "idle")

(* FUTEX_WAKE of at most one thread, of the kernel's choice. *)
FutexWakeOne(t) ==
  /\ pc[t] = "wake"
  /\ UNCHANGED mtx_state
  /\ IF At("asleep") = {}
       THEN Goto(t, "idle")
       ELSE \E u \in At("asleep") :
              pc' = [pc EXCEPT ![t] = "idle", ![u] = "xchg"]

-----------------------------------------------------------------------------
Step(t) ==
  \/ Exchange(t)
  \/ FutexWait(t)
  \/ UnlockExchange(t)
  \/ FutexWakeOne(t)

Next == \E t \in Threads : LockFast(t) \/ Step(t) \/ SpuriousWake(t)

(* A runnable thread is eventually scheduled by the kernel.  Nobody has to call
   Lock(), and a sleeping thread need not be woken for no reason. *)
Fairness == \A t \in Threads : WF_vars(Step(t))

Spec == Init /\ [][Next]_vars

FairSpec == Spec /\ Fairness

-----------------------------------------------------------------------------
(* The lock word takes no value but the three of mutex.h 48-50. *)
TypeOK ==
  /\ mtx_state \in 0 .. 2
  /\ pc \in [Threads -> Locations]

(* Two threads are never both between Lock() and Unlock(), whatever mix of fast
   path, contended path and wake-ups brought them there. *)
MutualExclusion ==
  \A t, u \in Threads : pc[t] = "cs" /\ pc[u] = "cs" => t = u

(* The lock word is 0 exactly while nobody has the lock. *)
LockWord == mtx_state = 0 <=> At("cs") = {}

(* A thread asleep in FutexWait is never forgotten: either the holder will find
   a 2 in the lock word and wake somebody, or a wake-up is on its way, or a
   thread that is awake will put the 2 back (mutex.h 28, 34, 42). *)
NoLostWakeup ==
  At("asleep") # {} =>
    \/ mtx_state = 2
    \/ At("wake") # {}
    \/ At("xchg") # {}

(* The inductive invariant behind the three properties. *)
IInv ==
  /\ TypeOK
  /\ MutualExclusion
  /\ LockWord
  /\ NoLostWakeup

(* As long as some thread is inside Lock(), some thread gets the lock again and
   again: everybody asleep with the lock free never happens.  (A particular
   thread may starve: a newcomer can overtake it on the fast path.) *)
LockProgress ==
  At("xchg") \cup At("wait") \cup At("asleep") # {} ~> At("cs") # {}

Lock == INSTANCE AbstractLock WITH holders <- At("cs")

(* Lock() and Unlock() implement the abstract lock: only a free lock is given to
   a thread, and only its holder gives it back. *)
ImplementsLock == Lock!Spec

=============================================================================
