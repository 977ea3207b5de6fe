-------------------------- MODULE FutexMutexProofs --------------------------
(***************************************************************************)
(* Proofs about hw-4's Mutex for any set of threads: its lock word, mutual *)
(* exclusion, that no sleeping thread is forgotten, and that it implements *)
(* the abstract lock.                                                      *)
(***************************************************************************)
EXTENDS FutexMutex, TLAPS

USE DEF Locations, Goto, At

(* The initial state satisfies the inductive invariant. *)
LEMMA InitIInv == Init => IInv
BY DEF Init, IInv, TypeOK, MutualExclusion, LockWord, NoLostWakeup

(* The fast path takes only a free lock and otherwise touches nothing but the
   caller's pc, so it cannot forget a sleeper (mutex.h 25). *)
LEMMA LockFastIInv ==
  ASSUME IInv, NEW t \in Threads, LockFast(t)
  PROVE  IInv'
<1> USE DEF IInv, TypeOK, LockFast
<1>1. TypeOK'
  OBVIOUS
<1>2. MutualExclusion'
  BY DEF MutualExclusion, LockWord
<1>3. LockWord'
  BY DEF LockWord
<1>4. NoLostWakeup'
  BY DEF NoLostWakeup
<1> QED
  BY <1>1, <1>2, <1>3, <1>4

(* exchange(2) leaves the word contended, whoever gets the lock. *)
LEMMA ExchangeIInv ==
  ASSUME IInv, NEW t \in Threads, Exchange(t)
  PROVE  IInv'
<1> USE DEF IInv, TypeOK, Exchange
<1>1. TypeOK'
  OBVIOUS
<1>2. MutualExclusion'
  BY DEF MutualExclusion, LockWord
<1>3. LockWord'
  BY DEF LockWord
<1>4. NoLostWakeup'
  BY DEF NoLostWakeup
<1> QED
  BY <1>1, <1>2, <1>3, <1>4

(* A thread is queued only while the word is 2, and back to exchange(2)
   otherwise. *)
LEMMA FutexWaitIInv ==
  ASSUME IInv, NEW t \in Threads, FutexWait(t)
  PROVE  IInv'
<1> USE DEF IInv, TypeOK, FutexWait
<1>1. TypeOK'
  OBVIOUS
<1>2. MutualExclusion'
  BY DEF MutualExclusion
<1>3. LockWord'
  BY DEF LockWord
<1>4. NoLostWakeup'
  BY DEF NoLostWakeup
<1> QED
  BY <1>1, <1>2, <1>3, <1>4

(* A spurious wake-up sends its thread to exchange(2). *)
LEMMA SpuriousWakeIInv ==
  ASSUME IInv, NEW t \in Threads, SpuriousWake(t)
  PROVE  IInv'
<1> USE DEF IInv, TypeOK, SpuriousWake
<1>1. TypeOK'
  OBVIOUS
<1>2. MutualExclusion'
  BY DEF MutualExclusion
<1>3. LockWord'
  BY DEF LockWord
<1>4. NoLostWakeup'
  BY DEF NoLostWakeup
<1> QED
  BY <1>1, <1>2, <1>3, <1>4

(* exchange(0) frees the lock of its only holder, and a holder that found 2
   owes a wake-up. *)
LEMMA UnlockExchangeIInv ==
  ASSUME IInv, NEW t \in Threads, UnlockExchange(t)
  PROVE  IInv'
<1> USE DEF IInv, TypeOK, UnlockExchange
<1>1. TypeOK'
  OBVIOUS
<1>2. MutualExclusion'
  BY DEF MutualExclusion
<1>3. LockWord'
  BY DEF LockWord, MutualExclusion
<1>4. NoLostWakeup'
  BY DEF NoLostWakeup
<1> QED
  BY <1>1, <1>2, <1>3, <1>4

(* A wake-up that finds a sleeper makes it runnable at exchange(2); one that
   finds none leaves nobody to forget. *)
LEMMA FutexWakeOneIInv ==
  ASSUME IInv, NEW t \in Threads, FutexWakeOne(t)
  PROVE  IInv'
<1> USE DEF IInv, TypeOK
<1>1. CASE At("asleep") = {}
  <2>1. pc' = [pc EXCEPT ![t] = "idle"] /\ mtx_state' = mtx_state /\ pc[t] = "wake"
    BY <1>1 DEF FutexWakeOne
  <2>2. TypeOK' /\ MutualExclusion' /\ LockWord'
    BY <2>1 DEF MutualExclusion, LockWord
  <2>3. NoLostWakeup'
    BY <1>1, <2>1 DEF NoLostWakeup
  <2> QED
    BY <2>2, <2>3
<1>2. CASE At("asleep") # {}
  <2>1. /\ mtx_state' = mtx_state
        /\ pc[t] = "wake"
        /\ \E u \in At("asleep") : pc' = [pc EXCEPT ![t] = "idle", ![u] = "xchg"]
    BY <1>2 DEF FutexWakeOne
  <2>2. PICK u \in Threads : /\ pc[u] = "asleep"
                             /\ pc' = [pc EXCEPT ![t] = "idle", ![u] = "xchg"]
    BY <2>1
  <2>3. TypeOK' /\ MutualExclusion' /\ LockWord'
    BY <2>1, <2>2 DEF MutualExclusion, LockWord
  <2>4. pc'[u] = "xchg"
    BY <2>1, <2>2
  <2>5. NoLostWakeup'
    BY <2>4 DEF NoLostWakeup
  <2> QED
    BY <2>3, <2>5
<1> QED
  BY <1>1, <1>2

(* Every step of every thread preserves the inductive invariant. *)
LEMMA NextIInv == IInv /\ [Next]_vars => IInv'
<1> SUFFICES ASSUME IInv, [Next]_vars PROVE IInv'
  OBVIOUS
<1>1. CASE UNCHANGED vars
  BY <1>1 DEF vars, IInv, TypeOK, MutualExclusion, LockWord, NoLostWakeup
<1>2. CASE Next
  <2>1. PICK t \in Threads : LockFast(t) \/ Step(t) \/ SpuriousWake(t)
    BY <1>2 DEF Next
  <2> QED
    BY <2>1, LockFastIInv, ExchangeIInv, FutexWaitIInv, SpuriousWakeIInv,
       UnlockExchangeIInv, FutexWakeOneIInv DEF Step
<1> QED
  BY <1>1, <1>2

(* The inductive invariant holds in every reachable state of hw-4's mutex. *)
THEOREM Invariance == Spec => []IInv
<1>1. IInv /\ [Next]_vars => IInv'
  BY NextIInv
<1> QED
  BY <1>1, InitIInv, PTL DEF Spec

(* The lock word stays in 0..2 and every thread at a known point of Lock() or
   Unlock(). *)
THEOREM TypeCorrect == Spec => []TypeOK
<1>1. IInv => TypeOK
  BY DEF IInv
<1> QED
  BY <1>1, Invariance, PTL

(* No two threads are ever between Lock() and Unlock() (mutex.h 22-46). *)
THEOREM MutexSafe == Spec => []MutualExclusion
<1>1. IInv => MutualExclusion
  BY DEF IInv
<1> QED
  BY <1>1, Invariance, PTL

(* A thread asleep in FutexWait always has somebody who will wake it: no
   interleaving of Lock() and Unlock() loses the wake-up. *)
THEOREM WakeupsNotLost == Spec => []NoLostWakeup
<1>1. IInv => NoLostWakeup
  BY DEF IInv
<1> QED
  BY <1>1, Invariance, PTL

-----------------------------------------------------------------------------
(* Every step of the mutex is an acquisition, a release or a stutter of the
   abstract lock. *)
LEMMA StepRefinement == IInv /\ [Next]_vars => [Lock!Next]_(At("cs"))
<1> SUFFICES ASSUME IInv, [Next]_vars
             PROVE  Lock!Next \/ At("cs")' = At("cs")
  OBVIOUS
<1> USE DEF IInv, TypeOK
<1>1. CASE UNCHANGED vars
  BY <1>1 DEF vars
<1>2. ASSUME NEW t \in Threads, LockFast(t)
      PROVE  Lock!Next \/ At("cs")' = At("cs")
  <2>1. CASE mtx_state = 0
    <3>1. At("cs") = {}
      BY <2>1 DEF LockWord
    <3>2. At("cs")' = {t}
      BY <1>2, <2>1, <3>1 DEF LockFast
    <3> QED
      BY <3>1, <3>2 DEF Lock!Next, Lock!Acquire
  <2>2. CASE mtx_state # 0
    BY <1>2, <2>2 DEF LockFast
  <2> QED
    BY <2>1, <2>2
<1>3. ASSUME NEW t \in Threads, Exchange(t)
      PROVE  Lock!Next \/ At("cs")' = At("cs")
  <2>1. CASE mtx_state = 0
    <3>1. At("cs") = {}
      BY <2>1 DEF LockWord
    <3>2. At("cs")' = {t}
      BY <1>3, <2>1, <3>1 DEF Exchange
    <3> QED
      BY <3>1, <3>2 DEF Lock!Next, Lock!Acquire
  <2>2. CASE mtx_state # 0
    BY <1>3, <2>2 DEF Exchange
  <2> QED
    BY <2>1, <2>2
<1>4. ASSUME NEW t \in Threads, UnlockExchange(t)
      PROVE  Lock!Next \/ At("cs")' = At("cs")
  <2>1. At("cs") = {t}
    BY <1>4 DEF UnlockExchange, MutualExclusion
  <2>2. At("cs")' = {}
    BY <1>4, <2>1 DEF UnlockExchange
  <2> QED
    BY <2>1, <2>2 DEF Lock!Next, Lock!Release
<1>5. ASSUME NEW t \in Threads, FutexWait(t) \/ SpuriousWake(t)
      PROVE  At("cs")' = At("cs")
  BY <1>5 DEF FutexWait, SpuriousWake
<1>6. ASSUME NEW t \in Threads, FutexWakeOne(t)
      PROVE  At("cs")' = At("cs")
  <2>1. pc[t] = "wake"
    BY <1>6 DEF FutexWakeOne
  <2>2. CASE pc' = [pc EXCEPT ![t] = "idle"]
    BY <2>1, <2>2
  <2>3. CASE \E u \in At("asleep") : pc' = [pc EXCEPT ![t] = "idle", ![u] = "xchg"]
    <3>1. PICK u \in Threads : /\ pc[u] = "asleep"
                               /\ pc' = [pc EXCEPT ![t] = "idle", ![u] = "xchg"]
      BY <2>3
    <3> QED
      BY <2>1, <3>1
  <2> QED
    BY <1>6, <2>2, <2>3 DEF FutexWakeOne
<1> QED
  BY <1>1, <1>2, <1>3, <1>4, <1>5, <1>6 DEF Next, Step

(* hw-4's mutex implements the abstract lock: Lock() returns only to a thread
   that found the lock free, and only the holder gives it back. *)
THEOREM Refinement == Spec => ImplementsLock
<1>1. Init => Lock!Init
  BY DEF Init, Lock!Init
<1>2. IInv /\ [Next]_vars => [Lock!Next]_(At("cs"))
  BY StepRefinement
<1> QED
  BY <1>1, <1>2, Invariance, PTL DEF Spec, ImplementsLock, Lock!Spec

=============================================================================
