---------------------------- MODULE AbstractLock ----------------------------
(***************************************************************************)
(* What a mutual exclusion lock promises its clients, independently of how *)
(* it waits: a free lock is given to one thread, and only that thread      *)
(* gives it back.  hw-4's Mutex is shown to implement this (FutexMutex).   *)
(***************************************************************************)
CONSTANT Threads

VARIABLE holders      \* the threads that have the lock: none or one of them

Init == holders = {}

Acquire(t) ==
  /\ holders = {}
  /\ holders' = {t}

Release(t) ==
  /\ holders = {t}
  /\ holders' = {}

Next == \E t \in Threads : Acquire(t) \/ Release(t)

Spec == Init /\ [][Next]_holders

=============================================================================
