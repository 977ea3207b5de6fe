--------------------------- MODULE ApplyFunction ---------------------------
(***************************************************************************)
(* hw-2: ApplyFunction(data, transform, threadCount) (apply_function.hpp). *)
(*                                                                         *)
(* One call of transform is one step, of the calling thread or of one of   *)
(* the threads it starts.  An exception that leaves a thread, or that      *)
(* destroys a vector of joinable threads, ends the program                 *)
(* (std::terminate); on the calling thread alone it reaches the caller.    *)
(***************************************************************************)
EXTENDS Integers, FiniteSets

CONSTANTS
  MaxSize,         \* bound: elements of data
  MaxThreadCount,  \* bound: the argument threadCount
  ThreadsMayFail   \* whether the system may refuse to start a thread

ASSUME ParametersAssumption ==
  /\ MaxSize \in Nat
  /\ MaxThreadCount \in Nat
  /\ ThreadsMayFail \in BOOLEAN

ThreadCounts == -1 .. MaxThreadCount

VARIABLES
  size,          \* data.size()
  threadCount,
  bad,           \* elements on which transform throws
  at,            \* where the calling thread is
  startIndex,    \* startIndexItemThread; the loop variable on a single thread
  chunk,         \* of each thread started: its bounds and its j
  joined,        \* threads joined
  applied        \* history: how often each element was transformed

vars == <<size, threadCount, bad, at, startIndex, chunk, joined, applied>>

Elements == 0 .. size - 1

Started == Cardinality(DOMAIN chunk)

(* Faulty variant: more threads than elements. *)
ActualThreadCountUnclamped == IF threadCount <= 0 THEN 1 ELSE threadCount

ActualThreadCount ==
  LET checkThreadCount == IF threadCount <= 0 THEN 1 ELSE threadCount
  IN  IF checkThreadCount > size THEN size ELSE checkThreadCount

(* Faulty variant: one thread too many gets one more. *)
ChunkSizeOffByOne(i) ==
  size \div ActualThreadCount + (IF i <= size % ActualThreadCount THEN 1 ELSE 0)

(* The elements that do not divide evenly go to the first threads. *)
ChunkSize(i) ==
  size \div ActualThreadCount + (IF i < size % ActualThreadCount THEN 1 ELSE 0)

Init ==
  /\ size \in 0 .. MaxSize
  /\ threadCount \in ThreadCounts
  /\ bad \in SUBSET Elements
  /\ at = "entry"
  /\ startIndex = 0
  /\ chunk = [t \in {} |-> [start |-> 0, j |-> 0, end |-> 0]]
  /\ joined = 0
  /\ applied = [e \in Elements |-> 0]

-----------------------------------------------------------------------------
Goto(l) == at' = l /\ UNCHANGED <<size, threadCount, bad>>

Entry ==
  /\ at = "entry"
  /\ Goto(IF size = 0 THEN "returned" ELSE IF ActualThreadCount = 1 THEN "single" ELSE "spawn")
  /\ UNCHANGED <<startIndex, chunk, joined, applied>>

(* A step of the loop on the calling thread. *)
ApplySingle ==
  /\ at = "single"
  /\ IF startIndex \in bad
     THEN Goto("threw") /\ UNCHANGED <<startIndex, applied>>
     ELSE /\ applied' = [applied EXCEPT ![startIndex] = @ + 1]
          /\ startIndex' = startIndex + 1
          /\ Goto(IF startIndex' = size THEN "returned" ELSE "single")
  /\ UNCHANGED <<chunk, joined>>

StartThread ==
  LET end == startIndex + ChunkSize(Started)
  IN  /\ at = "spawn"
      /\ chunk' = [t \in 0 .. Started |->
                     IF t = Started
                     THEN [start |-> startIndex, j |-> startIndex, end |-> end]
                     ELSE chunk[t]]
      /\ startIndex' = end
      /\ Goto(IF Started + 1 = ActualThreadCount THEN "join" ELSE "spawn")
      /\ UNCHANGED <<joined, applied>>

(* Faulty variant: the threads already started are left behind. *)
StartThreadFailsDetached ==
  /\ ThreadsMayFail /\ at = "spawn"
  /\ Goto("threw")
  /\ UNCHANGED <<startIndex, chunk, joined, applied>>

(* std::thread throws system_error; only the first one destroys no joinable thread. *)
StartThreadFails ==
  /\ ThreadsMayFail /\ at = "spawn"
  /\ Goto(IF Started = 0 THEN "threw" ELSE "terminated")
  /\ UNCHANGED <<startIndex, chunk, joined, applied>>

(* A step of thread t's loop. *)
ApplyInThread(t) ==
  LET j == chunk[t].j
  IN  /\ at # "terminated"
      /\ j < chunk[t].end
      /\ IF j \in bad
         THEN Goto("terminated") /\ UNCHANGED <<chunk, applied>>
         ELSE /\ applied' = [applied EXCEPT ![j] = @ + 1]
              /\ chunk' = [chunk EXCEPT ![t].j = j + 1]
              /\ Goto(at)
      /\ UNCHANGED <<startIndex, joined>>

(* The calling thread has waited for thread t, and goes on to the next. *)
JoinThread(t) ==
  /\ at = "join"
  /\ t \in DOMAIN chunk /\ chunk[t].j = chunk[t].end
  /\ joined' = joined + 1
  /\ Goto(IF joined' = Started THEN "returned" ELSE "join")
  /\ UNCHANGED <<startIndex, chunk, applied>>

(* Faulty variant: it does not wait. *)
JoinForgotten ==
  /\ at = "join"
  /\ Goto("returned")
  /\ UNCHANGED <<startIndex, chunk, joined, applied>>

(* Faulty variant: it starts with the second thread. *)
JoinOffByOne == JoinThread(joined + 1)

Join == JoinThread(joined)

Next ==
  \/ Entry \/ ApplySingle \/ StartThread \/ StartThreadFails \/ Join
  \/ \E t \in DOMAIN chunk : ApplyInThread(t)

(* The calling thread and each thread it started run. *)
Fairness ==
  /\ WF_vars(Entry \/ ApplySingle \/ StartThread \/ Join)
  /\ \A t \in 0 .. MaxSize : WF_vars(t \in DOMAIN chunk /\ ApplyInThread(t))

Spec == Init /\ [][Next]_vars /\ Fairness

-----------------------------------------------------------------------------
(* No thread is given an index beyond the data. *)
TypeOK ==
  /\ size \in 0 .. MaxSize
  /\ threadCount \in ThreadCounts
  /\ bad \subseteq Elements
  /\ at \in {"entry", "single", "spawn", "join", "returned", "threw", "terminated"}
  /\ startIndex \in 0 .. size
  /\ \A t \in DOMAIN chunk : chunk[t].end \in 0 .. size /\ chunk[t].j \in 0 .. chunk[t].end
  /\ joined \in 0 .. Started
  /\ applied \in [Elements -> Nat]

(* No element is transformed twice, and when the call returns every element has
   been, so no thread is still at work on the caller's vector
   (apply_function.hpp 27-49). *)
AppliedOnce ==
  /\ \A e \in Elements : applied[e] <= 1
  /\ at = "returned" => \A e \in Elements : applied[e] = 1

(* Once all threads are started none is idle, and no thread has more than one
   element more than another (apply_function.hpp 14-15, 27-34). *)
ChunksBalanced ==
  at \in {"join", "returned"} =>
    LET Share(t) == chunk[t].end - chunk[t].start
    IN  \A t, u \in DOMAIN chunk : Share(t) >= 1 /\ Share(t) <= Share(u) + 1

(* An exception reaches the caller only if no thread is left running, and then
   exactly the elements before the one that threw have been transformed
   (apply_function.hpp 18-23, 37). *)
CleanWhenThrown ==
  at = "threw" =>
    /\ DOMAIN chunk = {}
    /\ \A e \in Elements : applied[e] = (IF e < startIndex THEN 1 ELSE 0)
    /\ ActualThreadCount = 1 => startIndex \in bad /\ \A e \in bad : startIndex <= e

(* The call ends: it returns, throws, or ends the program. *)
Completes == <>(at \in {"returned", "threw", "terminated"})

============================================================================
