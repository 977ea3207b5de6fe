------------------------ MODULE ApplyFunctionProofs ------------------------
(***************************************************************************)
(* Proofs about hw-2's ApplyFunction, for data of any size, any            *)
(* threadCount, any elements on which transform throws and any order of    *)
(* the threads.                                                            *)
(*                                                                         *)
(* The argument is that chunks are handed out one behind the other, so     *)
(* that every element below startIndex is in exactly one of them, and that *)
(* startIndex has a closed form, so that it is size after the last chunk.  *)
(***************************************************************************)
EXTENDS ApplyFunction, FiniteSetTheorems, TLAPS

Chunk == [start : Nat, j : Nat, end : Nat]

(* Elements in the first i chunks. *)
Base == size \div ActualThreadCount
Rest == size % ActualThreadCount
Dealt(i) == i * Base + (IF i < Rest THEN i ELSE Rest)

(* Whoever was to transform element e has done so: the calling thread alone, or
   the thread in whose chunk it is. *)
Done(e) ==
  IF Started = 0 THEN e < startIndex
                 ELSE \E t \in 0 .. Started - 1 : chunk[t].start <= e /\ e < chunk[t].j

ArgumentsOK ==
  /\ size \in 0 .. MaxSize
  /\ threadCount \in ThreadCounts
  /\ bad \subseteq Elements
  /\ at \in {"entry", "single", "spawn", "join", "returned", "threw", "terminated"}

(* Chunks are as large as they should be and one behind the other. *)
ChunksOK ==
  /\ Started \in Nat
  /\ chunk \in [0 .. Started - 1 -> Chunk]
  /\ \A t \in 0 .. Started - 1 :
       /\ chunk[t].start <= chunk[t].j /\ chunk[t].j <= chunk[t].end
       /\ chunk[t].end <= startIndex
       /\ chunk[t].end = chunk[t].start + ChunkSize(t)
  /\ \A t, u \in 0 .. Started - 1 : t < u => chunk[t].end <= chunk[u].start

(* No element below startIndex lies between two chunks. *)
NoGaps ==
  Started # 0 =>
    \A e \in 0 .. startIndex - 1 :
      \E t \in 0 .. Started - 1 : chunk[t].start <= e /\ e < chunk[t].end

AppliedOK ==
  /\ applied \in [Elements -> Nat]
  /\ \A e \in Elements : applied[e] = IF Done(e) THEN 1 ELSE 0

(* Where the calling thread is, and what that says of the rest. *)
CallerOK ==
  /\ startIndex \in 0 .. size
  /\ joined \in 0 .. Started
  /\ \A t \in 0 .. Started - 1 : t < joined => chunk[t].j = chunk[t].end
  /\ Started = 0 => \A e \in bad : startIndex <= e
  /\ at = "spawn" \/ Started # 0 => ActualThreadCount \in 2 .. size
  /\ at = "entry" => Started = 0 /\ startIndex = 0
  /\ at = "single" => Started = 0 /\ ActualThreadCount = 1 /\ startIndex < size
  /\ at = "spawn" => Started < ActualThreadCount /\ startIndex = Dealt(Started) /\ joined = 0
  /\ at = "join" => joined < Started /\ startIndex = size
  /\ at = "returned" => joined = Started /\ startIndex = size
  /\ at = "threw" => Started = 0 /\ (ActualThreadCount = 1 => startIndex \in bad)

IInv == ArgumentsOK /\ ChunksOK /\ NoGaps /\ AppliedOK /\ CallerOK

-----------------------------------------------------------------------------
(* Arithmetic of the chunk sizes *)

(* Division with remainder. *)
LEMMA Division ==
  ASSUME NEW n \in Nat, NEW k \in Nat \ {0}
  PROVE  /\ n \div k \in Nat /\ n % k \in 0 .. k - 1
         /\ n = k * (n \div k) + (n % k)
OBVIOUS

(* Fewer of the same size are not more. *)
LEMMA Product ==
  ASSUME NEW b \in Nat, NEW k \in Nat, NEW i \in 0 .. k
  PROVE  /\ i * b \in Nat /\ i * b <= k * b /\ (i + 1) * b = i * b + b
<1>1. i * b \in Nat /\ (k - i) * b \in Nat /\ k * b = i * b + (k - i) * b
  OBVIOUS
<1>2. (i + 1) * b = i * b + b
  OBVIOUS
<1> QED
  BY <1>1, <1>2

(* Every thread gets something, the first Rest threads one element more; the next
   chunk ends where Dealt says, within the data, and the last one at its end. *)
LEMMA Deal ==
  ASSUME size \in Nat, ActualThreadCount \in 1 .. size, NEW i \in 0 .. ActualThreadCount - 1
  PROVE  /\ Base \in Nat \ {0} /\ ChunkSize(i) \in {Base, Base + 1}
         /\ Dealt(0) = 0 /\ Dealt(i) \in Nat
         /\ Dealt(i) + ChunkSize(i) = Dealt(i + 1)
         /\ Dealt(i + 1) <= size
         /\ i + 1 = ActualThreadCount => Dealt(i + 1) = size
<1> DEFINE k == ActualThreadCount
<1>1. /\ k \in Nat \ {0} /\ k <= size /\ i \in Nat /\ i < k /\ i + 1 \in 0 .. k
  OBVIOUS
<1>2. /\ Base \in Nat /\ Rest \in 0 .. k - 1 /\ size = k * Base + Rest
  BY <1>1, Division DEF Base, Rest
<1>3. ChunkSize(i) = Base + (IF i < Rest THEN 1 ELSE 0)
  BY DEF ChunkSize, Base, Rest
<1>4. /\ i * Base \in Nat /\ (i + 1) * Base \in Nat
      /\ (i + 1) * Base = i * Base + Base /\ (i + 1) * Base <= k * Base
  BY <1>1, <1>2, Product
<1>5. Base # 0
  BY <1>1, <1>2
<1>6. 0 * Base = 0
  BY <1>2
<1> HIDE DEF k
<1>7. Dealt(0) = 0
  BY <1>2, <1>6 DEF Dealt
<1>8. Dealt(i) = i * Base + (IF i < Rest THEN i ELSE Rest)
  BY DEF Dealt
<1>9. Dealt(i + 1) = (i + 1) * Base + (IF i + 1 < Rest THEN i + 1 ELSE Rest)
  BY DEF Dealt
<1>10. /\ Dealt(i) \in Nat /\ Dealt(i) + ChunkSize(i) = Dealt(i + 1) /\ Dealt(i + 1) <= size
  BY <1>1, <1>2, <1>3, <1>4, <1>8, <1>9
<1>11. i + 1 = k => Dealt(i + 1) = size
  BY <1>1, <1>2, <1>9
<1> QED
  BY <1>2, <1>3, <1>5, <1>7, <1>10, <1>11 DEF k

(* Started counts the threads. *)
LEMMA Count ==
  ASSUME NEW n \in Nat
  PROVE  Cardinality(0 .. n - 1) = n
BY FS_Interval

-----------------------------------------------------------------------------
(* The arguments are not changed. *)
LEMMA KeepArguments ==
  ASSUME UNCHANGED <<size, threadCount, bad>>
  PROVE  /\ ActualThreadCount' = ActualThreadCount /\ Elements' = Elements
         /\ Base' = Base /\ Rest' = Rest
         /\ \A t : ChunkSize(t)' = ChunkSize(t)
BY DEF ActualThreadCount, Elements, Base, Rest, ChunkSize

(* Nothing has been transformed when the call begins. *)
LEMMA InitIInv == Init => IInv
<1> SUFFICES ASSUME Init PROVE IInv
  OBVIOUS
<1>1. size \in Nat /\ DOMAIN chunk = {} /\ startIndex = 0 /\ joined = 0 /\ at = "entry"
  BY ParametersAssumption DEF Init
<1>2. Started = 0
  BY <1>1, FS_EmptySet DEF Started
<1>3. ArgumentsOK
  BY DEF Init, ArgumentsOK
<1>4. ChunksOK
  <2>1. 0 .. Started - 1 = {}
    BY <1>2
  <2>2. chunk \in [{} -> Chunk]
    BY DEF Init
  <2> QED
    BY <1>2, <2>1, <2>2 DEF ChunksOK
<1>5. NoGaps
  BY <1>2 DEF NoGaps
<1>6. AppliedOK
  BY <1>1, <1>2 DEF Init, AppliedOK, Done, Elements
<1>7. CallerOK
  BY <1>1, <1>2 DEF Init, CallerOK, Elements
<1> QED
  BY <1>3, <1>4, <1>5, <1>6, <1>7 DEF IInv

(* What the thread count is. *)
LEMMA ThreadCount ==
  ASSUME ArgumentsOK
  PROVE  /\ size \in Nat /\ ActualThreadCount \in 0 .. size
         /\ size # 0 => ActualThreadCount # 0
BY ParametersAssumption DEF ArgumentsOK, ThreadCounts, ActualThreadCount

(* The early return, and the choice between one thread and several. *)
LEMMA EntryIInv ==
  ASSUME IInv, Entry
  PROVE  IInv'
<1>1. /\ at = "entry" /\ UNCHANGED <<size, threadCount, bad, startIndex, chunk, joined, applied>>
      /\ at' = IF size = 0 THEN "returned" ELSE IF ActualThreadCount = 1 THEN "single" ELSE "spawn"
  BY DEF Entry, Goto
<1>2. /\ ActualThreadCount' = ActualThreadCount /\ Elements' = Elements
      /\ Base' = Base /\ Rest' = Rest /\ Started' = Started /\ \A t : ChunkSize(t)' = ChunkSize(t)
  BY <1>1, KeepArguments DEF Started
<1>3. size \in Nat /\ ActualThreadCount \in 0 .. size /\ (size # 0 => ActualThreadCount # 0)
  BY ThreadCount DEF IInv
<1>4. Started = 0 /\ startIndex = 0 /\ joined = 0
  BY <1>1 DEF IInv, CallerOK
<1>5. ArgumentsOK'
  BY <1>1, <1>2 DEF IInv, ArgumentsOK
<1>6. ChunksOK' /\ NoGaps' /\ AppliedOK'
  BY <1>1, <1>2 DEF IInv, ChunksOK, NoGaps, AppliedOK, Done
<1>7. CallerOK'
  <2>1. CASE at' = "spawn"
    <3>1. ActualThreadCount \in 2 .. size
      BY <1>1, <1>3, <2>1
    <3>2. 0 \in 0 .. ActualThreadCount - 1 /\ ActualThreadCount \in 1 .. size
      BY <1>3, <3>1
    <3>3. Dealt(0) = 0
      BY <1>3, <3>2, Deal
    <3>4. Dealt(Started)' = 0
      BY <1>2, <1>4, <3>3 DEF Dealt
    <3> QED
      BY <1>1, <1>2, <1>3, <1>4, <2>1, <3>1, <3>4 DEF IInv, CallerOK
  <2>2. CASE at' # "spawn"
    BY <1>1, <1>2, <1>3, <1>4, <2>2 DEF IInv, CallerOK
  <2> QED
    BY <2>1, <2>2
<1> QED
  BY <1>5, <1>6, <1>7 DEF IInv

(* A step of the calling thread's own loop. *)
LEMMA ApplySingleIInv ==
  ASSUME IInv, ApplySingle
  PROVE  IInv'
<1>1. /\ at = "single" /\ UNCHANGED <<size, threadCount, bad, chunk, joined>>
  BY DEF ApplySingle, Goto
<1>2. /\ ActualThreadCount' = ActualThreadCount /\ Elements' = Elements
      /\ Started' = Started /\ \A t : ChunkSize(t)' = ChunkSize(t)
  BY <1>1, KeepArguments DEF Started
<1>3. /\ size \in Nat /\ Started = 0 /\ ActualThreadCount = 1 /\ joined = 0
      /\ startIndex \in 0 .. size /\ startIndex < size
  BY <1>1, ThreadCount DEF IInv, CallerOK
<1>4. 0 .. Started - 1 = {}
  BY <1>3
<1>5. CASE startIndex \in bad
  <2>1. at' = "threw" /\ UNCHANGED <<startIndex, applied>>
    BY <1>5 DEF ApplySingle, Goto
  <2>2. ArgumentsOK'
    BY <1>1, <1>2, <2>1 DEF IInv, ArgumentsOK
  <2>3. ChunksOK' /\ NoGaps' /\ AppliedOK'
    BY <1>1, <1>2, <2>1 DEF IInv, ChunksOK, NoGaps, AppliedOK, Done
  <2>4. CallerOK'
    BY <1>1, <1>2, <1>3, <1>4, <1>5, <2>1 DEF IInv, CallerOK
  <2> QED
    BY <2>2, <2>3, <2>4 DEF IInv
<1>6. CASE startIndex \notin bad
  <2>1. /\ applied' = [applied EXCEPT ![startIndex] = @ + 1]
        /\ startIndex' = startIndex + 1
        /\ at' = IF startIndex' = size THEN "returned" ELSE "single"
    BY <1>6 DEF ApplySingle, Goto
  <2>2. ArgumentsOK'
    BY <1>1, <1>2, <2>1 DEF IInv, ArgumentsOK
  <2>3. ChunksOK' /\ NoGaps'
    BY <1>1, <1>2, <1>3, <1>4 DEF IInv, ChunksOK, NoGaps
  <2>4. AppliedOK'
    <3>1. /\ applied \in [Elements -> Nat] /\ startIndex \in Elements
          /\ \A e \in Elements : applied[e] = IF e < startIndex THEN 1 ELSE 0
      BY <1>3 DEF IInv, AppliedOK, Done, Elements
    <3>2. /\ applied' \in [Elements -> Nat]
          /\ \A e \in Elements : applied'[e] = IF e < startIndex' THEN 1 ELSE 0
      BY <2>1, <3>1, <1>3 DEF Elements
    <3> QED
      BY <1>2, <1>3, <3>2 DEF AppliedOK, Done
  <2>5. CallerOK'
    <3>1. \A e \in bad : startIndex + 1 <= e
      BY <1>3, <1>6 DEF IInv, CallerOK, ArgumentsOK, Elements
    <3>2. /\ startIndex + 1 \in 0 .. size
          /\ startIndex + 1 # size => startIndex + 1 < size
      BY <1>3
    <3> QED
      BY <1>1, <1>2, <1>3, <1>4, <2>1, <3>1, <3>2 DEF IInv, CallerOK
  <2> QED
    BY <2>2, <2>3, <2>4, <2>5 DEF IInv
<1> QED
  BY <1>5, <1>6

(* The next chunk is dealt out behind the last one. *)
LEMMA StartThreadIInv ==
  ASSUME IInv, StartThread
  PROVE  IInv'
<1> DEFINE n == Started
           end == startIndex + ChunkSize(n)
<1>1. /\ at = "spawn" /\ UNCHANGED <<size, threadCount, bad, joined, applied>>
      /\ startIndex' = end
      /\ chunk' = [t \in 0 .. n |->
                     IF t = n THEN [start |-> startIndex, j |-> startIndex, end |-> end]
                              ELSE chunk[t]]
      /\ at' = IF n + 1 = ActualThreadCount THEN "join" ELSE "spawn"
  BY DEF StartThread, Goto
<1>2. /\ ActualThreadCount' = ActualThreadCount /\ Elements' = Elements
      /\ Base' = Base /\ Rest' = Rest /\ \A t : ChunkSize(t)' = ChunkSize(t)
  BY <1>1, KeepArguments
<1>3. /\ size \in Nat /\ n \in Nat /\ ActualThreadCount \in 2 .. size /\ n < ActualThreadCount
      /\ startIndex = Dealt(n) /\ startIndex \in 0 .. size /\ joined = 0
  BY <1>1, ThreadCount DEF IInv, ChunksOK, CallerOK
<1>4. /\ ChunkSize(n) \in Nat /\ Dealt(n) + ChunkSize(n) = Dealt(n + 1) /\ Dealt(n + 1) <= size
      /\ n + 1 = ActualThreadCount => Dealt(n + 1) = size
      /\ n = 0 => startIndex = 0
  <2>1. ActualThreadCount \in 1 .. size /\ n \in 0 .. ActualThreadCount - 1
    BY <1>3
  <2>2. /\ Base \in Nat \ {0} /\ ChunkSize(n) \in {Base, Base + 1} /\ Dealt(0) = 0
        /\ Dealt(n) + ChunkSize(n) = Dealt(n + 1) /\ Dealt(n + 1) <= size
        /\ n + 1 = ActualThreadCount => Dealt(n + 1) = size
    BY <1>3, <2>1, Deal
  <2> QED
    BY <1>3, <2>2
<1>5. end \in 0 .. size /\ startIndex <= end /\ end = Dealt(n + 1) /\ end \in Nat
  BY <1>3, <1>4
<1>6. Started' = n + 1
  <2>1. DOMAIN chunk' = 0 .. (n + 1) - 1
    BY <1>1, <1>3
  <2> QED
    BY <1>3, <2>1, Count DEF Started
<1>7. 0 .. Started' - 1 = (0 .. n - 1) \cup {n} /\ n \notin 0 .. n - 1
  BY <1>3, <1>6
<1> HIDE DEF n, end
<1>8. chunk \in [0 .. n - 1 -> Chunk]
  BY DEF IInv, ChunksOK, n
<1>9. /\ chunk'[n] = [start |-> startIndex, j |-> startIndex, end |-> end]
      /\ \A t \in 0 .. n - 1 : chunk'[t] = chunk[t]
  BY <1>1, <1>3
<1>10. chunk'[n].start = startIndex /\ chunk'[n].j = startIndex /\ chunk'[n].end = end
  BY <1>9
<1>11. ArgumentsOK'
  BY <1>1, <1>2 DEF IInv, ArgumentsOK
<1>12. ChunksOK'
  <2>1. chunk' \in [0 .. Started' - 1 -> Chunk]
    BY <1>1, <1>3, <1>5, <1>6, <1>8 DEF Chunk
  <2>2. \A t \in 0 .. n - 1 :
          /\ chunk[t].start <= chunk[t].j /\ chunk[t].j <= chunk[t].end
          /\ chunk[t].end <= startIndex /\ chunk[t].end \in Nat
          /\ chunk[t].end = chunk[t].start + ChunkSize(t)
    BY <1>8 DEF IInv, ChunksOK, n, Chunk
  <2>3. \A t \in 0 .. n - 1 :
          /\ chunk'[t].start <= chunk'[t].j /\ chunk'[t].j <= chunk'[t].end
          /\ chunk'[t].end <= end
          /\ chunk'[t].end = chunk'[t].start + ChunkSize(t)
    BY <1>3, <1>5, <1>9, <2>2
  <2>4. /\ chunk'[n].start <= chunk'[n].j /\ chunk'[n].j <= chunk'[n].end
        /\ chunk'[n].end <= end
        /\ chunk'[n].end = chunk'[n].start + ChunkSize(n)
    BY <1>3, <1>5, <1>10 DEF end
  <2>5. \A t, u \in 0 .. Started' - 1 : t < u => chunk'[t].end <= chunk'[u].start
    <3> SUFFICES ASSUME NEW t \in 0 .. Started' - 1, NEW u \in 0 .. Started' - 1, t < u
                 PROVE  chunk'[t].end <= chunk'[u].start
      OBVIOUS
    <3>1. t \in 0 .. n - 1
      BY <1>3, <1>6
    <3>2. CASE u = n
      BY <1>9, <1>10, <2>2, <3>1, <3>2
    <3>3. CASE u \in 0 .. n - 1
      BY <1>9, <3>1, <3>3 DEF IInv, ChunksOK, n
    <3> QED
      BY <1>7, <3>2, <3>3
  <2> QED
    BY <1>1, <1>2, <1>3, <1>6, <1>7, <2>1, <2>3, <2>4, <2>5 DEF ChunksOK
<1>13. NoGaps'
  <2> SUFFICES ASSUME NEW e \in 0 .. end - 1
               PROVE  \E t \in (0 .. n - 1) \cup {n} : chunk'[t].start <= e /\ e < chunk'[t].end
    BY <1>1, <1>7 DEF NoGaps
  <2>1. CASE startIndex <= e
    <3>1. chunk'[n].start <= e /\ e < chunk'[n].end
      BY <1>5, <1>10, <2>1
    <3> QED
      BY <3>1
  <2>2. CASE ~(startIndex <= e)
    <3>1. e \in 0 .. startIndex - 1 /\ n # 0
      BY <1>3, <1>4, <1>5, <2>2
    <3>2. PICK t \in 0 .. n - 1 : chunk[t].start <= e /\ e < chunk[t].end
      BY <3>1 DEF IInv, NoGaps, n
    <3> QED
      BY <1>9, <3>2
  <2> QED
    BY <2>1, <2>2
<1>14. AppliedOK'
  <2>1. ASSUME NEW e \in Elements
        PROVE  Done(e)' <=> Done(e)
    <3>1. e \in Nat
      BY <1>3 DEF Elements
    <3>2. Done(e)' <=> \E t \in (0 .. n - 1) \cup {n} : chunk'[t].start <= e /\ e < chunk'[t].j
      BY <1>3, <1>6, <1>7 DEF Done
    <3>3. Done(e)' <=> \E t \in 0 .. n - 1 : chunk[t].start <= e /\ e < chunk[t].j
      BY <1>3, <1>9, <1>10, <3>1, <3>2
    <3>4. CASE n = 0
      BY <1>4, <3>1, <3>3, <3>4 DEF Done, n
    <3>5. CASE n # 0
      BY <3>3, <3>5 DEF Done, n
    <3> QED
      BY <3>4, <3>5
  <2> QED
    BY <1>1, <1>2, <2>1 DEF IInv, AppliedOK
<1>15. CallerOK'
  <2>1. Dealt(Started)' = Dealt(n + 1)
    BY <1>2, <1>6 DEF Dealt
  <2>2. /\ joined' = 0 /\ Started' \in Nat /\ Started' # 0 /\ startIndex' \in 0 .. size
        /\ startIndex' = Dealt(n + 1) /\ at' \in {"join", "spawn"}
    BY <1>1, <1>3, <1>5, <1>6
  <2>3. \A t \in 0 .. Started' - 1 : ~(t < 0)
    BY <2>2
  <2>4. at' = "join" => startIndex' = size
    BY <1>1, <1>4, <1>5 DEF n
  <2>5. at' = "spawn" => Started' < ActualThreadCount
    BY <1>1, <1>3, <1>6 DEF n
  <2>6. size' = size /\ joined' < Started' /\ joined' \in 0 .. Started'
    BY <1>1, <2>2
  <2>7. startIndex' = Dealt(Started)'
    BY <2>1, <2>2
  <2>8. ActualThreadCount' = ActualThreadCount /\ ActualThreadCount \in 2 .. size
    BY <1>2, <1>3
  <2> QED
    BY <2>2, <2>3, <2>4, <2>5, <2>6, <2>7, <2>8 DEF CallerOK
<1> QED
  BY <1>11, <1>12, <1>13, <1>14, <1>15 DEF IInv

(* A thread that cannot be started. *)
LEMMA StartThreadFailsIInv ==
  ASSUME IInv, StartThreadFails
  PROVE  IInv'
<1>1. /\ at = "spawn" /\ UNCHANGED <<size, threadCount, bad, startIndex, chunk, joined, applied>>
      /\ at' = IF Started = 0 THEN "threw" ELSE "terminated"
  BY DEF StartThreadFails, Goto
<1>2. /\ ActualThreadCount' = ActualThreadCount /\ Elements' = Elements
      /\ Started' = Started /\ \A t : ChunkSize(t)' = ChunkSize(t)
  BY <1>1, KeepArguments DEF Started
<1>3. ArgumentsOK'
  BY <1>1, <1>2 DEF IInv, ArgumentsOK
<1>4. ChunksOK' /\ NoGaps' /\ AppliedOK'
  BY <1>1, <1>2 DEF IInv, ChunksOK, NoGaps, AppliedOK, Done
<1>5. CallerOK'
  <2>1. ActualThreadCount # 1
    BY <1>1, ThreadCount DEF IInv, CallerOK
  <2> QED
    BY <1>1, <1>2, <2>1 DEF IInv, CallerOK
<1> QED
  BY <1>3, <1>4, <1>5 DEF IInv

(* A thread transforms the next element of its own chunk. *)
LEMMA ApplyInThreadIInv ==
  ASSUME IInv, NEW t \in DOMAIN chunk, ApplyInThread(t)
  PROVE  IInv'
<1> DEFINE j == chunk[t].j
<1>1. /\ j < chunk[t].end /\ UNCHANGED <<size, threadCount, bad, startIndex, joined>>
  BY DEF ApplyInThread, Goto
<1>2. /\ ActualThreadCount' = ActualThreadCount /\ Elements' = Elements
      /\ Base' = Base /\ Rest' = Rest /\ \A u : ChunkSize(u)' = ChunkSize(u)
  BY <1>1, KeepArguments
<1>3. /\ Started \in Nat /\ chunk \in [0 .. Started - 1 -> Chunk]
      /\ t \in 0 .. Started - 1 /\ Started # 0 /\ size \in Nat /\ startIndex \in 0 .. size
  BY ThreadCount DEF IInv, ChunksOK, CallerOK
<1>4. /\ chunk[t] \in Chunk /\ j \in Nat /\ chunk[t].start \in Nat /\ chunk[t].end \in Nat
      /\ chunk[t].start <= j /\ chunk[t].end <= size /\ chunk[t].end <= startIndex
  BY <1>3 DEF IInv, ChunksOK, Chunk
<1>5. j \in Elements
  BY <1>1, <1>3, <1>4 DEF Elements
<1>6. CASE j \in bad
  <2>1. at' = "terminated" /\ UNCHANGED <<chunk, applied>>
    BY <1>6 DEF ApplyInThread, Goto
  <2>2. Started' = Started
    BY <2>1 DEF Started
  <2>3. ArgumentsOK'
    BY <1>1, <1>2, <2>1 DEF IInv, ArgumentsOK
  <2>4. ChunksOK' /\ NoGaps' /\ AppliedOK'
    BY <1>1, <1>2, <2>1, <2>2 DEF IInv, ChunksOK, NoGaps, AppliedOK, Done
  <2>5. CallerOK'
    BY <1>1, <1>2, <2>1, <2>2 DEF IInv, CallerOK
  <2> QED
    BY <2>3, <2>4, <2>5 DEF IInv
<1>7. CASE j \notin bad
  <2>1. /\ applied' = [applied EXCEPT ![j] = @ + 1] /\ at' = at
        /\ chunk' = [chunk EXCEPT ![t].j = j + 1]
    BY <1>7 DEF ApplyInThread, Goto
  <2> HIDE DEF j
  <2>2. /\ chunk'[t] = [chunk[t] EXCEPT !.j = j + 1]
        /\ \A u \in (0 .. Started - 1) \ {t} : chunk'[u] = chunk[u]
        /\ DOMAIN chunk' = DOMAIN chunk
    BY <1>3, <2>1
  <2>3. /\ chunk'[t].start = chunk[t].start /\ chunk'[t].end = chunk[t].end
        /\ chunk'[t].j = j + 1 /\ chunk'[t] \in Chunk
    BY <1>4, <2>2 DEF Chunk
  <2>4. /\ \A u \in 0 .. Started - 1 : /\ chunk'[u].start = chunk[u].start
                                       /\ chunk'[u].end = chunk[u].end
        /\ \A u \in (0 .. Started - 1) \ {t} : chunk'[u].j = chunk[u].j
        /\ chunk' \in [0 .. Started - 1 -> Chunk]
    <3>1. \A u \in 0 .. Started - 1 : chunk'[u] \in Chunk
      BY <1>3, <2>2, <2>3
    <3>2. chunk' = [u \in 0 .. Started - 1 |-> chunk'[u]]
      BY <1>3, <2>1
    <3> QED
      BY <2>2, <2>3, <3>1, <3>2
  <2>5. Started' = Started
    BY <2>2 DEF Started
  <2>6. ArgumentsOK'
    BY <1>1, <1>2, <2>1 DEF IInv, ArgumentsOK
  <2>7. ChunksOK'
    <3>1. j + 1 <= chunk[t].end /\ chunk[t].start <= j + 1
      BY <1>1, <1>4 DEF j
    <3>2. \A u \in 0 .. Started - 1 :
            chunk'[u].start <= chunk'[u].j /\ chunk'[u].j <= chunk'[u].end
      BY <2>3, <2>4, <3>1 DEF IInv, ChunksOK
    <3> QED
      BY <1>1, <1>2, <1>3, <2>4, <2>5, <3>2 DEF IInv, ChunksOK
  <2>8. NoGaps'
    BY <1>1, <2>4, <2>5 DEF IInv, NoGaps
  <2>9. AppliedOK'
    <3>1. ASSUME NEW e \in Elements
          PROVE  Done(e)' <=> Done(e) \/ e = j
      <4>1. e \in Nat
        BY <1>3 DEF Elements
      <4>2. Done(e)' <=> \E u \in 0 .. Started - 1 : chunk'[u].start <= e /\ e < chunk'[u].j
        BY <1>3, <2>5 DEF Done
      <4>3. Done(e) <=> \E u \in 0 .. Started - 1 : chunk[u].start <= e /\ e < chunk[u].j
        BY <1>3 DEF Done
      <4>4. chunk[t].start <= e /\ e < j + 1
              <=> (chunk[t].start <= e /\ e < chunk[t].j) \/ e = j
        BY <1>4, <4>1 DEF j
      <4> QED
        BY <1>3, <2>3, <2>4, <4>2, <4>3, <4>4
    <3>2. ~Done(j)
      <4> SUFFICES ASSUME NEW u \in 0 .. Started - 1, chunk[u].start <= j, j < chunk[u].j
                   PROVE  FALSE
        BY <1>3 DEF Done
      <4>1. /\ chunk[u].start \in Nat /\ chunk[u].j \in Nat /\ chunk[u].end \in Nat
            /\ chunk[u].j <= chunk[u].end
        BY <1>3 DEF IInv, ChunksOK, Chunk
      <4>2. CASE u = t
        BY <1>4, <4>2 DEF j
      <4>3. CASE u < t
        <5>1. chunk[u].end <= chunk[t].start
          BY <1>3, <4>3 DEF IInv, ChunksOK
        <5> QED
          BY <1>4, <4>1, <5>1
      <4>4. CASE t < u
        <5>1. chunk[t].end <= chunk[u].start
          BY <1>3, <4>4 DEF IInv, ChunksOK
        <5>2. j < chunk[t].end
          BY <1>1 DEF j
        <5> QED
          BY <1>4, <4>1, <5>1, <5>2
      <4> QED
        BY <1>3, <4>2, <4>3, <4>4
    <3>3. /\ applied \in [Elements -> Nat]
          /\ \A e \in Elements : applied[e] = IF Done(e) THEN 1 ELSE 0
      BY DEF IInv, AppliedOK
    <3>4. /\ applied' \in [Elements -> Nat] /\ applied'[j] = 1
          /\ \A e \in Elements \ {j} : applied'[e] = applied[e]
      BY <1>5, <2>1, <3>2, <3>3 DEF j
    <3> QED
      BY <1>2, <1>5, <3>1, <3>3, <3>4 DEF AppliedOK, j
  <2>10. CallerOK'
    <3>1. Dealt(Started)' = Dealt(Started)
      BY <1>2, <2>5 DEF Dealt
    <3>2. ~(t < joined)
      BY <1>1, <1>3, <1>4 DEF IInv, CallerOK, j
    <3>3. \A u \in 0 .. Started - 1 : u < joined => chunk'[u].j = chunk'[u].end
      BY <2>4, <3>2 DEF IInv, CallerOK
    <3> QED
      BY <1>1, <1>2, <1>3, <2>1, <2>5, <3>1, <3>3 DEF IInv, CallerOK
  <2> QED
    BY <2>6, <2>7, <2>8, <2>9, <2>10 DEF IInv
<1> QED
  BY <1>6, <1>7

(* The calling thread has waited for the next thread. *)
LEMMA JoinIInv ==
  ASSUME IInv, Join
  PROVE  IInv'
<1>1. /\ at = "join" /\ UNCHANGED <<size, threadCount, bad, startIndex, chunk, applied>>
      /\ chunk[joined].j = chunk[joined].end /\ joined' = joined + 1
      /\ at' = IF joined' = Started THEN "returned" ELSE "join"
  BY DEF Join, JoinThread, Goto
<1>2. /\ ActualThreadCount' = ActualThreadCount /\ Elements' = Elements
      /\ Started' = Started /\ \A t : ChunkSize(t)' = ChunkSize(t)
  BY <1>1, KeepArguments DEF Started
<1>3. ArgumentsOK'
  BY <1>1, <1>2 DEF IInv, ArgumentsOK
<1>4. ChunksOK' /\ NoGaps' /\ AppliedOK'
  BY <1>1, <1>2 DEF IInv, ChunksOK, NoGaps, AppliedOK, Done
<1>5. CallerOK'
  <2>1. Started \in Nat /\ joined \in 0 .. Started /\ joined < Started /\ startIndex = size
    BY <1>1 DEF IInv, ChunksOK, CallerOK
  <2>2. /\ joined' \in 0 .. Started /\ joined' # Started => joined' < Started
    BY <1>1, <2>1
  <2>3. \A t \in 0 .. Started - 1 : t < joined' => chunk[t].j = chunk[t].end
    <3> SUFFICES ASSUME NEW t \in 0 .. Started - 1, t < joined'
                 PROVE  chunk[t].j = chunk[t].end
      OBVIOUS
    <3>1. t < joined \/ t = joined
      BY <1>1, <2>1
    <3> QED
      BY <1>1, <3>1 DEF IInv, CallerOK
  <2>4. joined' \in 0 .. Started
    BY <1>1, <2>1
  <2> QED
    BY <1>1, <1>2, <2>1, <2>2, <2>3, <2>4 DEF IInv, CallerOK
<1> QED
  BY <1>3, <1>4, <1>5 DEF IInv

(* A step that changes nothing. *)
LEMMA StutterIInv ==
  ASSUME IInv, UNCHANGED vars
  PROVE  IInv'
<1>1. UNCHANGED <<size, threadCount, bad, at, startIndex, chunk, joined, applied>>
  BY DEF vars
<1>2. /\ ActualThreadCount' = ActualThreadCount /\ Elements' = Elements
      /\ Base' = Base /\ Rest' = Rest
      /\ Started' = Started /\ \A t : ChunkSize(t)' = ChunkSize(t)
  BY <1>1, KeepArguments DEF Started
<1>3. ArgumentsOK' /\ ChunksOK' /\ NoGaps' /\ AppliedOK'
  BY <1>1, <1>2 DEF IInv, ArgumentsOK, ChunksOK, NoGaps, AppliedOK, Done
<1>4. CallerOK'
  BY <1>1, <1>2 DEF IInv, CallerOK, Dealt
<1> QED
  BY <1>3, <1>4 DEF IInv

-----------------------------------------------------------------------------
(* The invariant holds throughout. *)
THEOREM Invariance == Spec => []IInv
<1>1. Init => IInv
  BY InitIInv
<1>2. IInv /\ [Next]_vars => IInv'
  BY EntryIInv, ApplySingleIInv, StartThreadIInv, StartThreadFailsIInv, ApplyInThreadIInv,
     JoinIInv, StutterIInv DEF Next
<1> QED
  BY <1>1, <1>2, PTL DEF Spec

(* No thread is given an index beyond the data. *)
THEOREM TypeCorrect == Spec => []TypeOK
<1>1. IInv => TypeOK
  <2> SUFFICES ASSUME IInv PROVE TypeOK
    OBVIOUS
  <2>1. size \in Nat /\ startIndex \in 0 .. size /\ DOMAIN chunk = 0 .. Started - 1
    BY ThreadCount DEF IInv, CallerOK, ChunksOK
  <2>2. \A t \in DOMAIN chunk : chunk[t].end \in 0 .. size /\ chunk[t].j \in 0 .. chunk[t].end
    <3> SUFFICES ASSUME NEW t \in 0 .. Started - 1
                 PROVE  chunk[t].end \in 0 .. size /\ chunk[t].j \in 0 .. chunk[t].end
      BY <2>1
    <3>1. /\ chunk[t] \in Chunk /\ chunk[t].j <= chunk[t].end /\ chunk[t].end <= startIndex
      BY DEF IInv, ChunksOK
    <3> QED
      BY <2>1, <3>1 DEF Chunk
  <2> QED
    BY <2>1, <2>2 DEF IInv, TypeOK, ArgumentsOK, AppliedOK, CallerOK
<1> QED
  BY <1>1, Invariance, PTL

(* No element is transformed twice, and none is left out when the call returns,
   however many threads share the data and however they interleave. *)
THEOREM OnceEach == Spec => []AppliedOnce
<1>1. IInv => AppliedOnce
  <2> SUFFICES ASSUME IInv, NEW e \in Elements
               PROVE  applied[e] <= 1 /\ (at = "returned" => applied[e] = 1)
    BY DEF AppliedOnce
  <2>1. applied[e] = IF Done(e) THEN 1 ELSE 0
    BY DEF IInv, AppliedOK
  <2>2. ASSUME at = "returned"
        PROVE  Done(e)
    <3>1. joined = Started /\ startIndex = size /\ e \in 0 .. startIndex - 1 /\ Started \in Nat
      BY <2>2 DEF IInv, CallerOK, ChunksOK, Elements
    <3>2. CASE Started = 0
      BY <3>1, <3>2, ThreadCount DEF Done, IInv
    <3>3. CASE Started # 0
      <4>1. PICK t \in 0 .. Started - 1 : chunk[t].start <= e /\ e < chunk[t].end
        BY <3>1, <3>3 DEF IInv, NoGaps
      <4>2. chunk[t].j = chunk[t].end
        BY <3>1 DEF IInv, CallerOK
      <4> QED
        BY <3>3, <4>1, <4>2 DEF Done
    <3> QED
      BY <3>2, <3>3
  <2> QED
    BY <2>1, <2>2
<1> QED
  BY <1>1, Invariance, PTL

(* Once all threads are started none is idle, and no thread has more than one
   element more than another. *)
THEOREM Balanced == Spec => []ChunksBalanced
<1>1. IInv => ChunksBalanced
  <2> SUFFICES ASSUME IInv, at \in {"join", "returned"},
                      NEW t \in DOMAIN chunk, NEW u \in DOMAIN chunk
               PROVE  /\ chunk[t].end - chunk[t].start >= 1
                      /\ chunk[t].end - chunk[t].start <= (chunk[u].end - chunk[u].start) + 1
    BY DEF ChunksBalanced
  <2>1. /\ Started \in Nat /\ DOMAIN chunk = 0 .. Started - 1
        /\ \A v \in 0 .. Started - 1 : /\ chunk[v] \in Chunk
                                       /\ chunk[v].end = chunk[v].start + ChunkSize(v)
    BY DEF IInv, ChunksOK
  <2>2. Started # 0 /\ ActualThreadCount \in 2 .. size /\ size \in Nat
    BY <2>1, ThreadCount DEF IInv, CallerOK
  <2>3. ActualThreadCount \in Nat \ {0} /\ ActualThreadCount <= size
    BY <2>2
  <2>4. Base \in Nat \ {0}
    BY <2>2, <2>3, Deal
  <2>5. \A v : ChunkSize(v) \in {Base, Base + 1}
    BY <2>4 DEF ChunkSize, Base
  <2>6. ASSUME NEW v \in 0 .. Started - 1
        PROVE  chunk[v].end - chunk[v].start \in {Base, Base + 1}
    <3>1. /\ chunk[v].start \in Nat /\ chunk[v].end = chunk[v].start + ChunkSize(v)
      BY <2>1 DEF Chunk
    <3>2. ChunkSize(v) \in Nat /\ ChunkSize(v) \in {Base, Base + 1}
      BY <2>4, <2>5
    <3>3. chunk[v].end - chunk[v].start = ChunkSize(v)
      BY <3>1, <3>2
    <3> QED
      BY <3>2, <3>3
  <2>7. /\ chunk[t].end - chunk[t].start \in {Base, Base + 1}
        /\ chunk[u].end - chunk[u].start \in {Base, Base + 1}
    BY <2>1, <2>6
  <2> QED
    BY <2>4, <2>7
<1> QED
  BY <1>1, Invariance, PTL

(* An exception reaches the caller only if no thread is left running, and then
   exactly the elements before the one that threw have been transformed. *)
THEOREM CleanThrow == Spec => []CleanWhenThrown
<1>1. IInv => CleanWhenThrown
  <2> SUFFICES ASSUME IInv, at = "threw"
               PROVE  /\ DOMAIN chunk = {}
                      /\ \A e \in Elements : applied[e] = (IF e < startIndex THEN 1 ELSE 0)
                      /\ ActualThreadCount = 1 => startIndex \in bad /\ \A e \in bad : startIndex <= e
    BY DEF CleanWhenThrown
  <2>1. Started = 0 /\ DOMAIN chunk = 0 .. Started - 1
    BY DEF IInv, CallerOK, ChunksOK
  <2>2. DOMAIN chunk = {}
    BY <2>1
  <2> QED
    BY <2>1, <2>2 DEF IInv, CallerOK, AppliedOK, Done
<1> QED
  BY <1>1, Invariance, PTL

============================================================================
