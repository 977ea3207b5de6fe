------------------------ MODULE CooperativeDfsProofs ------------------------
(***************************************************************************)
(* Proofs about hw-1's CooperativeDFS, for every graph.                    *)
(*                                                                         *)
(* The argument is the first round of the scheduler.  CooperativeDFS has   *)
(* spawned a coroutine for every vertex before Run resumes the first, and  *)
(* the queue is first in, first out, so every coroutine enters its own     *)
(* start vertex before any of them follows an edge.  From then on every    *)
(* vertex is visited, and a coroutine's stack holds its start vertex only. *)
(***************************************************************************)
EXTENDS CooperativeDfs, Counting, SequenceTheorems

StackEntries == [vertex : Int, edge : Int]

Frames == [at : {"start", "loop", "edge"}, stack : Seq(StackEntries), to : Int, turns : Nat]

(* All edges of c lead to vertices. *)
AllValid(c) == \A i \in 1 .. Len(adj[c]) : adj[c][i] \in Vertices

GraphOK ==
  /\ VertexCount \in Nat /\ Vertices = 0 .. VertexCount - 1
  /\ adj \in [Vertices -> Seq(Int)]

(* Vertices are entered in the order of their indices. *)
OrderOK ==
  /\ order \in Seq(Int) /\ Len(order) <= VertexCount
  /\ order = [i \in 1 .. Len(order) |-> i - 1]
  /\ visited = 0 .. Len(order) - 1

QueueOK ==
  /\ queue \in Seq(Vertices)
  /\ Range(queue) = DOMAIN frame
  /\ IsInjective(queue)

(* A frame's stack: its own vertex and the next edge, those before it being valid. *)
StackOK(c) ==
  LET stack == frame[c].stack
  IN  \/ stack = <<>> /\ (frame[c].at = "start" \/ AllValid(c))
      \/ /\ Len(stack) = 1 /\ stack[1].vertex = c
         /\ stack[1].edge \in 1 .. Len(adj[c]) + 1
         /\ \A i \in 1 .. stack[1].edge - 1 : adj[c][i] \in Vertices

FramesOK ==
  /\ frame \in [DOMAIN frame -> Frames] /\ DOMAIN frame \subseteq Vertices
  /\ \A c \in DOMAIN frame : frame[c].to \in Vertices /\ StackOK(c)
  /\ \A c \in DOMAIN frame : /\ frame[c].at = "start" <=> Len(order) <= c
                             /\ frame[c].at = "start" => frame[c].turns = 0

(* Until every vertex has been entered nothing ends, and the coroutines that have
   not started yet are at the front of the queue, in the order of their indices. *)
FirstRound ==
  Len(order) < VertexCount =>
    /\ outcome = "none" /\ Len(queue) = next
    /\ \A i \in 1 .. Len(queue) - Len(order) : queue[i] = Len(order) + i - 1

OutcomeOK ==
  /\ next \in 0 .. VertexCount
  /\ outcome \in {"none", "unwinding", "returned", "threw"}
  /\ next < VertexCount => order = <<>>
  /\ outcome \in {"returned", "threw"} => queue = <<>>
  /\ outcome \in {"unwinding", "threw"} => \E c \in Vertices : ~AllValid(c)
  /\ outcome \in {"none", "returned"} =>
       \A c \in 0 .. next - 1 : c \in DOMAIN frame \/ AllValid(c)

(* Who is further back in the queue has been resumed as often, or once more. *)
TurnsOK ==
  \A i, j \in 1 .. Len(queue) : i < j =>
    /\ frame[queue[i]].turns <= frame[queue[j]].turns
    /\ frame[queue[j]].turns <= frame[queue[i]].turns + 1

IInv == GraphOK /\ OrderOK /\ QueueOK /\ FramesOK /\ FirstRound /\ OutcomeOK /\ TurnsOK

LogEntries ==
  [event : {"enter", "leave"}, vertex : Int] \cup [event : {"inspect"}, vertex : Int, to : Int]

(* How much the coroutine of v has to have written to the log. *)
Reported(v) ==
  IF v \in DOMAIN frame
    THEN IF frame[v].at = "start" THEN 0
         ELSE IF frame[v].stack = <<>> THEN Len(adj[v]) + 2
         ELSE frame[v].stack[1].edge
    ELSE IF v < next THEN Len(adj[v]) + 2 ELSE 0

InOrder(v) == \A i \in Entries(v) : log[i] = VertexLog(v)[Rank(i, Entries(v))]

(* The log is where the frames say, until an exception destroys them. *)
LogOK ==
  /\ log \in Seq(LogEntries)
  /\ \A v \in Vertices :
       /\ InOrder(v)
       /\ Cardinality(Entries(v)) <= Len(adj[v]) + 2
       /\ outcome \in {"none", "returned"} => Cardinality(Entries(v)) = Reported(v)

-----------------------------------------------------------------------------
(* The queue *)

(* push_back of a coroutine that is not queued. *)
LEMMA Enqueue ==
  ASSUME NEW S, NEW q \in Seq(S), IsInjective(q), NEW c \in S, c \notin Range(q)
  PROVE  /\ Append(q, c) \in Seq(S) /\ Len(q) \in Nat /\ Len(Append(q, c)) = Len(q) + 1
         /\ \A i \in 1 .. Len(q) : Append(q, c)[i] = q[i]
         /\ Append(q, c)[Len(q) + 1] = c
         /\ Range(Append(q, c)) = Range(q) \cup {c} /\ IsInjective(Append(q, c))
<1> DEFINE r == Append(q, c)
<1>1. /\ r \in Seq(S) /\ Len(r) = Len(q) + 1 /\ Len(q) \in Nat
      /\ \A i \in 1 .. Len(q) : r[i] = q[i]
      /\ r[Len(r)] = c
  BY AppendProperties, LenProperties
<1> HIDE DEF r
<1>2. DOMAIN r = 1 .. Len(r) /\ DOMAIN q = 1 .. Len(q)
  BY <1>1, LenProperties
<1>3. DOMAIN r = DOMAIN q \cup {Len(r)} /\ Len(r) \notin DOMAIN q
  BY <1>1, <1>2
<1>4. Range(r) = Range(q) \cup {c}
  BY <1>1, <1>2, <1>3 DEF Range
<1>5. IsInjective(r)
  <2> SUFFICES ASSUME NEW a \in DOMAIN r, NEW b \in DOMAIN r, r[a] = r[b]
               PROVE  a = b
    BY DEF IsInjective
  <2>1. CASE a \in DOMAIN q /\ b \in DOMAIN q
    BY <1>1, <1>2, <2>1 DEF IsInjective
  <2>2. CASE a = Len(r) /\ b \in DOMAIN q
    BY <1>1, <1>2, <2>2 DEF Range
  <2>3. CASE b = Len(r) /\ a \in DOMAIN q
    BY <1>1, <1>2, <2>3 DEF Range
  <2> QED
    BY <1>3, <2>1, <2>2, <2>3
<1> QED
  BY <1>1, <1>4, <1>5 DEF r

(* pop_front. *)
LEMMA Dequeue ==
  ASSUME NEW S, NEW q \in Seq(S), IsInjective(q), q # <<>>
  PROVE  /\ Tail(q) \in Seq(S) /\ Len(q) \in Nat \ {0} /\ Len(Tail(q)) = Len(q) - 1
         /\ \A i \in 1 .. Len(q) - 1 : Tail(q)[i] = q[i + 1]
         /\ Head(q) \in Range(q) /\ Head(q) = q[1] /\ Head(q) \in S
         /\ Range(Tail(q)) = Range(q) \ {Head(q)} /\ IsInjective(Tail(q))
<1> DEFINE r == Tail(q)
<1>1. /\ r \in Seq(S) /\ Len(q) \in Nat \ {0} /\ Len(r) = Len(q) - 1
      /\ \A i \in 1 .. Len(r) : r[i] = q[i + 1]
      /\ Head(q) = q[1] /\ Head(q) \in S
  BY HeadTailProperties, EmptySeq
<1> HIDE DEF r
<1>2. DOMAIN r = 1 .. Len(r) /\ DOMAIN q = 1 .. Len(q)
  BY <1>1, LenProperties
<1>3. Head(q) \in Range(q)
  BY <1>1, <1>2 DEF Range
<1>4. \A i \in DOMAIN r : i + 1 \in DOMAIN q /\ i + 1 # 1
  BY <1>1, <1>2
<1>5. \A i \in DOMAIN q : i = 1 \/ (i - 1 \in DOMAIN r /\ (i - 1) + 1 = i)
  BY <1>1, <1>2
<1>6. IsInjective(r)
  <2> SUFFICES ASSUME NEW a \in DOMAIN r, NEW b \in DOMAIN r, r[a] = r[b]
               PROVE  a = b
    BY DEF IsInjective
  <2>1. q[a + 1] = q[b + 1]
    BY <1>1, <1>2
  <2>2. a + 1 = b + 1
    BY <1>4, <2>1 DEF IsInjective
  <2> QED
    BY <1>2, <2>2, <1>1
<1>7. Range(r) \subseteq Range(q) \ {Head(q)}
  <2> SUFFICES ASSUME NEW i \in DOMAIN r
               PROVE  r[i] \in Range(q) /\ r[i] # Head(q)
    BY DEF Range
  <2>1. r[i] = q[i + 1] /\ i + 1 \in DOMAIN q /\ i + 1 # 1 /\ 1 \in DOMAIN q
    BY <1>1, <1>2, <1>4
  <2> QED
    BY <1>1, <2>1 DEF Range, IsInjective
<1>8. Range(q) \ {Head(q)} \subseteq Range(r)
  <2> SUFFICES ASSUME NEW i \in DOMAIN q, q[i] # Head(q)
               PROVE  q[i] \in Range(r)
    BY DEF Range
  <2>1. i - 1 \in DOMAIN r /\ (i - 1) + 1 = i
    BY <1>1, <1>5
  <2>2. r[i - 1] = q[i]
    BY <1>1, <1>2, <2>1
  <2> QED
    BY <2>1, <2>2 DEF Range
<1>9. \A i \in 1 .. Len(q) - 1 : r[i] = q[i + 1]
  BY <1>1
<1>10. Range(r) = Range(q) \ {Head(q)}
  BY <1>7, <1>8
<1> QED
  BY <1>1, <1>3, <1>6, <1>9, <1>10 DEF r

(* A turn: from the front of the queue to its end. *)
LEMMA Rotate ==
  ASSUME NEW S, NEW q \in Seq(S), IsInjective(q), q # <<>>
  PROVE  /\ Append(Tail(q), Head(q)) \in Seq(S)
         /\ Len(q) \in Nat \ {0} /\ Len(Append(Tail(q), Head(q))) = Len(q)
         /\ \A i \in 1 .. Len(q) - 1 : Append(Tail(q), Head(q))[i] = q[i + 1]
         /\ Append(Tail(q), Head(q))[Len(q)] = q[1]
         /\ Head(q) = q[1] /\ Head(q) \in Range(q)
         /\ Range(Append(Tail(q), Head(q))) = Range(q)
         /\ IsInjective(Append(Tail(q), Head(q)))
<1> DEFINE m == Tail(q)
           h == Head(q)
           r == Append(m, h)
<1>1. /\ m \in Seq(S) /\ Len(q) \in Nat \ {0} /\ Len(m) = Len(q) - 1
      /\ \A i \in 1 .. Len(q) - 1 : m[i] = q[i + 1]
      /\ h \in Range(q) /\ h = q[1] /\ h \in S
      /\ Range(m) = Range(q) \ {h} /\ IsInjective(m)
  BY Dequeue
<1> HIDE DEF m, h
<1>2. m \in Seq(S) /\ IsInjective(m) /\ h \in S /\ h \notin Range(m)
  BY <1>1
<1>3. /\ r \in Seq(S) /\ Len(r) = Len(m) + 1
      /\ \A i \in 1 .. Len(m) : r[i] = m[i]
      /\ r[Len(m) + 1] = h
      /\ Range(r) = Range(m) \cup {h} /\ IsInjective(r)
  BY <1>2, Enqueue
<1> HIDE DEF r
<1>4. r[Len(q)] = h
  BY <1>1, <1>3
<1>5. Len(r) = Len(q) /\ \A i \in 1 .. Len(q) - 1 : r[i] = q[i + 1]
  BY <1>1, <1>3
<1>6. Range(r) = Range(q)
  BY <1>1, <1>3
<1> QED
  BY <1>1, <1>3, <1>4, <1>5, <1>6 DEF m, h, r

-----------------------------------------------------------------------------
(* At first there is a graph, and no coroutine. *)
LEMMA InitIInv == Init => IInv
<1> SUFFICES ASSUME Init PROVE IInv
  OBVIOUS
<1>1. /\ next = 0 /\ queue = <<>> /\ frame = [c \in {} |-> NewFrame] /\ visited = {}
      /\ order = <<>> /\ outcome = "none"
  BY DEF Init
<1>2. PICK n \in 0 .. MaxVertices : adj \in [0 .. n - 1 -> AdjacencyLists(n)]
  BY DEF Init
<1>3. n \in Nat /\ MaxDegree \in Nat
  BY BoundsAssumption
<1>4. Vertices = 0 .. n - 1 /\ VertexCount = n
  <2>1. Vertices = 0 .. n - 1
    BY <1>2 DEF Vertices
  <2> QED
    BY <1>3, <2>1, FS_Interval DEF VertexCount
<1>5. AdjacencyLists(n) \subseteq Seq(Int)
  <2> SUFFICES ASSUME NEW l \in AdjacencyLists(n)
               PROVE  l \in Seq(Int)
    OBVIOUS
  <2>1. PICK d \in 0 .. MaxDegree : l \in [1 .. d -> -1 .. n]
    BY DEF AdjacencyLists
  <2>2. d \in Nat /\ l \in [1 .. d -> Int]
    BY <1>3, <2>1
  <2> QED
    BY <2>2, SeqDef
<1>6. GraphOK
  BY <1>2, <1>3, <1>4, <1>5 DEF GraphOK
<1>7. DOMAIN frame = {} /\ Range(queue) = {} /\ Len(queue) = 0 /\ Len(order) = 0
  BY <1>1 DEF Range
<1>8. OrderOK
  BY <1>1, <1>3, <1>4, <1>7 DEF OrderOK
<1>9. QueueOK
  BY <1>1, <1>7 DEF QueueOK, IsInjective
<1>10. FramesOK
  BY <1>1, <1>7 DEF FramesOK
<1>11. FirstRound /\ TurnsOK
  BY <1>1, <1>7 DEF FirstRound, TurnsOK
<1>12. OutcomeOK
  BY <1>1, <1>3, <1>4 DEF OutcomeOK
<1> QED
  BY <1>6, <1>8, <1>9, <1>10, <1>11, <1>12 DEF IInv

(* What does not change while the graph does not. *)
LEMMA SameGraph ==
  ASSUME UNCHANGED adj
  PROVE  /\ Vertices' = Vertices /\ VertexCount' = VertexCount
         /\ \A c : AllValid(c)' <=> AllValid(c)
         /\ GraphOK => GraphOK'
BY DEF Vertices, VertexCount, AllValid, GraphOK

(* Before Run begins nothing is visited, so every vertex gets a coroutine. *)
LEMMA SpawnIInv ==
  ASSUME IInv, Spawn
  PROVE  IInv'
<1>1. /\ next < VertexCount /\ next' = next + 1
      /\ UNCHANGED <<adj, visited, order, log, outcome>>
  BY DEF Spawn
<1>2. /\ Vertices' = Vertices /\ VertexCount' = VertexCount
      /\ \A c : AllValid(c)' <=> AllValid(c)
      /\ GraphOK'
  BY <1>1, SameGraph DEF IInv
<1>3. /\ VertexCount \in Nat /\ Vertices = 0 .. VertexCount - 1
      /\ next \in 0 .. VertexCount /\ next \in Vertices /\ next + 1 \in 0 .. VertexCount
  BY <1>1 DEF IInv, GraphOK, OutcomeOK
<1>4. order = <<>> /\ Len(order) = 0 /\ visited = {}
  BY <1>1 DEF IInv, OutcomeOK, OrderOK
<1>5. /\ frame' = [c \in DOMAIN frame \cup {next} |-> IF c = next THEN NewFrame ELSE frame[c]]
      /\ queue' = Append(queue, next)
  BY <1>4 DEF Spawn
<1>6. /\ outcome = "none" /\ Len(queue) = next
      /\ \A i \in 1 .. next : queue[i] = i - 1
  BY <1>1, <1>3, <1>4 DEF IInv, FirstRound
<1>7. /\ queue \in Seq(Vertices) /\ IsInjective(queue) /\ Range(queue) = DOMAIN frame
  BY DEF IInv, QueueOK
<1>8. next \notin DOMAIN frame /\ DOMAIN frame = 0 .. next - 1
  <2>1. DOMAIN queue = 1 .. next
    BY <1>6, <1>7, LenProperties
  <2>2. \A i \in 1 .. next : i - 1 \in 0 .. next - 1
    BY <1>3
  <2>3. \A c \in 0 .. next - 1 : c + 1 \in 1 .. next /\ queue[c + 1] = c
    BY <1>3, <1>6
  <2>4. Range(queue) \subseteq 0 .. next - 1
    BY <1>6, <2>1, <2>2 DEF Range
  <2>5. 0 .. next - 1 \subseteq Range(queue)
    BY <2>1, <2>3 DEF Range
  <2>6. DOMAIN frame = 0 .. next - 1
    BY <1>7, <2>4, <2>5
  <2>7. next \notin 0 .. next - 1
    BY <1>3
  <2> QED
    BY <2>6, <2>7
<1>9. /\ queue' \in Seq(Vertices) /\ Len(queue') = next + 1
      /\ \A i \in 1 .. next : queue'[i] = queue[i]
      /\ queue'[next + 1] = next
      /\ Range(queue') = DOMAIN frame \cup {next} /\ IsInjective(queue')
  <2>1. next \in Vertices /\ next \notin Range(queue) /\ queue' = Append(queue, next)
    BY <1>3, <1>5, <1>7, <1>8
  <2>2. /\ queue' \in Seq(Vertices) /\ Len(queue') = Len(queue) + 1
        /\ \A i \in 1 .. Len(queue) : queue'[i] = queue[i]
        /\ queue'[Len(queue) + 1] = next
        /\ Range(queue') = Range(queue) \cup {next} /\ IsInjective(queue')
    BY <1>7, <2>1, Enqueue
  <2> QED
    BY <1>6, <1>7, <2>2
<1>10. /\ DOMAIN frame' = DOMAIN frame \cup {next} /\ frame'[next] = NewFrame
       /\ \A c \in DOMAIN frame : frame'[c] = frame[c]
  BY <1>5, <1>8
<1>11. NewFrame \in Frames /\ 0 \in Vertices
  BY <1>3 DEF NewFrame, Frames
<1>12. OrderOK'
  BY <1>1, <1>2 DEF IInv, OrderOK
<1>13. QueueOK'
  BY <1>2, <1>9, <1>10 DEF QueueOK
<1>14. FramesOK'
  <2>1. frame' \in [DOMAIN frame' -> Frames] /\ DOMAIN frame' \subseteq Vertices'
    <3>1. \A c \in DOMAIN frame' : frame'[c] \in Frames
      BY <1>10, <1>11 DEF IInv, FramesOK
    <3>2. frame' = [c \in DOMAIN frame' |-> frame'[c]]
      BY <1>5
    <3> QED
      BY <1>2, <1>3, <1>10, <3>1, <3>2 DEF IInv, FramesOK
  <2>2. \A c \in DOMAIN frame : StackOK(c)'
    BY <1>1, <1>2, <1>10 DEF IInv, FramesOK, StackOK
  <2>3. \A c : c = next => StackOK(c)'
    BY <1>10 DEF StackOK, NewFrame
  <2>4. /\ frame'[next].to \in Vertices /\ frame'[next].at = "start" /\ frame'[next].turns = 0
    BY <1>10, <1>11 DEF NewFrame
  <2>5. \A c \in DOMAIN frame' : frame'[c].to \in Vertices /\ StackOK(c)'
    BY <1>10, <2>2, <2>3, <2>4 DEF IInv, FramesOK
  <2>6. \A c \in DOMAIN frame' : /\ frame'[c].at = "start" <=> Len(order') <= c
                                 /\ frame'[c].at = "start" => frame'[c].turns = 0
    BY <1>1, <1>3, <1>4, <1>10, <2>4 DEF IInv, FramesOK
  <2> QED
    BY <1>2, <2>1, <2>5, <2>6 DEF FramesOK
<1>15. FirstRound'
  BY <1>1, <1>3, <1>4, <1>6, <1>9 DEF FirstRound
<1>16. OutcomeOK'
  <2>1. \A c \in 0 .. next' - 1 : c \in DOMAIN frame'
    BY <1>1, <1>3, <1>8, <1>10
  <2> QED
    BY <1>1, <1>2, <1>3, <1>4, <1>6, <2>1 DEF IInv, OutcomeOK
<1>17. TurnsOK'
  <2>1. \A c \in DOMAIN frame' : frame'[c].turns = 0
    <3>1. frame'[next].turns = 0
      BY <1>10 DEF NewFrame
    <3>2. \A c \in DOMAIN frame : frame[c].turns = 0
      BY <1>4, <1>8, <1>3 DEF IInv, FramesOK
    <3> QED
      BY <1>10, <3>1, <3>2
  <2>2. \A i \in 1 .. Len(queue') : queue'[i] \in DOMAIN frame'
    <3>1. DOMAIN queue' = 1 .. Len(queue')
      BY <1>9, LenProperties
    <3> QED
      BY <1>9, <1>10, <3>1 DEF Range
  <2> QED
    BY <2>1, <2>2 DEF TurnsOK
<1> QED
  BY <1>2, <1>12, <1>13, <1>14, <1>15, <1>16, <1>17 DEF IInv

-----------------------------------------------------------------------------
(* Turns *)

(* What is queued are frames, and the front of the queue is there once. *)
LEMMA Queued ==
  ASSUME QueueOK
  PROVE  /\ Len(queue) \in Nat /\ DOMAIN queue = 1 .. Len(queue)
         /\ \A i \in 1 .. Len(queue) : queue[i] \in DOMAIN frame
         /\ queue # <<>> => /\ Len(queue) # 0 /\ Head(queue) = queue[1]
                            /\ Head(queue) \in DOMAIN frame
                            /\ \A i \in 1 .. Len(queue) : i # 1 => queue[i] # Head(queue)
<1>1. /\ queue \in Seq(Vertices) /\ Range(queue) = DOMAIN frame /\ IsInjective(queue)
      /\ Len(queue) \in Nat /\ DOMAIN queue = 1 .. Len(queue)
  BY LenProperties DEF QueueOK
<1>2. \A i \in 1 .. Len(queue) : queue[i] \in DOMAIN frame
  BY <1>1 DEF Range
<1>3. ASSUME queue # <<>>
      PROVE  Len(queue) # 0 /\ Head(queue) = queue[1]
  BY <1>1, <1>3, EmptySeq
<1> QED
  BY <1>1, <1>2, <1>3 DEF IsInjective

(* A coroutine that yields goes to the end of the queue, one turn older. *)
LEMMA YieldStep ==
  ASSUME IInv, queue # <<>>, NEW f \in Frames, f.turns = frame[Head(queue)].turns,
         Yield(Head(queue), f), UNCHANGED adj
  PROVE  /\ QueueOK' /\ TurnsOK' /\ outcome' = outcome
         /\ DOMAIN frame' = DOMAIN frame /\ frame' \in [DOMAIN frame -> Frames]
         /\ \A d \in DOMAIN frame : d # Head(queue) => frame'[d] = frame[d]
         /\ frame'[Head(queue)].at = f.at /\ frame'[Head(queue)].stack = f.stack
         /\ frame'[Head(queue)].to = f.to
         /\ Len(queue') = Len(queue)
         /\ \A i \in 1 .. Len(queue) - 1 : queue'[i] = queue[i + 1]
<1> DEFINE c == Head(queue)
           L == Len(queue)
           g == [f EXCEPT !.turns = @ + 1]
<1>1. /\ frame' = [frame EXCEPT ![c] = g] /\ outcome' = outcome
      /\ queue' = Append(Tail(queue), Head(queue))
  BY DEF Yield, Suspend
<1>2. /\ g \in Frames /\ g.turns = f.turns + 1 /\ g.at = f.at /\ g.stack = f.stack /\ g.to = f.to
      /\ f.turns \in Nat
  BY DEF Frames
<1> HIDE DEF g
<1>3. /\ queue \in Seq(Vertices) /\ Range(queue) = DOMAIN frame /\ IsInjective(queue)
      /\ frame \in [DOMAIN frame -> Frames]
  BY DEF IInv, QueueOK, FramesOK
<1>4. /\ L \in Nat /\ \A i \in 1 .. L : queue[i] \in DOMAIN frame
      /\ L # 0 /\ c = queue[1] /\ c \in DOMAIN frame
      /\ \A i \in 1 .. L : i # 1 => queue[i] # c
  BY Queued DEF IInv
<1>5. /\ queue' \in Seq(Vertices) /\ Len(queue') = L
      /\ \A i \in 1 .. L - 1 : queue'[i] = queue[i + 1]
      /\ queue'[L] = queue[1]
      /\ Range(queue') = Range(queue) /\ IsInjective(queue')
  BY <1>1, <1>3, Rotate
<1>6. Vertices' = Vertices
  BY DEF Vertices
<1> HIDE DEF c, L
<1>7. /\ DOMAIN frame' = DOMAIN frame /\ frame' \in [DOMAIN frame -> Frames]
      /\ \A d \in DOMAIN frame : d # c => frame'[d] = frame[d]
      /\ frame'[c] = g
  BY <1>1, <1>2, <1>3, <1>4
<1>8. QueueOK'
  BY <1>3, <1>5, <1>6, <1>7 DEF QueueOK
<1>9. TurnsOK'
  <2>1. ASSUME NEW i \in 1 .. L - 1
        PROVE  /\ i + 1 \in 1 .. L /\ queue'[i] = queue[i + 1] /\ queue[i + 1] \in DOMAIN frame
               /\ frame'[queue'[i]] = frame[queue[i + 1]]
    <3>1. i + 1 \in 1 .. L /\ i + 1 # 1
      BY <1>4
    <3> QED
      BY <1>4, <1>5, <1>7, <3>1
  <2>2. \A d \in DOMAIN frame : frame[d].turns \in Nat
    BY <1>3 DEF Frames
  <2> SUFFICES ASSUME NEW i \in 1 .. L, NEW j \in 1 .. L, i < j
               PROVE  /\ frame'[queue'[i]].turns <= frame'[queue'[j]].turns
                      /\ frame'[queue'[j]].turns <= frame'[queue'[i]].turns + 1
    BY <1>5 DEF TurnsOK
  <2>3. i \in 1 .. L - 1
    BY <1>4
  <2>4. CASE j \in 1 .. L - 1
    <3>1. i + 1 \in 1 .. L /\ j + 1 \in 1 .. L /\ i + 1 < j + 1
      BY <1>4, <2>3, <2>4
    <3>2. /\ frame[queue[i + 1]].turns <= frame[queue[j + 1]].turns
          /\ frame[queue[j + 1]].turns <= frame[queue[i + 1]].turns + 1
      BY <3>1 DEF IInv, TurnsOK, L
    <3> QED
      BY <2>1, <2>3, <2>4, <3>2
  <2>5. CASE j = L
    <3>1. 1 \in 1 .. L /\ i + 1 \in 1 .. L /\ 1 < i + 1
      BY <1>4, <2>3
    <3>2. /\ frame[c].turns <= frame[queue[i + 1]].turns
          /\ frame[queue[i + 1]].turns <= frame[c].turns + 1
      BY <1>4, <3>1 DEF IInv, TurnsOK, L
    <3>3. frame'[queue'[j]].turns = frame[c].turns + 1
      BY <1>2, <1>4, <1>5, <1>7, <2>5 DEF c
    <3>4. frame'[queue'[i]].turns = frame[queue[i + 1]].turns /\ queue[i + 1] \in DOMAIN frame
      BY <2>1, <2>3
    <3>5. frame[queue[i + 1]].turns \in Nat /\ frame[c].turns \in Nat
      BY <1>4, <2>2, <3>4
    <3> QED
      BY <3>2, <3>3, <3>4, <3>5
  <2> QED
    BY <1>4, <2>4, <2>5
<1> QED
  BY <1>1, <1>2, <1>5, <1>7, <1>8, <1>9 DEF c, L

(* A coroutine that ends leaves the queue, and its frame is destroyed. *)
LEMMA EndStep ==
  ASSUME IInv, queue # <<>>, queue' = Tail(queue), Destroy(Head(queue)), UNCHANGED adj
  PROVE  /\ QueueOK' /\ TurnsOK'
         /\ DOMAIN frame' = DOMAIN frame \ {Head(queue)}
         /\ frame' \in [DOMAIN frame' -> Frames]
         /\ \A d \in DOMAIN frame' : frame'[d] = frame[d]
<1> DEFINE c == Head(queue)
           L == Len(queue)
<1>1. frame' = [d \in DOMAIN frame \ {c} |-> frame[d]]
  BY DEF Destroy, Restrict
<1>2. /\ queue \in Seq(Vertices) /\ Range(queue) = DOMAIN frame /\ IsInjective(queue)
      /\ frame \in [DOMAIN frame -> Frames]
  BY DEF IInv, QueueOK, FramesOK
<1>3. /\ L \in Nat /\ L # 0
      /\ \A i \in 1 .. L : i # 1 => queue[i] # c /\ queue[i] \in DOMAIN frame
  BY Queued DEF IInv
<1>4. /\ queue' \in Seq(Vertices) /\ Len(queue') = L - 1
      /\ \A i \in 1 .. L - 1 : queue'[i] = queue[i + 1]
      /\ Range(queue') = Range(queue) \ {c} /\ IsInjective(queue')
  BY <1>2, Dequeue
<1>5. Vertices' = Vertices
  BY DEF Vertices
<1> HIDE DEF c, L
<1>6. /\ DOMAIN frame' = DOMAIN frame \ {c} /\ frame' \in [DOMAIN frame' -> Frames]
      /\ \A d \in DOMAIN frame' : frame'[d] = frame[d]
  BY <1>1, <1>2
<1>7. QueueOK'
  BY <1>2, <1>4, <1>5, <1>6 DEF QueueOK
<1>8. TurnsOK'
  <2>1. ASSUME NEW i \in 1 .. L - 1
        PROVE  i + 1 \in 1 .. L /\ frame'[queue'[i]] = frame[queue[i + 1]]
    <3>1. i + 1 \in 1 .. L /\ i + 1 # 1
      BY <1>3
    <3> QED
      BY <1>3, <1>4, <1>6, <3>1
  <2> SUFFICES ASSUME NEW i \in 1 .. L - 1, NEW j \in 1 .. L - 1, i < j
               PROVE  /\ frame'[queue'[i]].turns <= frame'[queue'[j]].turns
                      /\ frame'[queue'[j]].turns <= frame'[queue'[i]].turns + 1
    BY <1>4 DEF TurnsOK
  <2>2. i + 1 < j + 1
    BY <1>3
  <2>3. /\ frame[queue[i + 1]].turns <= frame[queue[j + 1]].turns
        /\ frame[queue[j + 1]].turns <= frame[queue[i + 1]].turns + 1
    BY <2>1, <2>2 DEF IInv, TurnsOK, L
  <2> QED
    BY <2>1, <2>3
<1> QED
  BY <1>6, <1>7, <1>8 DEF c

-----------------------------------------------------------------------------
(* Resume *)

(* In the first round the coroutine at the front has not started yet; it enters its
   start vertex, the next one in the order of the indices. *)
LEMMA EnterIInv ==
  ASSUME IInv, Resume, Len(order) < VertexCount
  PROVE  IInv'
<1> DEFINE c == Head(queue)
           k == Len(order)
           top == [vertex |-> c, edge |-> 1]
           f == [frame[c] EXCEPT !.at = "loop", !.stack = Append(<<>>, top)]
<1>1. /\ outcome = "none" /\ next = VertexCount /\ queue # <<>> /\ UNCHANGED <<adj, next>>
  BY DEF Resume
<1>2. /\ Vertices' = Vertices /\ VertexCount' = VertexCount
      /\ \A d : AllValid(d)' <=> AllValid(d)
      /\ GraphOK'
  BY <1>1, SameGraph DEF IInv
<1>3. /\ VertexCount \in Nat /\ Vertices = 0 .. VertexCount - 1 /\ adj \in [Vertices -> Seq(Int)]
      /\ order \in Seq(Int) /\ k \in Nat
      /\ Len(queue) = VertexCount
      /\ \A i \in 1 .. Len(queue) - k : queue[i] = k + i - 1
  BY <1>1, LenProperties DEF IInv, GraphOK, OrderOK, FirstRound
<1>4. c = k /\ c \in DOMAIN frame /\ c \in Vertices /\ frame[c].at = "start"
  <2>1. c = queue[1] /\ c \in DOMAIN frame
    BY <1>1, Queued DEF IInv
  <2>2. 1 \in 1 .. Len(queue) - k /\ k + 1 - 1 = k
    BY <1>3
  <2>3. queue[1] = k
    <3> HIDE DEF k
    <3> QED
      BY <1>3, <2>2
  <2> QED
    BY <1>3, <2>1, <2>3 DEF IInv, FramesOK
<1>5. /\ order' = Append(order, c) /\ visited' = visited \cup {c} /\ Yield(c, f)
  BY <1>4 DEF Resume, Enter, Push
<1>6. frame[c] \in Frames
  BY <1>4 DEF IInv, FramesOK
<1>7. /\ top \in StackEntries /\ Append(<<>>, top) \in Seq(StackEntries)
      /\ Len(Append(<<>>, top)) = 1 /\ Append(<<>>, top)[1] = top
  <2>1. top \in StackEntries
    BY <1>3, <1>4 DEF StackEntries
  <2> HIDE DEF top
  <2>2. <<>> \in Seq(StackEntries) /\ Len(<<>>) = 0
    BY EmptySeq
  <2> QED
    BY <2>1, <2>2, AppendProperties
<1>8. top.vertex = c /\ top.edge = 1
  OBVIOUS
<1>9. /\ f \in Frames /\ f.turns = frame[c].turns /\ f.at = "loop" /\ f.to = frame[c].to
      /\ f.stack = Append(<<>>, top)
  <2> HIDE DEF top
  <2> QED
    BY <1>6, <1>7 DEF Frames
<1>10. /\ QueueOK' /\ TurnsOK' /\ outcome' = outcome
       /\ DOMAIN frame' = DOMAIN frame /\ frame' \in [DOMAIN frame -> Frames]
       /\ \A d \in DOMAIN frame : d # c => frame'[d] = frame[d]
       /\ frame'[c].at = f.at /\ frame'[c].stack = f.stack /\ frame'[c].to = f.to
       /\ Len(queue') = Len(queue)
       /\ \A i \in 1 .. Len(queue) - 1 : queue'[i] = queue[i + 1]
  <2> HIDE DEF f
  <2> QED
    BY <1>1, <1>5, <1>9, YieldStep
<1>11. /\ frame'[c].at = "loop" /\ frame'[c].to = frame[c].to /\ Len(frame'[c].stack) = 1
       /\ frame'[c].stack[1].vertex = c /\ frame'[c].stack[1].edge = 1
  <2> HIDE DEF top, f
  <2> QED
    BY <1>7, <1>8, <1>9, <1>10
<1> HIDE DEF top, f
<1>12. /\ order' \in Seq(Int) /\ Len(order') = k + 1
       /\ \A i \in 1 .. k : order'[i] = order[i]
       /\ order'[k + 1] = k
  BY <1>3, <1>4, <1>5, AppendProperties
<1> HIDE DEF c, k
<1>13. OrderOK'
  <2>1. \A i \in 1 .. k + 1 : order'[i] = i - 1
    <3>1. \A i \in 1 .. k : order[i] = i - 1
      BY DEF IInv, OrderOK, k
    <3>2. \A i \in 1 .. k + 1 : i \in 1 .. k \/ i = k + 1
      BY <1>3
    <3>3. (k + 1) - 1 = k
      BY <1>3
    <3> QED
      BY <1>12, <3>1, <3>2, <3>3
  <2>2. order' = [i \in 1 .. k + 1 |-> i - 1]
    <3>1. order' = [i \in 1 .. k + 1 |-> order'[i]]
      BY <1>12, LenProperties
    <3> QED
      BY <2>1, <3>1
  <2>3. visited' = 0 .. (k + 1) - 1
    <3>1. visited = 0 .. k - 1 /\ visited' = visited \cup {k}
      BY <1>4, <1>5 DEF IInv, OrderOK, k
    <3> QED
      BY <1>3, <3>1
  <2>4. k + 1 <= VertexCount
    BY <1>3 DEF k
  <2> QED
    BY <1>2, <1>12, <2>2, <2>3, <2>4 DEF OrderOK
<1>14. FramesOK'
  <2>1. \A d \in DOMAIN frame : d # c => StackOK(d)'
    BY <1>1, <1>2, <1>10 DEF IInv, FramesOK, StackOK
  <2>2. \A d : d = c => StackOK(d)'
    <3>1. Len(adj[c]) \in Nat
      BY <1>3, <1>4, LenProperties
    <3>2. 1 \in 1 .. Len(adj[c]) + 1 /\ 1 .. 1 - 1 = {}
      BY <3>1
    <3> QED
      BY <1>1, <1>11, <3>2 DEF StackOK
  <2>3. \A d \in DOMAIN frame : frame'[d].to \in Vertices /\ StackOK(d)'
    BY <1>10, <1>11, <2>1, <2>2 DEF IInv, FramesOK
  <2>4. \A d \in DOMAIN frame : /\ frame'[d].at = "start" <=> k + 1 <= d
                                /\ frame'[d].at = "start" => frame'[d].turns = 0
    <3> SUFFICES ASSUME NEW d \in DOMAIN frame
                 PROVE  /\ frame'[d].at = "start" <=> k + 1 <= d
                        /\ frame'[d].at = "start" => frame'[d].turns = 0
      OBVIOUS
    <3>1. d \in Nat
      BY <1>3 DEF IInv, FramesOK
    <3>2. CASE d = c
      BY <1>3, <1>4, <1>11, <3>2
    <3>3. CASE d # c
      <4>1. frame'[d] = frame[d]
        BY <1>10, <3>3
      <4>2. k <= d <=> k + 1 <= d
        BY <1>3, <1>4, <3>1, <3>3
      <4> QED
        BY <4>1, <4>2 DEF IInv, FramesOK, k
    <3> QED
      BY <3>2, <3>3
  <2> QED
    BY <1>2, <1>10, <1>12, <2>3, <2>4 DEF IInv, FramesOK
<1>15. FirstRound'
  <2> SUFFICES ASSUME NEW i \in 1 .. Len(queue') - Len(order')
               PROVE  queue'[i] = Len(order') + i - 1
    BY <1>1, <1>2, <1>3, <1>10 DEF FirstRound
  <2>1. i \in 1 .. Len(queue) - (k + 1)
    BY <1>10, <1>12
  <2>2. i \in 1 .. Len(queue) - 1 /\ i + 1 \in 1 .. Len(queue) - k
    BY <1>3, <2>1
  <2>3. queue'[i] = k + (i + 1) - 1
    BY <1>3, <1>10, <2>2
  <2> QED
    BY <1>3, <1>12, <2>1, <2>3
<1>16. OutcomeOK'
  BY <1>1, <1>2, <1>3, <1>10 DEF IInv, OutcomeOK
<1> QED
  BY <1>2, <1>10, <1>13, <1>14, <1>15, <1>16 DEF IInv

(* Later every vertex is visited: a resumed coroutine goes on at the head of its loop. *)
LEMMA ResumeLoops ==
  ASSUME IInv, Resume, ~(Len(order) < VertexCount)
  PROVE  /\ Loop(Head(queue)) /\ Len(order) = VertexCount /\ frame[Head(queue)].at # "start"
         /\ Head(queue) \in DOMAIN frame /\ Head(queue) \in Vertices
<1> DEFINE c == Head(queue)
<1>1. queue # <<>>
  BY DEF Resume
<1>2. c \in DOMAIN frame /\ c \in Vertices
  BY <1>1, Queued DEF IInv, FramesOK
<1>3. /\ VertexCount \in Nat /\ Len(order) = VertexCount
      /\ Vertices = 0 .. VertexCount - 1 /\ visited = Vertices
  <2>1. /\ VertexCount \in Nat /\ Vertices = 0 .. VertexCount - 1
        /\ Len(order) <= VertexCount /\ visited = 0 .. Len(order) - 1
    BY DEF IInv, GraphOK, OrderOK
  <2>2. Len(order) \in Nat
    BY LenProperties DEF IInv, OrderOK
  <2>3. Len(order) = VertexCount
    BY <2>1, <2>2
  <2> QED
    BY <2>1, <2>3
<1>4. frame[c].at # "start"
  BY <1>2, <1>3 DEF IInv, FramesOK
<1>5. frame[c].to \in visited
  BY <1>2, <1>3 DEF IInv, FramesOK
<1> QED
  BY <1>2, <1>3, <1>4, <1>5 DEF Resume

(* A coroutine yields in its loop, with its stack in order. *)
LEMMA LoopYieldIInv ==
  ASSUME IInv, outcome = "none", next = VertexCount, Len(order) = VertexCount, queue # <<>>,
         NEW f \in Frames, Yield(Head(queue), f), UNCHANGED <<adj, next, visited, order>>,
         f.turns = frame[Head(queue)].turns, f.at # "start", f.to \in Vertices,
         \/ f.stack = <<>> /\ AllValid(Head(queue))
         \/ /\ Len(f.stack) = 1 /\ f.stack[1].vertex = Head(queue)
            /\ f.stack[1].edge \in 1 .. Len(adj[Head(queue)]) + 1
            /\ \A i \in 1 .. f.stack[1].edge - 1 : adj[Head(queue)][i] \in Vertices
  PROVE  IInv'
<1> DEFINE c == Head(queue)
<1>1. /\ Vertices' = Vertices /\ VertexCount' = VertexCount
      /\ \A d : AllValid(d)' <=> AllValid(d)
      /\ GraphOK'
  BY SameGraph DEF IInv
<1>2. /\ QueueOK' /\ TurnsOK' /\ outcome' = outcome
      /\ DOMAIN frame' = DOMAIN frame /\ frame' \in [DOMAIN frame -> Frames]
      /\ \A d \in DOMAIN frame : d # c => frame'[d] = frame[d]
      /\ frame'[c].at = f.at /\ frame'[c].stack = f.stack /\ frame'[c].to = f.to
  BY YieldStep
<1>3. c \in DOMAIN frame /\ c \in Vertices
  BY Queued DEF IInv, FramesOK
<1>4. OrderOK'
  BY <1>1 DEF IInv, OrderOK
<1>5. FramesOK'
  <2>1. \A d \in DOMAIN frame : d # c => StackOK(d)'
    BY <1>1, <1>2 DEF IInv, FramesOK, StackOK
  <2>2. \A d : d = c => StackOK(d)'
    BY <1>1, <1>2 DEF StackOK
  <2>3. \A d \in DOMAIN frame : frame'[d].to \in Vertices /\ StackOK(d)'
    BY <1>2, <2>1, <2>2 DEF IInv, FramesOK
  <2>4. ~(Len(order) <= c)
    BY <1>3 DEF IInv, GraphOK
  <2>5. \A d \in DOMAIN frame : /\ frame'[d].at = "start" <=> Len(order) <= d
                                /\ frame'[d].at = "start" => frame'[d].turns = 0
    BY <1>2, <2>4 DEF IInv, FramesOK
  <2> QED
    BY <1>1, <1>2, <2>3, <2>5 DEF IInv, FramesOK
<1>6. FirstRound'
  BY <1>1 DEF IInv, GraphOK, FirstRound
<1>7. OutcomeOK'
  BY <1>1, <1>2 DEF IInv, GraphOK, OutcomeOK
<1> QED
  BY <1>1, <1>2, <1>4, <1>5, <1>6, <1>7 DEF IInv

(* A coroutine ends, having followed all its edges, or at one that leads nowhere. *)
LEMMA LoopEndIInv ==
  ASSUME IInv, outcome = "none", next = VertexCount, Len(order) = VertexCount, queue # <<>>,
         UNCHANGED <<adj, next, visited, order>>,
         \/ Finish(Head(queue)) /\ AllValid(Head(queue))
         \/ Throw(Head(queue)) /\ ~AllValid(Head(queue))
  PROVE  IInv'
<1> DEFINE c == Head(queue)
<1>1. /\ Vertices' = Vertices /\ VertexCount' = VertexCount
      /\ \A d : AllValid(d)' <=> AllValid(d)
      /\ GraphOK'
  BY SameGraph DEF IInv
<1>2. queue' = Tail(queue) /\ Destroy(c)
  BY DEF Finish, Throw
<1>3. /\ QueueOK' /\ TurnsOK'
      /\ DOMAIN frame' = DOMAIN frame \ {c} /\ frame' \in [DOMAIN frame' -> Frames]
      /\ \A d \in DOMAIN frame' : frame'[d] = frame[d]
  BY <1>2, EndStep
<1>4. c \in Vertices
  BY Queued DEF IInv, FramesOK
<1>5. OrderOK'
  BY <1>1 DEF IInv, OrderOK
<1>6. FramesOK'
  <2>1. \A d \in DOMAIN frame' : StackOK(d)'
    BY <1>1, <1>3 DEF IInv, FramesOK, StackOK
  <2> QED
    BY <1>1, <1>3, <2>1 DEF IInv, FramesOK
<1>7. FirstRound'
  BY <1>1 DEF IInv, GraphOK, FirstRound
<1>8. OutcomeOK'
  <2>1. CASE outcome' = outcome /\ AllValid(c)
    BY <1>1, <1>3, <2>1 DEF IInv, GraphOK, OutcomeOK
  <2>2. CASE outcome' = "unwinding" /\ ~AllValid(c)
    BY <1>1, <1>4, <2>2 DEF IInv, GraphOK, OutcomeOK
  <2> QED
    BY <2>1, <2>2 DEF Finish, Throw
<1> QED
  BY <1>1, <1>3, <1>5, <1>6, <1>7, <1>8 DEF IInv

(* One pass through the loop of a coroutine. *)
LEMMA LoopIInv ==
  ASSUME IInv, Resume, ~(Len(order) < VertexCount)
  PROVE  IInv'
<1> DEFINE c == Head(queue)
           stack == frame[c].stack
           v == stack[Len(stack)].vertex
           e == stack[Len(stack)].edge
<1>1. /\ outcome = "none" /\ next = VertexCount /\ queue # <<>> /\ UNCHANGED <<adj, next>>
  BY DEF Resume
<1>2. /\ Loop(c) /\ Len(order) = VertexCount /\ frame[c].at # "start"
      /\ c \in DOMAIN frame /\ c \in Vertices
  BY ResumeLoops
<1>3. /\ VertexCount \in Nat /\ Vertices = 0 .. VertexCount - 1
      /\ adj[c] \in Seq(Int) /\ Len(adj[c]) \in Nat /\ \A i \in 1 .. Len(adj[c]) : adj[c][i] \in Int
  BY <1>2, LenProperties, ElementOfSeq DEF IInv, GraphOK
<1>4. frame[c] \in Frames /\ StackOK(c) /\ frame[c].to \in Vertices
  BY <1>2 DEF IInv, FramesOK
<1>5. stack \in Seq(StackEntries) /\ frame[c].turns \in Nat
  BY <1>4 DEF Frames
<1>6. UNCHANGED <<visited, order>>
  BY <1>2 DEF Loop
<1>7. CASE stack = <<>>
  <2>1. AllValid(c)
    <3>1. Len(<<>>) = 0
      BY EmptySeq
    <3> QED
      BY <1>2, <1>4, <1>7, <3>1 DEF StackOK
  <2>2. Finish(c)
    BY <1>2, <1>7 DEF Loop
  <2> QED
    BY <1>1, <1>2, <1>6, <2>1, <2>2, LoopEndIInv
<1>8. CASE stack # <<>>
  <2>1. /\ Len(stack) = 1 /\ v = c /\ e = stack[1].edge /\ e \in 1 .. Len(adj[c]) + 1
        /\ \A i \in 1 .. e - 1 : adj[c][i] \in Vertices
    BY <1>4, <1>8 DEF StackOK
  <2>2. \/ e > Len(adj[c]) /\ Leave(c)
        \/ e <= Len(adj[c]) /\ IsVertex(adj[c][e]) /\ Inspect(c, c, e)
        \/ e <= Len(adj[c]) /\ ~IsVertex(adj[c][e]) /\ Throw(c)
    BY <1>2, <1>8, <2>1 DEF Loop
  <2>3. CASE e > Len(adj[c]) /\ Leave(c)
    <3> DEFINE f == [frame[c] EXCEPT !.at = "loop", !.stack = <<>>]
    <3>1. SubSeq(stack, 1, Len(stack) - 1) = <<>>
      BY <2>1, SubSeqEmpty
    <3>2. Yield(c, f)
      BY <2>3, <3>1 DEF Leave
    <3>3. AllValid(c)
      BY <1>3, <2>1, <2>3 DEF AllValid
    <3>4. /\ f \in Frames /\ f.turns = frame[c].turns /\ f.at = "loop" /\ f.stack = <<>>
          /\ f.to = frame[c].to
      BY <1>4, EmptySeq DEF Frames
    <3> HIDE DEF f
    <3> QED
      BY <1>1, <1>2, <1>4, <1>6, <3>2, <3>3, <3>4, LoopYieldIInv
  <2>4. CASE e <= Len(adj[c]) /\ IsVertex(adj[c][e]) /\ Inspect(c, c, e)
    <3> DEFINE top == [stack[1] EXCEPT !.edge = e + 1]
               f == [frame[c] EXCEPT !.at = "edge", !.to = adj[c][e],
                                     !.stack = [stack EXCEPT ![1] = top]]
    <3>1. Yield(c, f)
      BY <2>1, <2>4 DEF Inspect, InspectThen
    <3> HIDE DEF c, stack, v, e, f
    <3>2. e \in 1 .. Len(adj[c]) /\ e \in Nat /\ adj[c][e] \in Int /\ adj[c][e] \in Vertices
      BY <1>3, <2>1, <2>4 DEF IsVertex
    <3>3. top \in StackEntries /\ top.vertex = c /\ top.edge = e + 1
      <4>1. 1 \in 1 .. Len(stack) /\ stack[1].vertex = c
        BY <2>1 DEF v
      <4>2. stack[1] \in StackEntries /\ stack[1].vertex = c
        BY <1>5, <4>1, ElementOfSeq
      <4> QED
        BY <3>2, <4>2 DEF StackEntries
    <3>4. /\ [stack EXCEPT ![1] = top] \in Seq(StackEntries)
          /\ Len([stack EXCEPT ![1] = top]) = 1 /\ [stack EXCEPT ![1] = top][1] = top
      <4> HIDE DEF top
      <4>1. 1 \in 1 .. Len(stack) /\ Len(stack) = 1
        BY <2>1
      <4>2. [stack EXCEPT ![1] = top] \in Seq(StackEntries)
        BY <1>5, <3>3, <4>1, ExceptSeq
      <4>3. Len([stack EXCEPT ![1] = top]) = Len(stack)
        BY <1>5, <3>3, <4>1, ExceptSeq
      <4>4. [stack EXCEPT ![1] = top][1] = top
        BY <1>5, <4>1, LenProperties
      <4> QED
        BY <4>1, <4>2, <4>3, <4>4
    <3>5. /\ f \in Frames /\ f.turns = frame[c].turns /\ f.at = "edge" /\ f.to = adj[c][e]
          /\ f.stack = [stack EXCEPT ![1] = top]
      <4> HIDE DEF top
      <4> QED
        BY <1>4, <3>2, <3>4 DEF Frames, f
    <3>6. /\ e + 1 \in 1 .. Len(adj[c]) + 1
          /\ \A i \in 1 .. (e + 1) - 1 : adj[c][i] \in Vertices
      <4>1. \A i \in 1 .. (e + 1) - 1 : i \in 1 .. e - 1 \/ i = e
        BY <3>2
      <4>2. Len(adj[c]) \in Nat
        BY <1>3
      <4>3. e + 1 \in 1 .. Len(adj[c]) + 1
        BY <3>2, <4>2
      <4>4. \A i \in 1 .. (e + 1) - 1 : adj[c][i] \in Vertices
        BY <2>1, <3>2, <4>1
      <4> QED
        BY <4>3, <4>4
    <3>7. /\ Len(f.stack) = 1 /\ f.stack[1].vertex = c
          /\ f.stack[1].edge \in 1 .. Len(adj[c]) + 1
          /\ \A i \in 1 .. f.stack[1].edge - 1 : adj[c][i] \in Vertices
      <4> HIDE DEF top
      <4> QED
        BY <3>3, <3>4, <3>5, <3>6
    <3>8. f.at # "start" /\ f.to \in Vertices
      BY <3>2, <3>5
    <3> QED
      BY <1>1, <1>2, <1>6, <3>1, <3>5, <3>7, <3>8, LoopYieldIInv DEF c
  <2>5. CASE e <= Len(adj[c]) /\ ~IsVertex(adj[c][e]) /\ Throw(c)
    <3>1. e \in 1 .. Len(adj[c]) /\ adj[c][e] \notin Vertices
      BY <1>3, <2>1, <2>5 DEF IsVertex
    <3>2. ~AllValid(c)
      BY <3>1 DEF AllValid
    <3> QED
      BY <1>1, <1>2, <1>6, <2>5, <3>2, LoopEndIInv
  <2> QED
    BY <2>2, <2>3, <2>4, <2>5
<1> QED
  BY <1>7, <1>8

-----------------------------------------------------------------------------
(* The call ends when no coroutine is left: in the first round there always is one. *)
LEMMA ReturnIInv ==
  ASSUME IInv, Return
  PROVE  IInv' /\ Len(order) = VertexCount
<1>1. /\ outcome = "none" /\ next = VertexCount /\ queue = <<>> /\ outcome' = "returned"
      /\ UNCHANGED <<adj, next, queue, frame, visited, order>>
  BY DEF Return
<1>2. /\ Vertices' = Vertices /\ VertexCount' = VertexCount
      /\ \A d : AllValid(d)' <=> AllValid(d)
      /\ GraphOK'
  BY <1>1, SameGraph DEF IInv
<1>3. Len(order) = VertexCount
  <2>1. /\ Len(order) \in Nat /\ VertexCount \in Nat /\ Len(order) <= VertexCount
        /\ Len(queue) = 0
    BY <1>1, LenProperties, EmptySeq DEF IInv, OrderOK, GraphOK
  <2>2. ~(Len(order) < VertexCount)
    BY <1>1, <2>1 DEF IInv, FirstRound
  <2> QED
    BY <2>1, <2>2
<1>4. OrderOK' /\ QueueOK' /\ TurnsOK'
  BY <1>1, <1>2 DEF IInv, OrderOK, QueueOK, TurnsOK
<1>5. FramesOK'
  BY <1>1, <1>2 DEF IInv, FramesOK, StackOK
<1>6. FirstRound'
  BY <1>1, <1>2, <1>3 DEF IInv, GraphOK, FirstRound
<1>7. OutcomeOK'
  BY <1>1, <1>2 DEF IInv, OutcomeOK
<1> QED
  BY <1>2, <1>3, <1>4, <1>5, <1>6, <1>7 DEF IInv

(* An exception leaves Run only after the first round. *)
LEMMA Unwinding ==
  ASSUME IInv, outcome # "none"
  PROVE  Len(order) = VertexCount /\ VertexCount \in Nat /\ next = VertexCount
<1>1. Len(order) \in Nat /\ VertexCount \in Nat /\ Len(order) <= VertexCount
  BY LenProperties DEF IInv, OrderOK, GraphOK
<1>2. ~(Len(order) < VertexCount)
  BY DEF IInv, FirstRound
<1>3. Len(order) = VertexCount
  BY <1>1, <1>2
<1>4. VertexCount # 0 => order # <<>>
  BY <1>3, EmptySeq
<1> QED
  BY <1>1, <1>3, <1>4 DEF IInv, OutcomeOK

(* ~Scheduler destroys what is queued. *)
LEMMA DestroyNextIInv ==
  ASSUME IInv, DestroyNext
  PROVE  IInv'
<1> DEFINE c == Head(queue)
<1>1. /\ outcome = "unwinding" /\ queue # <<>> /\ queue' = Tail(queue) /\ Destroy(c)
      /\ UNCHANGED <<adj, next, visited, order, outcome>>
  BY DEF DestroyNext
<1>2. /\ Vertices' = Vertices /\ VertexCount' = VertexCount
      /\ \A d : AllValid(d)' <=> AllValid(d)
      /\ GraphOK'
  BY <1>1, SameGraph DEF IInv
<1>3. /\ QueueOK' /\ TurnsOK'
      /\ DOMAIN frame' = DOMAIN frame \ {c} /\ frame' \in [DOMAIN frame' -> Frames]
      /\ \A d \in DOMAIN frame' : frame'[d] = frame[d]
  BY <1>1, EndStep
<1>4. OrderOK'
  BY <1>1, <1>2 DEF IInv, OrderOK
<1>5. FramesOK'
  <2>1. \A d \in DOMAIN frame' : StackOK(d)'
    BY <1>1, <1>2, <1>3 DEF IInv, FramesOK, StackOK
  <2> QED
    BY <1>1, <1>2, <1>3, <2>1 DEF IInv, FramesOK
<1>6. FirstRound'
  BY <1>1, <1>2, Unwinding DEF FirstRound
<1>7. OutcomeOK'
  BY <1>1, <1>2 DEF IInv, OutcomeOK
<1> QED
  BY <1>2, <1>3, <1>4, <1>5, <1>6, <1>7 DEF IInv

(* The exception reaches the caller of CooperativeDFS; or nothing happens. *)
LEMMA RethrowIInv ==
  ASSUME IInv, Rethrow \/ UNCHANGED vars
  PROVE  IInv'
<1>1. /\ UNCHANGED <<adj, next, queue, frame, visited, order>>
      /\ \/ outcome' = outcome
         \/ outcome = "unwinding" /\ outcome' = "threw" /\ queue = <<>>
  BY DEF Rethrow, vars
<1>2. /\ Vertices' = Vertices /\ VertexCount' = VertexCount
      /\ \A d : AllValid(d)' <=> AllValid(d)
      /\ GraphOK'
  BY <1>1, SameGraph DEF IInv
<1>3. OrderOK' /\ QueueOK' /\ TurnsOK'
  BY <1>1, <1>2 DEF IInv, OrderOK, QueueOK, TurnsOK
<1>4. FramesOK'
  BY <1>1, <1>2 DEF IInv, FramesOK, StackOK
<1>5. FirstRound'
  BY <1>1, <1>2 DEF IInv, FirstRound
<1>6. OutcomeOK'
  BY <1>1, <1>2 DEF IInv, OutcomeOK
<1> QED
  BY <1>2, <1>3, <1>4, <1>5, <1>6 DEF IInv

(* The invariant holds throughout. *)
THEOREM Invariance == Spec => []IInv
<1>1. Init => IInv
  BY InitIInv
<1>2. IInv /\ [Next]_vars => IInv'
  BY SpawnIInv, EnterIInv, LoopIInv, ReturnIInv, DestroyNextIInv, RethrowIInv DEF Next
<1> QED
  BY <1>1, <1>2, PTL DEF Spec

(* The queue, the stacks and the traversal hold vertices of the graph, and a
   stack never outgrows it. *)
THEOREM TypeCorrect == Spec => []TypeOK
<1>1. IInv => TypeOK
  <2> SUFFICES ASSUME IInv PROVE TypeOK
    OBVIOUS
  <2>1. /\ VertexCount \in Nat /\ Vertices = 0 .. VertexCount - 1
        /\ Range(queue) = DOMAIN frame /\ DOMAIN frame \subseteq Vertices
        /\ frame \in [DOMAIN frame -> Frames]
        /\ next \in 0 .. VertexCount /\ outcome \in {"none", "unwinding", "returned", "threw"}
    BY DEF IInv, GraphOK, QueueOK, FramesOK, OutcomeOK
  <2>2. ASSUME NEW c \in DOMAIN frame
        PROVE  /\ frame[c].at \in {"start", "loop", "edge"} /\ frame[c].to \in Vertices
               /\ frame[c].turns \in Nat /\ Len(frame[c].stack) <= VertexCount
               /\ \A i \in DOMAIN frame[c].stack :
                    /\ frame[c].stack[i].vertex \in Vertices
                    /\ frame[c].stack[i].edge \in 1 .. Len(adj[frame[c].stack[i].vertex]) + 1
    <3>1. frame[c] \in Frames /\ StackOK(c) /\ c \in Vertices /\ VertexCount # 0
      BY <2>1 DEF IInv, FramesOK
    <3>2. /\ frame[c].at \in {"start", "loop", "edge"} /\ frame[c].to \in Vertices
          /\ frame[c].turns \in Nat /\ frame[c].stack \in Seq(StackEntries)
      BY <3>1 DEF Frames, IInv, FramesOK
    <3>3. DOMAIN frame[c].stack = 1 .. Len(frame[c].stack)
      BY <3>2, LenProperties
    <3>4. CASE frame[c].stack = <<>>
      BY <2>1, <3>2, <3>3, <3>4, EmptySeq
    <3>5. CASE frame[c].stack # <<>>
      <4>1. /\ Len(frame[c].stack) = 1 /\ frame[c].stack[1].vertex = c
            /\ frame[c].stack[1].edge \in 1 .. Len(adj[c]) + 1
        BY <3>1, <3>5 DEF StackOK
      <4>2. \A i \in DOMAIN frame[c].stack : i = 1
        BY <3>3, <4>1
      <4>3. 1 <= VertexCount
        BY <2>1, <3>1
      <4> QED
        BY <3>1, <3>2, <4>1, <4>2, <4>3
    <3> QED
      BY <3>4, <3>5
  <2>3. Len(order) \in Nat /\ Len(order) <= VertexCount /\ visited = 0 .. Len(order) - 1
    BY LenProperties DEF IInv, OrderOK
  <2>4. visited \subseteq Vertices
    BY <2>1, <2>3
  <2>5. Range(order) \subseteq visited
    <3>1. DOMAIN order = 1 .. Len(order) /\ \A i \in 1 .. Len(order) : order[i] = i - 1
      BY DEF IInv, OrderOK
    <3>2. \A i \in 1 .. Len(order) : i - 1 \in visited
      BY <2>3
    <3> QED
      BY <3>1, <3>2 DEF Range
  <2> QED
    BY <2>1, <2>2, <2>4, <2>5 DEF TypeOK
<1> QED
  BY <1>1, Invariance, PTL

(* No frame is leaked, resumed after its end or destroyed twice, also when an
   exception leaves Run. *)
THEOREM FramesOwned == Spec => []FramesQueuedOnce
<1>1. IInv => FramesQueuedOnce
  <2> SUFFICES ASSUME IInv PROVE FramesQueuedOnce
    OBVIOUS
  <2>1. Range(queue) = DOMAIN frame /\ IsInjective(queue)
    BY DEF IInv, QueueOK
  <2>2. outcome \in {"returned", "threw"} => DOMAIN frame = {}
    BY <2>1 DEF IInv, OutcomeOK, Range
  <2> QED
    BY <2>1, <2>2 DEF FramesQueuedOnce
<1> QED
  BY <1>1, Invariance, PTL

(* The traversal order is the order of the indices, whatever the edges are, and is
   complete when the call returns. *)
THEOREM OrderIsIndexOrder == Spec => []TraversalOrder
<1>1. IInv => TraversalOrder
  BY Unwinding DEF IInv, OrderOK, TraversalOrder
<1> QED
  BY <1>1, Invariance, PTL

(* CooperativeDFS throws exactly if some edge leads nowhere. *)
THEOREM ThrowsExactly == Spec => []ThrowsIffInvalid
<1>1. IInv => ThrowsIffInvalid
  <2> SUFFICES ASSUME IInv PROVE ThrowsIffInvalid
    OBVIOUS
  <2> DEFINE invalid == \E v \in Vertices : \E i \in DOMAIN adj[v] : adj[v][i] \notin Vertices
  <2>1. \A v \in Vertices : DOMAIN adj[v] = 1 .. Len(adj[v])
    BY LenProperties DEF IInv, GraphOK
  <2>2. invalid <=> \E c \in Vertices : ~AllValid(c)
    BY <2>1 DEF AllValid
  <2>3. outcome = "threw" => \E c \in Vertices : ~AllValid(c)
    BY DEF IInv, OutcomeOK
  <2>4. ASSUME outcome = "returned"
        PROVE  \A c \in Vertices : AllValid(c)
    <3>1. DOMAIN frame = {}
      BY <2>4 DEF IInv, OutcomeOK, QueueOK, Range
    <3>2. Vertices = 0 .. next - 1
      BY <2>4, Unwinding DEF IInv, GraphOK
    <3> QED
      BY <2>4, <3>1, <3>2 DEF IInv, OutcomeOK
  <2> QED
    BY <2>2, <2>3, <2>4 DEF ThrowsIffInvalid
<1> QED
  BY <1>1, Invariance, PTL

(* Coroutines take turns. *)
THEOREM FairTurns == Spec => []TurnsAlternate
<1>1. IInv => TurnsAlternate
  <2> SUFFICES ASSUME IInv, NEW c \in DOMAIN frame, NEW d \in DOMAIN frame
               PROVE  frame[c].turns <= frame[d].turns + 1
    BY DEF TurnsAlternate
  <2>1. DOMAIN queue = 1 .. Len(queue) /\ Range(queue) = DOMAIN frame
    BY Queued DEF IInv, QueueOK
  <2>2. PICK i \in 1 .. Len(queue) : queue[i] = c
    BY <2>1 DEF Range
  <2>3. PICK j \in 1 .. Len(queue) : queue[j] = d
    BY <2>1 DEF Range
  <2>4. frame[c].turns \in Nat /\ frame[d].turns \in Nat
    BY DEF IInv, FramesOK, Frames
  <2>5. CASE i = j
    BY <2>2, <2>3, <2>4, <2>5
  <2>6. CASE i < j
    <3>1. frame[c].turns <= frame[d].turns
      BY <2>2, <2>3, <2>6 DEF IInv, TurnsOK
    <3> QED
      BY <2>4, <3>1
  <2>7. CASE j < i
    BY <2>2, <2>3, <2>7 DEF IInv, TurnsOK
  <2>8. Len(queue) \in Nat
    BY Queued DEF IInv
  <2> QED
    BY <2>5, <2>6, <2>7, <2>8
<1> QED
  BY <1>1, Invariance, PTL

-----------------------------------------------------------------------------
(* The log *)

(* VertexLog, entry by entry. *)
LEMMA VertexLogEntries ==
  ASSUME NEW v \in Int, adj[v] \in Seq(Int)
  PROVE  /\ Len(adj[v]) \in Nat /\ Len(VertexLog(v)) = Len(adj[v]) + 2
         /\ VertexLog(v)[1] = [event |-> "enter", vertex |-> v]
         /\ \A i \in 1 .. Len(adj[v]) :
              VertexLog(v)[i + 1] = [event |-> "inspect", vertex |-> v, to |-> adj[v][i]]
         /\ VertexLog(v)[Len(adj[v]) + 2] = [event |-> "leave", vertex |-> v]
<1> DEFINE n == Len(adj[v])
           a == [event |-> "enter", vertex |-> v]
           b == [event |-> "leave", vertex |-> v]
           E(i) == [event |-> "inspect", vertex |-> v, to |-> adj[v][i]]
           s == [i \in 1 .. n |-> E(i)]
<1>1. n \in Nat /\ \A i \in 1 .. n : adj[v][i] \in Int
  BY LenProperties, ElementOfSeq
<1>2. a \in LogEntries /\ b \in LogEntries /\ \A i \in 1 .. n : E(i) \in LogEntries
  BY <1>1 DEF LogEntries
<1> HIDE DEF a, b, E
<1>3. s \in Seq(LogEntries) /\ Len(s) = n
  <2>1. s \in Seq(LogEntries)
    BY <1>1, <1>2, IsASeq
  <2> QED
    BY <1>1, <2>1
<1>4. /\ <<a>> \in Seq(LogEntries) /\ Len(<<a>>) = 1 /\ <<a>>[1] = a
      /\ <<b>> \in Seq(LogEntries) /\ Len(<<b>>) = 1 /\ <<b>>[1] = b
  BY <1>2
<1> HIDE DEF n
<1>5. /\ <<a>> \o s \in Seq(LogEntries) /\ Len(<<a>> \o s) = n + 1
      /\ \A i \in 1 .. n + 1 : (<<a>> \o s)[i] = IF i <= 1 THEN <<a>>[i] ELSE s[i - 1]
  <2>1. /\ <<a>> \o s \in Seq(LogEntries) /\ Len(<<a>> \o s) = Len(<<a>>) + Len(s)
        /\ \A i \in 1 .. Len(<<a>>) + Len(s) :
             (<<a>> \o s)[i] = IF i <= Len(<<a>>) THEN <<a>>[i] ELSE s[i - Len(<<a>>)]
    <3> HIDE DEF s
    <3> QED
      BY <1>3, <1>4, ConcatProperties
  <2> HIDE DEF s
  <2> QED
    BY <1>1, <1>3, <1>4, <2>1
<1> DEFINE t == <<a>> \o s
<1>6. /\ Len(t \o <<b>>) = n + 2
      /\ \A i \in 1 .. n + 2 : (t \o <<b>>)[i] = IF i <= n + 1 THEN t[i] ELSE <<b>>[i - (n + 1)]
  <2>1. t \in Seq(LogEntries) /\ Len(t) = n + 1
    BY <1>5
  <2> HIDE DEF t
  <2>2. /\ Len(t \o <<b>>) = Len(t) + Len(<<b>>)
        /\ \A i \in 1 .. Len(t) + Len(<<b>>) :
             (t \o <<b>>)[i] = IF i <= Len(t) THEN t[i] ELSE <<b>>[i - Len(t)]
    BY <1>4, <2>1, ConcatProperties
  <2>3. Len(t) + Len(<<b>>) = n + 2
    BY <1>1, <1>4, <2>1
  <2> QED
    BY <2>1, <2>2, <2>3
<1>7. VertexLog(v) = t \o <<b>>
  BY DEF VertexLog, a, b, E, n
<1>8. \A i \in 1 .. n : s[i] = E(i)
  OBVIOUS
<1>9. (t \o <<b>>)[1] = a
  <2>1. 1 \in 1 .. n + 2 /\ 1 \in 1 .. n + 1 /\ 1 <= n + 1
    BY <1>1
  <2> HIDE DEF s
  <2> QED
    BY <1>4, <1>5, <1>6, <2>1
<1>10. ASSUME NEW i \in 1 .. n PROVE (t \o <<b>>)[i + 1] = E(i)
  <2>1. /\ i + 1 \in 1 .. n + 2 /\ i + 1 \in 1 .. n + 1 /\ i + 1 <= n + 1 /\ ~(i + 1 <= 1)
        /\ (i + 1) - 1 = i
    BY <1>1
  <2> HIDE DEF s
  <2>2. (t \o <<b>>)[i + 1] = t[i + 1]
    BY <1>6, <2>1
  <2>3. t[i + 1] = s[(i + 1) - 1]
    BY <1>5, <2>1
  <2> QED
    BY <1>8, <2>1, <2>2, <2>3
<1>11. (t \o <<b>>)[n + 2] = b
  <2>1. n + 2 \in 1 .. n + 2 /\ ~(n + 2 <= n + 1) /\ (n + 2) - (n + 1) = 1
    BY <1>1
  <2> HIDE DEF t
  <2> QED
    BY <1>4, <1>6, <2>1
<1> QED
  BY <1>1, <1>6, <1>7, <1>9, <1>10, <1>11 DEF a, b, E, n

(* The entries of a vertex are finitely many. *)
LEMMA EntriesFinite ==
  ASSUME log \in Seq(LogEntries), NEW v
  PROVE  /\ Len(log) \in Nat /\ Entries(v) \in SUBSET Nat /\ IsFiniteSet(Entries(v))
         /\ Cardinality(Entries(v)) \in Nat
         /\ \A i \in Entries(v) : i \in 1 .. Len(log) /\ i < Len(log) + 1
<1>1. Len(log) \in Nat /\ DOMAIN log = 1 .. Len(log)
  BY LenProperties
<1>2. Entries(v) \subseteq 1 .. Len(log)
  BY <1>1 DEF Entries
<1>3. IsFiniteSet(1 .. Len(log))
  BY <1>1, FS_Interval
<1>4. IsFiniteSet(Entries(v))
  BY <1>2, <1>3, FS_Subset
<1>5. Cardinality(Entries(v)) \in Nat
  BY <1>4, FS_CardinalityType
<1> QED
  BY <1>1, <1>2, <1>4, <1>5

(* The next entry of c goes to the end of the log, and to the end of what the log
   says about c. *)
LEMMA Report ==
  ASSUME LogOK, GraphOK, UNCHANGED adj, NEW c \in Vertices, NEW e \in LogEntries, e.vertex = c,
         log' = Append(log, e), Cardinality(Entries(c)) + 1 <= Len(adj[c]) + 2,
         e = VertexLog(c)[Cardinality(Entries(c)) + 1]
  PROVE  /\ log' \in Seq(LogEntries)
         /\ \A v \in Vertices : InOrder(v)' /\ Cardinality(Entries(v)') <= Len(adj[v]) + 2
         /\ Cardinality(Entries(c)') = Cardinality(Entries(c)) + 1
         /\ \A v \in Vertices : v # c => Cardinality(Entries(v)') = Cardinality(Entries(v))
<1> DEFINE k == Len(log) + 1
<1>1. /\ log \in Seq(LogEntries) /\ Len(log) \in Nat /\ DOMAIN log = 1 .. Len(log)
  BY LenProperties DEF LogOK
<1>2. /\ log' \in Seq(LogEntries) /\ Len(log') = k /\ DOMAIN log' = 1 .. k
      /\ \A i \in 1 .. Len(log) : log'[i] = log[i]
      /\ log'[k] = e
  <2>1. /\ Append(log, e) \in Seq(LogEntries) /\ Len(Append(log, e)) = k
        /\ \A i \in 1 .. Len(log) : Append(log, e)[i] = log[i]
        /\ Append(log, e)[k] = e
    BY <1>1, AppendProperties
  <2> QED
    BY <2>1, LenProperties
<1>3. DOMAIN log' = DOMAIN log \cup {k} /\ k \notin DOMAIN log /\ k \in Nat
  BY <1>1, <1>2
<1>4. \A v : VertexLog(v)' = VertexLog(v)
  BY DEF VertexLog
<1>5. ASSUME NEW v \in Vertices, v # c
      PROVE  InOrder(v)' /\ Entries(v)' = Entries(v)
  <2>1. Entries(v)' = Entries(v)
    BY <1>1, <1>2, <1>3, <1>5 DEF Entries
  <2>2. \A i \in Entries(v) : log'[i] = log[i]
    BY <1>1, <1>2 DEF Entries
  <2>3. InOrder(v)
    BY DEF LogOK
  <2> QED
    BY <1>4, <2>1, <2>2, <2>3 DEF InOrder, Rank
<1>6. Entries(c)' = Entries(c) \cup {k}
  BY <1>1, <1>2, <1>3 DEF Entries
<1>7. /\ Entries(c) \in SUBSET Nat /\ IsFiniteSet(Entries(c)) /\ \A i \in Entries(c) : i < k
  BY <1>1, EntriesFinite
<1> HIDE DEF k
<1>8. /\ Cardinality(Entries(c)) \in Nat
      /\ Cardinality(Entries(c) \cup {k}) = Cardinality(Entries(c)) + 1
      /\ Cardinality({j \in Entries(c) \cup {k} : j <= k}) = Cardinality(Entries(c)) + 1
      /\ \A i \in Entries(c) : {j \in Entries(c) \cup {k} : j <= i} = {j \in Entries(c) : j <= i}
  BY <1>3, <1>7, LastOne
<1>9. InOrder(c)'
  <2> SUFFICES ASSUME NEW i \in Entries(c) \cup {k}
               PROVE  log'[i] = VertexLog(c)[Cardinality({j \in Entries(c) \cup {k} : j <= i})]
    BY <1>4, <1>6 DEF InOrder, Rank
  <2>1. CASE i = k
    BY <1>2, <1>8, <2>1
  <2>2. CASE i \in Entries(c)
    <3>1. log[i] = VertexLog(c)[Cardinality({j \in Entries(c) : j <= i})]
      BY <2>2 DEF LogOK, InOrder, Rank
    <3>2. log'[i] = log[i]
      BY <1>1, <1>2, <2>2 DEF Entries
    <3> QED
      BY <1>8, <2>2, <3>1, <3>2
  <2> QED
    BY <2>1, <2>2
<1>10. \A v \in Vertices : Cardinality(Entries(v)') <= Len(adj[v]) + 2
  BY <1>5, <1>6, <1>8 DEF LogOK
<1> QED
  BY <1>2, <1>5, <1>6, <1>8, <1>9, <1>10

(* A coroutine that yields reports one entry more, as its frame says afterwards. *)
LEMMA ReportAndYield ==
  ASSUME IInv, LogOK, outcome = "none", queue # <<>>, UNCHANGED <<adj, next>>,
         NEW f \in Frames, f.turns = frame[Head(queue)].turns, Yield(Head(queue), f),
         NEW e \in LogEntries, e.vertex = Head(queue), log' = Append(log, e),
         Reported(Head(queue)) + 1 <= Len(adj[Head(queue)]) + 2,
         e = VertexLog(Head(queue))[Reported(Head(queue)) + 1], f.at # "start",
         IF f.stack = <<>> THEN Reported(Head(queue)) + 1 = Len(adj[Head(queue)]) + 2
                           ELSE Reported(Head(queue)) + 1 = f.stack[1].edge
  PROVE  LogOK'
<1>1. PICK c : c = Head(queue)
  OBVIOUS
<1>2. c \in DOMAIN frame /\ c \in Vertices
  BY <1>1, Queued DEF IInv, FramesOK
<1>3. /\ DOMAIN frame' = DOMAIN frame /\ outcome' = outcome
      /\ \A d \in DOMAIN frame : d # c => frame'[d] = frame[d]
      /\ frame'[c].at = f.at /\ frame'[c].stack = f.stack
  BY <1>1, YieldStep
<1>4. Vertices' = Vertices
  BY DEF Vertices
<1>5. Cardinality(Entries(c)) = Reported(c)
  BY <1>2 DEF LogOK
<1>6. /\ log' \in Seq(LogEntries)
      /\ \A v \in Vertices : InOrder(v)' /\ Cardinality(Entries(v)') <= Len(adj[v]) + 2
      /\ Cardinality(Entries(c)') = Cardinality(Entries(c)) + 1
      /\ \A v \in Vertices : v # c => Cardinality(Entries(v)') = Cardinality(Entries(v))
  BY <1>1, <1>2, <1>5, Report DEF IInv
<1>7. Reported(c)' = Reported(c) + 1
  BY <1>1, <1>2, <1>3 DEF Reported
<1>8. \A v \in Vertices : v # c => Reported(v)' = Reported(v)
  BY <1>3 DEF Reported
<1>9. \A v \in Vertices : Cardinality(Entries(v)') = Reported(v)'
  BY <1>5, <1>6, <1>7, <1>8 DEF LogOK
<1> QED
  BY <1>4, <1>6, <1>9 DEF LogOK

(* Steps that write nothing and change no coroutine's progress. *)
LEMMA Silent ==
  ASSUME LogOK, UNCHANGED <<adj, log>>,
         outcome' \in {"none", "returned"} =>
           outcome = "none" /\ \A v \in Vertices : Reported(v)' = Reported(v)
  PROVE  LogOK'
<1>1. Vertices' = Vertices /\ \A v : VertexLog(v)' = VertexLog(v) /\ Entries(v)' = Entries(v)
  BY DEF Vertices, VertexLog, Entries
<1>2. \A v : InOrder(v)' <=> InOrder(v)
  BY <1>1 DEF InOrder, Rank
<1> QED
  BY <1>1, <1>2 DEF LogOK

(* Everybody begins with an empty log. *)
LEMMA InitLogOK ==
  ASSUME Init
  PROVE  LogOK
<1>1. IInv
  BY InitIInv
<1>2. log = <<>> /\ next = 0 /\ DOMAIN frame = {} /\ log \in Seq(LogEntries) /\ Len(log) = 0
  BY EmptySeq DEF Init
<1>3. \A v : Entries(v) = {}
  <2>1. DOMAIN log = {}
    BY <1>2, LenProperties
  <2> QED
    BY <2>1 DEF Entries
<1>4. Cardinality({}) = 0
  BY FS_EmptySet
<1>5. ASSUME NEW v \in Vertices
      PROVE  Reported(v) = 0 /\ Len(adj[v]) \in Nat
  <2>1. v \in Nat /\ adj[v] \in Seq(Int)
    BY <1>1 DEF IInv, GraphOK
  <2>2. ~(v < next)
    BY <1>2, <2>1
  <2> QED
    BY <1>2, <2>1, <2>2, LenProperties DEF Reported
<1>6. \A v : InOrder(v) /\ Cardinality(Entries(v)) = 0
  BY <1>3, <1>4 DEF InOrder
<1>7. \A v \in Vertices : 0 <= Len(adj[v]) + 2
  BY <1>5
<1> QED
  BY <1>2, <1>5, <1>6, <1>7 DEF LogOK

(* A coroutine that has not run yet has reported nothing. *)
LEMMA SpawnLogOK ==
  ASSUME IInv, LogOK, Spawn
  PROVE  LogOK'
<1>1. /\ next < VertexCount /\ next' = next + 1 /\ UNCHANGED <<adj, order, log, outcome>>
      /\ VertexCount \in Nat /\ next \in Nat /\ Vertices = 0 .. VertexCount - 1
  BY DEF Spawn, IInv, GraphOK, OutcomeOK
<1>2. order = <<>> /\ Len(order) = 0 /\ visited = {}
  <2>1. order = <<>> /\ Len(order) = 0
    BY <1>1, EmptySeq DEF IInv, OutcomeOK
  <2> QED
    BY <2>1 DEF IInv, OrderOK
<1>3. outcome = "none"
  BY <1>1, <1>2 DEF IInv, FirstRound
<1>4. /\ DOMAIN frame' = DOMAIN frame \cup {next}
      /\ frame'[next] = NewFrame
      /\ \A d \in DOMAIN frame : d # next => frame'[d] = frame[d]
  <2>1. frame' = [d \in DOMAIN frame \cup {next} |-> IF d = next THEN NewFrame ELSE frame[d]]
    BY <1>2 DEF Spawn
  <2> QED
    BY <2>1
<1>5. \A d \in DOMAIN frame : frame[d].at = "start"
  <2>1. \A d \in DOMAIN frame : Len(order) <= d
    BY <1>1, <1>2 DEF IInv, FramesOK
  <2> QED
    BY <2>1 DEF IInv, FramesOK
<1>6. ASSUME NEW v \in Vertices PROVE Reported(v)' = Reported(v)
  <2>1. CASE v = next
    BY <1>1, <1>4, <1>5, <2>1 DEF Reported, NewFrame
  <2>2. CASE v # next
    <3>1. v < next + 1 <=> v < next
      BY <1>1, <2>2
    <3> QED
      BY <1>1, <1>4, <2>2, <3>1 DEF Reported
  <2> QED
    BY <2>1, <2>2
<1> QED
  BY <1>1, <1>3, <1>6, Silent

(* In the first round a coroutine reports that it enters its vertex. *)
LEMMA EnterLogOK ==
  ASSUME IInv, LogOK, Resume, Len(order) < VertexCount
  PROVE  LogOK'
<1> DEFINE c == Head(queue)
           top == [vertex |-> c, edge |-> 1]
           f == [frame[c] EXCEPT !.at = "loop", !.stack = Append(<<>>, top)]
           e == [event |-> "enter", vertex |-> c]
<1>1. /\ outcome = "none" /\ queue # <<>> /\ UNCHANGED <<adj, next>>
  BY DEF Resume
<1>2. /\ VertexCount \in Nat /\ Vertices = 0 .. VertexCount - 1 /\ adj \in [Vertices -> Seq(Int)]
      /\ Len(order) \in Nat /\ c = queue[1] /\ c \in DOMAIN frame /\ c \in Vertices
      /\ Len(queue) = VertexCount
      /\ \A i \in 1 .. Len(queue) - Len(order) : queue[i] = Len(order) + i - 1
  BY <1>1, LenProperties, Queued DEF IInv, GraphOK, OrderOK, FirstRound, Resume, FramesOK
<1>3. c = Len(order)
  <2>1. 1 \in 1 .. Len(queue) - Len(order)
    BY <1>2
  <2>2. queue[1] = Len(order) + 1 - 1
    BY <1>2, <2>1
  <2> QED
    BY <1>2, <2>2
<1>4. frame[c].at = "start" /\ frame[c] \in Frames
  BY <1>2, <1>3 DEF IInv, FramesOK
<1>5. Enter(c, c, <<>>)
  BY <1>4 DEF Resume
<1>6. Yield(c, f) /\ log' = Append(log, e)
  BY <1>5 DEF Enter, Push
<1>7. Reported(c) = 0
  BY <1>2, <1>4 DEF Reported
<1>8. /\ Len(adj[c]) \in Nat /\ e = VertexLog(c)[1]
  <2>1. c \in Int /\ adj[c] \in Seq(Int)
    BY <1>2
  <2> QED
    BY <2>1, VertexLogEntries
<1>9. e \in LogEntries /\ e.vertex = c
  BY <1>2 DEF LogEntries
<1>10. /\ Append(<<>>, top) = <<top>> /\ <<top>> \in Seq(StackEntries) /\ <<top>> # <<>>
       /\ <<top>>[1] = top /\ top.edge = 1
  <2>1. top \in StackEntries
    BY <1>2 DEF StackEntries
  <2> HIDE DEF top
  <2>2. Append(<<>>, top) = <<top>> /\ <<top>> \in Seq(StackEntries) /\ <<top>> # <<>>
    BY <2>1
  <2> QED
    BY <2>2 DEF top
<1>11. /\ f \in Frames /\ f.turns = frame[c].turns /\ f.at = "loop" /\ f.stack = <<top>>
  <2> HIDE DEF top
  <2> QED
    BY <1>4, <1>10 DEF Frames
<1> HIDE DEF c, f, e, top
<1>12. /\ Reported(c) + 1 <= Len(adj[c]) + 2 /\ e = VertexLog(c)[Reported(c) + 1]
       /\ f.at # "start" /\ f.stack # <<>> /\ Reported(c) + 1 = f.stack[1].edge
  BY <1>7, <1>8, <1>10, <1>11
<1> QED
  BY <1>1, <1>6, <1>9, <1>11, <1>12, ReportAndYield DEF c

(* Later it reports every edge it inspects, and that it leaves. *)
LEMMA LoopLogOK ==
  ASSUME IInv, LogOK, Resume, ~(Len(order) < VertexCount)
  PROVE  LogOK'
<1> DEFINE c == Head(queue)
           stack == frame[c].stack
           v == stack[Len(stack)].vertex
           e == stack[Len(stack)].edge
<1>1. /\ outcome = "none" /\ next = VertexCount /\ queue # <<>> /\ UNCHANGED <<adj, next>>
  BY DEF Resume
<1>2. /\ Loop(c) /\ frame[c].at # "start" /\ c \in DOMAIN frame /\ c \in Vertices
  BY ResumeLoops
<1>3. /\ VertexCount \in Nat /\ Vertices = 0 .. VertexCount - 1 /\ c \in Int
      /\ adj[c] \in Seq(Int) /\ Len(adj[c]) \in Nat /\ \A i \in 1 .. Len(adj[c]) : adj[c][i] \in Int
  BY <1>2, LenProperties, ElementOfSeq DEF IInv, GraphOK
<1>4. frame[c] \in Frames /\ StackOK(c)
  BY <1>2 DEF IInv, FramesOK
<1>5. stack \in Seq(StackEntries)
  BY <1>4 DEF Frames
<1>6. CASE stack = <<>>
  <2>1. Finish(c) /\ UNCHANGED log
    BY <1>2, <1>6 DEF Loop
  <2>2. /\ DOMAIN frame' = DOMAIN frame \ {c} /\ \A d \in DOMAIN frame' : frame'[d] = frame[d]
    BY <1>1, <2>1, EndStep DEF Finish
  <2>3. c < next
    BY <1>1, <1>2, <1>3
  <2>4. ASSUME NEW u \in Vertices PROVE Reported(u)' = Reported(u)
    <3>1. CASE u = c
      BY <1>1, <1>2, <1>6, <2>2, <2>3, <3>1 DEF Reported
    <3>2. CASE u # c
      BY <1>1, <2>2, <3>2 DEF Reported
    <3> QED
      BY <3>1, <3>2
  <2> QED
    BY <1>1, <2>1, <2>4, Silent
<1>7. CASE stack # <<>>
  <2>1. Len(stack) = 1 /\ v = c /\ e = stack[1].edge /\ e \in 1 .. Len(adj[c]) + 1
    BY <1>4, <1>7 DEF StackOK
  <2>2. Reported(c) = e
    BY <1>2, <1>7, <2>1 DEF Reported
  <2>3. \/ e > Len(adj[c]) /\ Leave(c)
        \/ e <= Len(adj[c]) /\ Inspect(c, c, e)
        \/ Throw(c) /\ UNCHANGED log
    BY <1>2, <1>7, <2>1 DEF Loop
  <2>4. /\ \A i \in 1 .. Len(adj[c]) :
             VertexLog(c)[i + 1] = [event |-> "inspect", vertex |-> c, to |-> adj[c][i]]
        /\ VertexLog(c)[Len(adj[c]) + 2] = [event |-> "leave", vertex |-> c]
    BY <1>3, VertexLogEntries
  <2>5. CASE e > Len(adj[c]) /\ Leave(c)
    <3> DEFINE f == [frame[c] EXCEPT !.at = "loop", !.stack = <<>>]
               r == [event |-> "leave", vertex |-> c]
    <3>1. SubSeq(stack, 1, Len(stack) - 1) = <<>>
      BY <2>1, SubSeqEmpty
    <3>2. Yield(c, f) /\ log' = Append(log, r)
      BY <2>1, <2>5, <3>1 DEF Leave
    <3>3. f \in Frames /\ f.turns = frame[c].turns /\ f.at # "start" /\ f.stack = <<>>
      BY <1>4, EmptySeq DEF Frames
    <3>4. r \in LogEntries /\ r.vertex = c
      BY <1>3 DEF LogEntries
    <3> HIDE DEF c, stack, v, e, f, r
    <3>5. e = Len(adj[c]) + 1 /\ e + 1 = Len(adj[c]) + 2 /\ e + 1 <= Len(adj[c]) + 2
      BY <1>3, <2>1, <2>5
    <3>6. r = VertexLog(c)[e + 1]
      BY <2>4, <3>5 DEF r
    <3> QED
      BY <1>1, <2>2, <3>2, <3>3, <3>4, <3>5, <3>6, ReportAndYield DEF c
  <2>6. CASE e <= Len(adj[c]) /\ Inspect(c, c, e)
    <3> DEFINE top == [stack[1] EXCEPT !.edge = e + 1]
               f == [frame[c] EXCEPT !.at = "edge", !.to = adj[c][e],
                                     !.stack = [stack EXCEPT ![1] = top]]
               r == [event |-> "inspect", vertex |-> c, to |-> adj[c][e]]
    <3>1. Yield(c, f) /\ log' = Append(log, r)
      BY <2>1, <2>6 DEF Inspect, InspectThen
    <3> HIDE DEF c, stack, v, e, f, r
    <3>2. /\ e \in 1 .. Len(adj[c]) /\ e \in Nat /\ adj[c][e] \in Int
          /\ e + 1 <= Len(adj[c]) + 2
      BY <1>3, <2>1, <2>6
    <3>3. top \in StackEntries /\ top.edge = e + 1
      <4>1. 1 \in 1 .. Len(stack)
        BY <2>1
      <4>2. stack[1] \in StackEntries
        BY <1>5, <4>1, ElementOfSeq
      <4> QED
        BY <3>2, <4>2 DEF StackEntries
    <3> HIDE DEF top
    <3>4. /\ [stack EXCEPT ![1] = top] \in Seq(StackEntries) /\ [stack EXCEPT ![1] = top] # <<>>
          /\ [stack EXCEPT ![1] = top][1] = top
      <4>1. 1 \in 1 .. Len(stack) /\ Len(stack) = 1
        BY <2>1
      <4>2. /\ [stack EXCEPT ![1] = top] \in Seq(StackEntries)
            /\ Len([stack EXCEPT ![1] = top]) = Len(stack)
        BY <1>5, <3>3, <4>1, ExceptSeq
      <4>3. [stack EXCEPT ![1] = top][1] = top
        BY <1>5, <4>1, LenProperties
      <4>4. [stack EXCEPT ![1] = top] # <<>>
        BY <4>1, <4>2, EmptySeq
      <4> QED
        BY <4>2, <4>3, <4>4
    <3>5. /\ f \in Frames /\ f.turns = frame[c].turns /\ f.at # "start"
          /\ f.stack = [stack EXCEPT ![1] = top]
      BY <1>4, <3>2, <3>4 DEF Frames, f
    <3>6. f.stack # <<>> /\ f.stack[1].edge = e + 1
      BY <3>3, <3>4, <3>5
    <3>7. r \in LogEntries /\ r.vertex = c /\ r = VertexLog(c)[e + 1]
      BY <1>3, <2>4, <3>2 DEF LogEntries, r
    <3> QED
      BY <1>1, <2>2, <3>1, <3>2, <3>5, <3>6, <3>7, ReportAndYield DEF c
  <2>7. CASE Throw(c) /\ UNCHANGED log
    BY <1>1, <2>7, Silent DEF Throw
  <2> QED
    BY <2>3, <2>5, <2>6, <2>7
<1> QED
  BY <1>6, <1>7

(* Outside Run and during the unwinding nothing is logged. *)
LEMMA OutsideLogOK ==
  ASSUME LogOK, Return \/ DestroyNext \/ Rethrow
  PROVE  LogOK'
<1>1. UNCHANGED <<adj, log>>
  BY DEF Return, DestroyNext, Rethrow
<1>2. CASE Return
  BY <1>1, <1>2, Silent DEF Return, Reported
<1>3. CASE DestroyNext \/ Rethrow
  BY <1>1, <1>3, Silent DEF DestroyNext, Rethrow
<1> QED
  BY <1>2, <1>3

(* Stuttering. *)
LEMMA StutterLogOK ==
  ASSUME LogOK, UNCHANGED vars
  PROVE  LogOK'
<1>1. UNCHANGED <<adj, next, frame, log, outcome>>
  BY DEF vars
<1>2. Vertices' = Vertices /\ \A v : VertexLog(v)' = VertexLog(v) /\ Entries(v)' = Entries(v)
  BY <1>1 DEF Vertices, VertexLog, Entries
<1>3. \A v : (InOrder(v)' <=> InOrder(v)) /\ Reported(v)' = Reported(v)
  BY <1>1, <1>2 DEF InOrder, Rank, Reported
<1> QED
  BY <1>1, <1>2, <1>3 DEF LogOK

(* However the coroutines interleave and whatever the graph, every vertex is entered,
   each of its edges inspected once and in order, and the vertex left; the log of a call
   that returns lacks nothing (dfs.cpp 173-203). *)
THEOREM EdgesInspectedOnce == Spec => []EachEdgeOnce
<1>1. Init => LogOK
  BY InitLogOK
<1>2. IInv /\ LogOK /\ [Next]_vars => LogOK'
  BY SpawnLogOK, EnterLogOK, LoopLogOK, OutsideLogOK, StutterLogOK DEF Next
<1>3. ASSUME IInv, LogOK PROVE EachEdgeOnce
  <2> SUFFICES ASSUME NEW v \in Vertices
               PROVE  /\ Cardinality(Entries(v)) <= Len(VertexLog(v))
                      /\ \A i \in Entries(v) : log[i] = VertexLog(v)[Rank(i, Entries(v))]
                      /\ outcome = "returned" => Cardinality(Entries(v)) = Len(VertexLog(v))
    BY DEF EachEdgeOnce
  <2>1. v \in Int /\ adj[v] \in Seq(Int) /\ VertexCount \in Nat /\ v \in 0 .. VertexCount - 1
    BY <1>3 DEF IInv, GraphOK
  <2>2. Len(VertexLog(v)) = Len(adj[v]) + 2
    BY <2>1, VertexLogEntries
  <2>3. ASSUME outcome = "returned" PROVE Reported(v) = Len(adj[v]) + 2
    <3>1. v < next
      BY <1>3, <2>1, <2>3, Unwinding
    <3>2. v \notin DOMAIN frame
      <4>1. queue = <<>> /\ Len(queue) = 0
        BY <1>3, <2>3, EmptySeq DEF IInv, OutcomeOK
      <4>2. DOMAIN queue = {}
        BY <1>3, <4>1, Queued DEF IInv
      <4> QED
        BY <1>3, <4>2 DEF IInv, QueueOK, Range
    <3> QED
      BY <3>1, <3>2 DEF Reported
  <2> QED
    BY <1>3, <2>2, <2>3 DEF LogOK, InOrder
<1> QED
  BY <1>1, <1>2, <1>3, Invariance, PTL DEF Spec

=============================================================================
