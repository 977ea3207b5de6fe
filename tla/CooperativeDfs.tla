--------------------------- MODULE CooperativeDfs ---------------------------
(***************************************************************************)
(* hw-1: CooperativeDFS, its coroutines and their scheduler (dfs.cpp).     *)
(*                                                                         *)
(* There is one thread.  A step is one iteration of a loop of the calling  *)
(* side: CooperativeDFS spawning a coroutine, Scheduler::Run resuming one  *)
(* until it yields, ends or throws, or ~Scheduler destroying one.  What    *)
(* varies is the graph.  A coroutine is named by its start vertex.         *)
(***************************************************************************)
EXTENDS Integers, Sequences, FiniteSets, Functions

CONSTANTS
  MaxVertices,   \* bound: vertices of the graph
  MaxDegree,     \* bound: edges out of a vertex
  MaxEdges       \* bound: edges of the graph

ASSUME BoundsAssumption == {MaxVertices, MaxDegree, MaxEdges} \subseteq Nat

VARIABLES
  adj,       \* the graph: adjacent vertices, valid or not, of 0 .. n - 1
  next,      \* the loop variable of CooperativeDFS
  queue,     \* ready_queue_
  frame,     \* the coroutine frames that exist
  visited,
  order,     \* traversal_order
  log,
  outcome    \* of CooperativeDFS

vars == <<adj, next, queue, frame, visited, order, log, outcome>>

Vertices == DOMAIN adj

VertexCount == Cardinality(Vertices)

AdjacencyLists(n) == UNION {[1 .. d -> -1 .. n] : d \in 0 .. MaxDegree}

(* A frame is suspended before its first statement ("start"), at a co_await that
   leads back to the head of the loop ("loop"), or between the inspection of an
   edge and the test of visited[to] ("edge").  turns counts its resumptions. *)
NewFrame == [at |-> "start", stack |-> <<>>, to |-> 0, turns |-> 0]

Init ==
  /\ \E n \in 0 .. MaxVertices : adj \in [0 .. n - 1 -> AdjacencyLists(n)]
  /\ FoldFunction(LAMBDA l, sum : Len(l) + sum, 0, adj) <= MaxEdges
  /\ next = 0
  /\ queue = <<>>
  /\ frame = [c \in {} |-> NewFrame]
  /\ visited = {}
  /\ order = <<>>
  /\ log = <<>>
  /\ outcome = "none"

-----------------------------------------------------------------------------
(* CooperativeDFS *)

(* The coroutine suspends initially, so nothing of it runs yet. *)
Spawn ==
  /\ next < VertexCount
  /\ next' = next + 1
  /\ IF next \notin visited
     THEN /\ frame' = [c \in DOMAIN frame \cup {next} |->
                         IF c = next THEN NewFrame ELSE frame[c]]
          /\ queue' = Append(queue, next)
     ELSE UNCHANGED <<frame, queue>>
  /\ UNCHANGED <<adj, visited, order, log, outcome>>

Return ==
  /\ outcome = "none" /\ next = VertexCount /\ queue = <<>>
  /\ outcome' = "returned"
  /\ UNCHANGED <<adj, next, queue, frame, visited, order, log>>

-----------------------------------------------------------------------------
(* One resumption of the coroutine c at the front of the queue *)

Suspend(c, f) ==
  /\ frame' = [frame EXCEPT ![c] = [f EXCEPT !.turns = @ + 1]]
  /\ UNCHANGED outcome

(* Faulty variant: the coroutine gets the next turn, too. *)
YieldToItself(c, f) == Suspend(c, f) /\ UNCHANGED queue

(* YieldAwaiter::await_suspend puts the handle at the end of the queue. *)
Yield(c, f) == Suspend(c, f) /\ queue' = Append(Tail(queue), c)

Destroy(c) == frame' = Restrict(frame, DOMAIN frame \ {c})

(* At the final suspension Run destroys the frame. *)
Finish(c) == queue' = Tail(queue) /\ Destroy(c) /\ UNCHANGED outcome

(* Faulty variant: Run rethrows without destroying the frame. *)
ThrowLeaks(c) == queue' = Tail(queue) /\ outcome' = "unwinding" /\ UNCHANGED frame

(* unhandled_exception keeps the exception; Run destroys the frame and rethrows. *)
Throw(c) == queue' = Tail(queue) /\ outcome' = "unwinding" /\ Destroy(c)

(* A vertex is recorded and pushed, its edges all still to be followed. *)
Push(c, v, stack) ==
  /\ order' = Append(order, v)
  /\ log' = Append(log, [event |-> "enter", vertex |-> v])
  /\ Yield(c, [frame[c] EXCEPT !.at = "loop", !.stack = Append(stack, [vertex |-> v, edge |-> 1])])

(* Faulty variant: the vertex is not marked. *)
EnterUnmarked(c, v, stack) == Push(c, v, stack) /\ UNCHANGED visited

Enter(c, v, stack) == Push(c, v, stack) /\ visited' = visited \cup {v}

Leave(c) ==
  LET stack == frame[c].stack
  IN  /\ log' = Append(log, [event |-> "leave", vertex |-> stack[Len(stack)].vertex])
      /\ Yield(c, [frame[c] EXCEPT !.at = "loop", !.stack = SubSeq(stack, 1, Len(stack) - 1)])

(* Faulty variant: the vertex behind the last is accepted. *)
IsVertexOffByOne(to) == to >= 0 /\ to <= VertexCount

IsVertex(to) == to >= 0 /\ to < VertexCount

InspectThen(c, v, e, following) ==
  /\ log' = Append(log, [event |-> "inspect", vertex |-> v, to |-> adj[v][e]])
  /\ Yield(c, [frame[c] EXCEPT !.at = "edge", !.to = adj[v][e],
                               !.stack[Len(frame[c].stack)].edge = following])

(* Faulty variant: next_edge_index is not advanced. *)
InspectSame(c, v, e) == InspectThen(c, v, e, e)

Inspect(c, v, e) == InspectThen(c, v, e, e + 1)

(* The loop, from its head to the next suspension. *)
Loop(c) ==
  LET stack == frame[c].stack
      v == stack[Len(stack)].vertex
      e == stack[Len(stack)].edge
  IN  /\ UNCHANGED <<visited, order>>
      /\ \/ stack = <<>> /\ Finish(c) /\ UNCHANGED log
         \/ stack # <<>> /\ e > Len(adj[v]) /\ Leave(c)
         \/ stack # <<>> /\ e <= Len(adj[v]) /\ IsVertex(adj[v][e]) /\ Inspect(c, v, e)
         \/ stack # <<>> /\ e <= Len(adj[v]) /\ ~IsVertex(adj[v][e]) /\ Throw(c)
                         /\ UNCHANGED log

(* Nothing queued is done: Run destroys a coroutine as soon as it ends. *)
Resume ==
  /\ outcome = "none" /\ next = VertexCount /\ queue # <<>>
  /\ LET c == Head(queue)
         f == frame[c]
     IN  IF f.at = "start" THEN Enter(c, c, <<>>)
         ELSE IF f.at = "edge" /\ f.to \notin visited THEN Enter(c, f.to, f.stack)
         ELSE Loop(c)
  /\ UNCHANGED <<adj, next>>

-----------------------------------------------------------------------------
(* ~Scheduler, after an exception *)

(* Faulty variant: front() without pop_front(). *)
DestroyNextStays ==
  /\ outcome = "unwinding" /\ queue # <<>>
  /\ Destroy(Head(queue))
  /\ UNCHANGED <<adj, next, queue, visited, order, log, outcome>>

DestroyNext ==
  /\ outcome = "unwinding" /\ queue # <<>>
  /\ queue' = Tail(queue)
  /\ Destroy(Head(queue))
  /\ UNCHANGED <<adj, next, visited, order, log, outcome>>

Rethrow ==
  /\ outcome = "unwinding" /\ queue = <<>>
  /\ outcome' = "threw"
  /\ UNCHANGED <<adj, next, queue, frame, visited, order, log>>

Next == Spawn \/ Resume \/ Return \/ DestroyNext \/ Rethrow

(* The one thread runs. *)
Spec == Init /\ [][Next]_vars /\ WF_vars(Next)

-----------------------------------------------------------------------------
(* The queue and the stacks hold vertices, and stacks never outgrow the graph. *)
TypeOK ==
  /\ next \in 0 .. VertexCount
  /\ Range(queue) \subseteq Vertices
  /\ DOMAIN frame \subseteq Vertices
  /\ \A c \in DOMAIN frame :
       /\ frame[c].at \in {"start", "loop", "edge"}
       /\ frame[c].to \in Vertices
       /\ frame[c].turns \in Nat
       /\ Len(frame[c].stack) <= VertexCount
       /\ \A i \in DOMAIN frame[c].stack :
            LET top == frame[c].stack[i]
            IN  top.vertex \in Vertices /\ top.edge \in 1 .. Len(adj[top.vertex]) + 1
  /\ visited \subseteq Vertices
  /\ Range(order) \subseteq visited
  /\ outcome \in {"none", "unwinding", "returned", "threw"}

(* Every frame that exists is queued, once, and everything queued exists: no frame
   is leaked, resumed or destroyed twice, also when an exception leaves Run
   (dfs.cpp 86-95, 108-130). *)
FramesQueuedOnce ==
  /\ Range(queue) = DOMAIN frame
  /\ IsInjective(queue)
  /\ outcome \in {"returned", "threw"} => DOMAIN frame = {}

(* The traversal order is the order of the indices, whatever the edges are, and a
   call that returns has every vertex in it: each occurs exactly once, as the tests
   expect (dfs.cpp 213-217, 170-171, 196-198; test.cpp 13-27). *)
TraversalOrder ==
  /\ order = [i \in 1 .. Len(order) |-> i - 1]
  /\ outcome = "returned" => Len(order) = VertexCount

(* CooperativeDFS throws exactly if some edge leads nowhere (dfs.cpp 189-191). *)
ThrowsIffInvalid ==
  LET invalid == \E v \in Vertices : \E i \in DOMAIN adj[v] : adj[v][i] \notin Vertices
  IN  /\ outcome = "returned" => ~invalid
      /\ outcome = "threw" => invalid

(* What the log has to say about a vertex in the end. *)
VertexLog(v) ==
  <<[event |-> "enter", vertex |-> v]>>
  \o [i \in 1 .. Len(adj[v]) |-> [event |-> "inspect", vertex |-> v, to |-> adj[v][i]]]
  \o <<[event |-> "leave", vertex |-> v]>>

(* The place of i in a set of numbers, counted from 1. *)
Rank(i, S) == Cardinality({j \in S : j <= i})

Entries(v) == {i \in DOMAIN log : log[i].vertex = v}

(* However the coroutines interleave, the log shows every vertex entered, its edges
   inspected in their order, once each, and the vertex left; nothing is missing
   when the call returns (dfs.cpp 173-203). *)
EachEdgeOnce ==
  \A v \in Vertices :
    /\ Cardinality(Entries(v)) <= Len(VertexLog(v))
    /\ \A i \in Entries(v) : log[i] = VertexLog(v)[Rank(i, Entries(v))]
    /\ outcome = "returned" => Cardinality(Entries(v)) = Len(VertexLog(v))

(* Coroutines take turns: none is resumed twice before every other one that is
   still there has been resumed (dfs.cpp 104-106, 109-114). *)
TurnsAlternate ==
  \A c, d \in DOMAIN frame : frame[c].turns <= frame[d].turns + 1

(* The call returns or throws, whatever the graph. *)
Terminates == <>(outcome \in {"returned", "threw"})

=============================================================================
