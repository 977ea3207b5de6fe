---------------------------- MODULE ProcessPool ----------------------------
(***************************************************************************)
(* hw-6: class ProcessPool (process_pool.h, process_pool.cpp) and Future   *)
(* (future.h): the constructor, client threads that Submit tasks and call  *)
(* Get, worker processes behind a pair of sockets each, one reader thread  *)
(* per worker that completes the futures, and Shutdown.                    *)
(*                                                                         *)
(* A request or response is one element of its socket's queue: write_mutex *)
(* keeps requests whole, each response socket has one writer, and a record *)
(* cut short by the death of its writer is read as EOF.  The sockets'      *)
(* buffers are unbounded here.  A second Shutdown returns at once and      *)
(* changes nothing, so one thread calls it.  A spurious return of the      *)
(* futures' condition variable is waited out and changes nothing either.   *)
(***************************************************************************)
EXTENDS Naturals, Sequences

CONSTANTS
  Clients,          \* threads that call Submit
  N,                \* process_count
  Kinds,            \* the kinds of tasks that are submitted
  MayDie,           \* workers that may be killed, or crash in a task
  HostMayDie,       \* whether the program that owns the pool may end without Shutdown
  SpawnMayFail,     \* whether the system may refuse a socket, a process or a thread
  SigpipeIgnored,   \* the host program ignores SIGPIPE (the pool does not)
  MaxTasks          \* bound: tasks submitted in all

(* Outcomes of a task: it returns a value or nothing, or it throws; "mute" tasks
   throw an exception with an empty what(), from a void or a non-void function. *)
AllKinds == {"value", "void", "throws", "muteVoid", "muteValue"}

ASSUME PoolAssumption ==
  /\ N \in Nat \ {0}
  /\ Kinds \subseteq AllKinds
  /\ MayDie \subseteq 1 .. N
  /\ {HostMayDie, SpawnMayFail, SigpipeIgnored} \subseteq BOOLEAN
  /\ MaxTasks \in Nat

Workers == 1 .. N
Ids     == 1 .. MaxTasks

NoResponse == <<0, "Void">>

VARIABLES
  built,       \* the constructor: "fork", "threads", "ready" or "threw"
  next_task_id, pending, next_worker, stopping,
  kind,        \* the task behind each id
  future,      \* its shared state: "waiting", or how it was completed
  returned,    \* ids whose future Submit has returned
  getting,     \* Get on each of them: "no", "waiting", "woken" or "returned"
  cpc, cid, cw,        \* a client in Submit: where, its task_id and its worker
  request, response,   \* the sockets of each worker
  request_fd,          \* TRUE while the parent's end is open
  wpc, wid,    \* a worker: "none" yet, "read", "run" the task wid, or "gone"
  rpc, rgot,   \* a reader: "none", "read", "set" the response rgot, "notify", "done"
  spc, si,     \* Shutdown: its loop and the worker it is at
  failing,     \* the handlers FailAllPending has taken over,
  failed,      \* and the one it has just completed
  killed       \* the parent process has died: its threads stop

tasks   == <<built, next_task_id, kind>>
clients == <<cpc, cid, cw, next_worker>>
workers == <<wpc, wid>>
readers == <<rpc, rgot>>
fails   == <<failing, failed>>
stopper == <<spc, si, stopping, fails>>
sockets == <<request, response, request_fd>>
results == <<pending, future, returned, getting>>
vars == <<tasks, clients, workers, readers, stopper, sockets, results, killed>>

Init ==
  /\ built = "fork"
  /\ next_task_id = 1 /\ pending = {} /\ next_worker = 0 /\ stopping = FALSE
  /\ kind = [i \in Ids |-> "void"]
  /\ future = [i \in Ids |-> "waiting"]
  /\ returned = {}
  /\ getting = [i \in Ids |-> "no"]
  /\ cpc = [c \in Clients |-> "idle"]
  /\ cid = [c \in Clients |-> 0]
  /\ cw = [c \in Clients |-> 0]
  /\ request = [w \in Workers |-> <<>>]
  /\ response = [w \in Workers |-> <<>>]
  /\ request_fd = [w \in Workers |-> TRUE]
  /\ wpc = [w \in Workers |-> "none"]
  /\ wid = [w \in Workers |-> 0]
  /\ rpc = [w \in Workers |-> "none"]
  /\ rgot = [w \in Workers |-> NoResponse]
  /\ spc = "idle" /\ si = 1 /\ failing = {} /\ failed = 0
  /\ killed = FALSE

-----------------------------------------------------------------------------
(* The constructor *)

FirstWith(pc, w) == pc[w] = "none" /\ \A v \in 1 .. w - 1 : pc[v] # "none"

(* SpawnWorker *)
SpawnWorker(w) ==
  /\ ~killed
  /\ built = "fork" /\ FirstWith(wpc, w)
  /\ wpc' = [wpc EXCEPT ![w] = "read"]
  /\ built' = IF w = N THEN "threads" ELSE "fork"
  /\ UNCHANGED <<next_task_id, kind, clients, wid, readers, stopper, sockets, results, killed>>

StartReader(w) ==
  /\ ~killed
  /\ built = "threads" /\ FirstWith(rpc, w)
  /\ rpc' = [rpc EXCEPT ![w] = "read"]
  /\ built' = IF w = N THEN "ready" ELSE "threads"
  /\ UNCHANGED <<next_task_id, kind, clients, workers, rgot, stopper, sockets, results, killed>>

(* The constructor throws.  Nothing closes the descriptors of the workers already
   forked; a reader already started is joinable, and its destruction ends the
   program. *)
SpawnFails ==
  /\ SpawnMayFail /\ ~killed
  /\ built \in {"fork", "threads"}
  /\ built' = "threw"
  /\ killed' = (\E w \in Workers : rpc[w] # "none")
  /\ UNCHANGED <<next_task_id, kind, clients, workers, readers, stopper, sockets, results>>

-----------------------------------------------------------------------------
(* Submit *)

(* WriteExact on a worker's request socket: nobody reads it once the worker is
   gone, and the write raises SIGPIPE or, if that is ignored, fails. *)
Broken(w) == wpc[w] = "gone"

SubmitReturn(c) ==
  /\ cpc' = [cpc EXCEPT ![c] = "idle"]
  /\ cid' = [cid EXCEPT ![c] = 0]
  /\ cw' = [cw EXCEPT ![c] = 0]

(* The id is taken and its handler registered before anything is sent.  (An id
   that is taken and not yet registered is known to nobody else.) *)
SubmitRegister(c) ==
  /\ ~killed
  /\ built = "ready"
  /\ cpc[c] = "idle"
  /\ next_task_id <= MaxTasks
  /\ next_task_id' = next_task_id + 1
  /\ \E k \in Kinds : kind' = [kind EXCEPT ![next_task_id] = k]
  /\ pending' = pending \cup {next_task_id}
  /\ cid' = [cid EXCEPT ![c] = next_task_id]
  /\ cpc' = [cpc EXCEPT ![c] = "select"]
  /\ UNCHANGED <<built, future, returned, getting, cw, next_worker, workers, readers,
                 stopper, sockets, killed>>

SelectWorker(c, w) ==
  /\ ~killed
  /\ cpc[c] = "select"
  /\ IF stopping
       THEN SubmitReturn(c) /\ UNCHANGED next_worker
       ELSE /\ cw' = [cw EXCEPT ![c] = w]
            /\ next_worker' = (next_worker + 1) % N
            /\ cpc' = [cpc EXCEPT ![c] = "write"]
            /\ UNCHANGED cid
  /\ UNCHANGED <<tasks, workers, readers, stopper, sockets, results, killed>>

(* Faulty variant: the round-robin index is one too far. *)
SubmitSelectOffByOne(c) == SelectWorker(c, (next_worker % N) + 2)

(* Round-robin choice under workers_mutex_; a stopping pool throws, and leaves
   the handler behind. *)
SubmitSelect(c) == SelectWorker(c, (next_worker % N) + 1)

(* The request is written under write_mutex and the future returned.  A write to
   a socket that Shutdown has closed throws. *)
SubmitWrite(c) ==
  /\ ~killed
  /\ cpc[c] = "write"
  /\ request_fd[cw[c]]
  /\ ~Broken(cw[c])
  /\ request' = [request EXCEPT ![cw[c]] = Append(@, cid[c])]
  /\ returned' = returned \cup {cid[c]}
  /\ SubmitReturn(c)
  /\ UNCHANGED <<tasks, next_worker, workers, readers, stopper, response, request_fd,
                 pending, future, getting, killed>>

SubmitWriteFails(c) ==
  /\ ~killed
  /\ cpc[c] = "write"
  /\ ~request_fd[cw[c]] \/ Broken(cw[c])
  /\ killed' = (request_fd[cw[c]] /\ ~SigpipeIgnored)
  /\ SubmitReturn(c)
  /\ UNCHANGED <<tasks, next_worker, workers, readers, stopper, sockets, results>>

Submit(c) ==
  SubmitRegister(c) \/ SubmitSelect(c) \/ SubmitWrite(c) \/ SubmitWriteFails(c)

-----------------------------------------------------------------------------
(* Future: Get on a returned future.  It cannot be copied, so one thread has it. *)

Ready(i) == future[i] # "waiting"

CallsGet(i) == i \in returned /\ getting[i] \in {"no", "woken"}

GetTo(i, l) ==
  /\ ~killed
  /\ CallsGet(i)
  /\ getting' = [getting EXCEPT ![i] = l]
  /\ UNCHANGED <<tasks, clients, workers, readers, stopper, sockets, pending, future,
                 returned, killed>>

(* The predicate of cv.wait fails. *)
GetWait(i) == ~Ready(i) /\ GetTo(i, "waiting")

(* The value is returned or the error thrown. *)
GetReturn(i) == Ready(i) /\ GetTo(i, "returned")

Get(i) == GetWait(i) \/ GetReturn(i)

(* cv.notify_all, after the shared state was completed and unlocked. *)
NotifyAll(i) ==
  getting' = [getting EXCEPT ![i] = IF @ = "waiting" THEN "woken" ELSE @]

-----------------------------------------------------------------------------
(* WorkerLoop.  Stop is the request 0. *)

StopRequest == 0

(* What ExecuteTyped and the response header make of a task: only a non-empty
   error text counts as an exception, only a non-empty result as a value. *)
Status(k) ==
  CASE k = "throws" -> "Exception"
    [] k = "value"  -> "Value"
    [] OTHER        -> "Void"

(* The loop leaves on Stop and closes its ends; what is queued behind it is lost. *)
WorkerRead(w) ==
  /\ wpc[w] = "read"
  /\ request[w] # <<>>
  /\ request' = [request EXCEPT ![w] = Tail(@)]
  /\ IF Head(request[w]) = StopRequest
       THEN wpc' = [wpc EXCEPT ![w] = "gone"] /\ UNCHANGED wid
       ELSE /\ wpc' = [wpc EXCEPT ![w] = "run"]
            /\ wid' = [wid EXCEPT ![w] = Head(request[w])]
  /\ UNCHANGED <<tasks, clients, readers, stopper, response, request_fd, results, killed>>

(* Faulty variant: a worker does not close its own copy of the parent's end. *)
OrphanedHoldsEnd(w) == killed /\ \A v \in w .. N : wpc[v] \in {"none", "gone"}

(* Every worker keeps the parent's ends of the sockets of the workers forked
   before it, so the end of the parent reaches the last worker first. *)
Orphaned(w) == killed /\ \A v \in w + 1 .. N : wpc[v] \in {"none", "gone"}

RespondWith(w, records) ==
  /\ wpc[w] = "run"
  /\ response' = [response EXCEPT ![w] = @ \o records]
  /\ wpc' = [wpc EXCEPT ![w] = IF Orphaned(w) THEN "gone" ELSE "read"]
  /\ wid' = [wid EXCEPT ![w] = 0]
  /\ UNCHANGED <<tasks, clients, readers, stopper, request, request_fd, results, killed>>

(* Faulty variant: a task that throws is not answered. *)
WorkerRespondSilent(w) ==
  RespondWith(w, IF kind[wid[w]] = "throws" THEN <<>> ELSE <<<<wid[w], Status(kind[wid[w]])>>>>)

(* The response is written; a write that nobody can read any more ends the worker. *)
WorkerRespond(w) == RespondWith(w, <<<<wid[w], Status(kind[wid[w]])>>>>)

(* EOF on the request socket. *)
WorkerEof(w) ==
  /\ wpc[w] = "read" /\ request[w] = <<>>
  /\ Orphaned(w)
  /\ wpc' = [wpc EXCEPT ![w] = "gone"]
  /\ UNCHANGED <<tasks, clients, wid, readers, stopper, sockets, results, killed>>

(* The worker process is killed, or a task brings it down. *)
WorkerDies(w) ==
  /\ w \in MayDie
  /\ wpc[w] \in {"read", "run"}
  /\ wpc' = [wpc EXCEPT ![w] = "gone"]
  /\ UNCHANGED <<tasks, clients, wid, readers, stopper, sockets, results, killed>>

(* The program that owns the pool is killed or exits without destroying it. *)
HostDies ==
  /\ HostMayDie /\ ~killed
  /\ killed' = TRUE
  /\ UNCHANGED <<tasks, clients, workers, readers, stopper, sockets, results>>

-----------------------------------------------------------------------------
(* ReaderLoop *)

TakeResponse(w) ==
  /\ ~killed
  /\ rpc[w] = "read"
  /\ response[w] # <<>>
  /\ response' = [response EXCEPT ![w] = Tail(@)]
  /\ UNCHANGED <<tasks, clients, workers, stopper, request, request_fd, future, returned,
                 getting, killed>>

Hold(w) ==
  /\ rgot' = [rgot EXCEPT ![w] = Head(response[w])]
  /\ rpc' = [rpc EXCEPT ![w] = "set"]

(* Faulty variant: the handler stays registered after its response came. *)
ReaderReadKeep(w) == TakeResponse(w) /\ Hold(w) /\ UNCHANGED pending

(* A response is taken together with its handler; one without is dropped. *)
ReaderRead(w) ==
  /\ TakeResponse(w)
  /\ LET id == Head(response[w])[1]
     IN  IF id \in pending THEN Hold(w) /\ pending' = pending \ {id}
                           ELSE UNCHANGED <<pending, rgot, rpc>>

(* PendingValue<T> / PendingVoid: a value must have the size of T. *)
Completion(k, status) ==
  IF status = "Exception" \/ (status = "Void" /\ k \in {"value", "muteValue"})
    THEN "exception" ELSE "ok"

Complete(w, how) ==
  /\ ~killed
  /\ rpc[w] = "set"
  /\ future' = [future EXCEPT ![rgot[w][1]] = how]
  /\ rpc' = [rpc EXCEPT ![w] = "notify"]
  /\ UNCHANGED <<tasks, clients, workers, rgot, stopper, sockets, pending, returned, getting,
                 killed>>

(* Faulty variant: the status of the response is not looked at. *)
ReaderSetIgnoresStatus(w) == Complete(w, "ok")

(* SetValue or SetException, outside pending_mutex_, up to the unlock. *)
ReaderSet(w) == Complete(w, Completion(kind[rgot[w][1]], rgot[w][2]))

ReaderNotify(w) ==
  /\ ~killed
  /\ rpc[w] = "notify"
  /\ NotifyAll(rgot[w][1])
  /\ rpc' = [rpc EXCEPT ![w] = "read"]
  /\ rgot' = [rgot EXCEPT ![w] = NoResponse]
  /\ UNCHANGED <<tasks, clients, workers, stopper, sockets, pending, future, returned, killed>>

(* ReadExact has nothing left to read from a worker whose end is closed. *)
AtEof(w) == response[w] = <<>> /\ wpc[w] = "gone"

(* The handlers of the worker's unanswered tasks stay registered. *)
ReaderEof(w) ==
  /\ ~killed
  /\ rpc[w] = "read"
  /\ AtEof(w)
  /\ rpc' = [rpc EXCEPT ![w] = "done"]
  /\ UNCHANGED <<tasks, clients, workers, rgot, stopper, sockets, results, killed>>

-----------------------------------------------------------------------------
(* Shutdown: three loops over the workers, then FailAllPending *)

Advance(loop, next) ==
  IF si < N THEN spc' = loop /\ si' = si + 1
            ELSE spc' = next /\ si' = 1

ShutdownBegin ==
  /\ ~killed
  /\ built = "ready" /\ spc = "idle"
  /\ stopping' = TRUE
  /\ spc' = "stop"
  /\ UNCHANGED <<si, fails, tasks, clients, workers, readers, sockets, results, killed>>

StopWorker(told) ==
  /\ ~killed
  /\ spc = "stop"
  /\ request' = IF told THEN [request EXCEPT ![si] = Append(@, StopRequest)] ELSE request
  /\ killed' = (Broken(si) /\ ~SigpipeIgnored)
  /\ Advance("stop", "join")
  /\ UNCHANGED <<stopping, fails, tasks, clients, workers, readers, response, request_fd,
                 results>>

(* Faulty variant: only the first worker is told to stop. *)
ShutdownStopFirst == StopWorker(~Broken(si) /\ si = 1)

(* An error of the write is swallowed; SIGPIPE is not an error of the write. *)
ShutdownStop == StopWorker(~Broken(si))

(* Faulty variant: the readers are not joined. *)
ShutdownNoJoin ==
  /\ ~killed
  /\ spc = "join"
  /\ Advance("join", "close")
  /\ UNCHANGED <<stopping, fails, tasks, clients, workers, readers, sockets, results, killed>>

ShutdownJoin ==
  /\ ~killed
  /\ spc = "join"
  /\ rpc[si] = "done"
  /\ Advance("join", "close")
  /\ UNCHANGED <<stopping, fails, tasks, clients, workers, readers, sockets, results, killed>>

(* close and waitpid *)
ShutdownClose ==
  /\ ~killed
  /\ spc = "close"
  /\ wpc[si] = "gone"
  /\ request_fd' = [request_fd EXCEPT ![si] = FALSE]
  /\ Advance("close", "swap")
  /\ UNCHANGED <<stopping, fails, tasks, clients, workers, readers, request, response,
                 results, killed>>

(* FailAllPending takes the map, and completes what is in it one by one. *)
FailAllPending ==
  /\ ~killed
  /\ spc = "swap"
  /\ failing' = pending
  /\ pending' = {}
  /\ spc' = "fail"
  /\ UNCHANGED <<si, stopping, failed, tasks, clients, workers, readers, sockets, future,
                 returned, getting, killed>>

FailSet(i) ==
  /\ ~killed
  /\ spc = "fail" /\ i \in failing
  /\ future' = [future EXCEPT ![i] = "shutdown"]
  /\ failing' = failing \ {i}
  /\ spc' = "notify" /\ failed' = i
  /\ UNCHANGED <<si, stopping, tasks, clients, workers, readers, sockets, pending, returned,
                 getting, killed>>

FailNotify ==
  /\ ~killed
  /\ spc = "notify"
  /\ NotifyAll(failed)
  /\ spc' = "fail" /\ failed' = 0
  /\ UNCHANGED <<si, stopping, failing, tasks, clients, workers, readers, sockets, pending,
                 future, returned, killed>>

ShutdownEnd ==
  /\ ~killed
  /\ spc = "fail" /\ failing = {}
  /\ spc' = "done"
  /\ UNCHANGED <<si, stopping, fails, tasks, clients, workers, readers, sockets, results,
                 killed>>

ShutdownStep ==
  \/ ShutdownStop \/ ShutdownJoin \/ ShutdownClose \/ FailAllPending \/ ShutdownEnd
  \/ \E i \in Ids : FailSet(i)
  \/ FailNotify

-----------------------------------------------------------------------------
Construct == (\E w \in Workers : SpawnWorker(w) \/ StartReader(w)) \/ SpawnFails

WorkerStep(w) == WorkerRead(w) \/ WorkerRespond(w) \/ WorkerEof(w)

ReaderStep(w) == ReaderRead(w) \/ ReaderSet(w) \/ ReaderNotify(w) \/ ReaderEof(w)

Next ==
  \/ Construct
  \/ \E c \in Clients : Submit(c)
  \/ \E i \in Ids : Get(i)
  \/ \E w \in Workers : WorkerStep(w) \/ WorkerDies(w) \/ ReaderStep(w)
  \/ ShutdownBegin
  \/ ShutdownStep
  \/ HostDies

(* Threads and processes are scheduled, tasks end, and started calls go on.
   Nobody is obliged to call Submit, Get or Shutdown. *)
Fairness ==
  /\ \A c \in Clients : WF_vars(cpc[c] # "idle" /\ Submit(c))
  /\ \A i \in Ids : WF_vars(getting[i] = "woken" /\ Get(i))
  /\ \A w \in Workers : WF_vars(WorkerStep(w)) /\ WF_vars(ReaderStep(w))
  /\ WF_vars(ShutdownStep)

Spec == Init /\ [][Next]_vars

FairSpec == Spec /\ Fairness

-----------------------------------------------------------------------------
(* Ids, workers and the loops' positions stay in their ranges. *)
TypeOK ==
  /\ built \in {"fork", "threads", "ready", "threw"}
  /\ next_task_id \in 1 .. MaxTasks + 1
  /\ pending \subseteq Ids /\ returned \subseteq Ids /\ failing \subseteq Ids
  /\ failed \in 0 .. MaxTasks
  /\ next_worker \in 0 .. N - 1
  /\ stopping \in BOOLEAN /\ killed \in BOOLEAN
  /\ kind \in [Ids -> AllKinds]
  /\ future \in [Ids -> {"waiting", "ok", "exception", "shutdown"}]
  /\ getting \in [Ids -> {"no", "waiting", "woken", "returned"}]
  /\ cpc \in [Clients -> {"idle", "select", "write"}]
  /\ cid \in [Clients -> 0 .. MaxTasks]
  /\ cw \in [Clients -> 0 .. N]
  /\ request \in [Workers -> Seq(0 .. MaxTasks)]
  /\ response \in [Workers -> Seq(Ids \X {"Value", "Void", "Exception"})]
  /\ request_fd \in [Workers -> BOOLEAN]
  /\ wpc \in [Workers -> {"none", "read", "run", "gone"}]
  /\ wid \in [Workers -> 0 .. MaxTasks]
  /\ rpc \in [Workers -> {"none", "read", "set", "notify", "done"}]
  /\ rgot \in [Workers -> (0 .. MaxTasks) \X {"Value", "Void", "Exception"}]
  /\ spc \in {"idle", "stop", "join", "close", "swap", "fail", "notify", "done"}
  /\ si \in Workers

(* A future reports what its own task did: a result exactly when the task
   returned, an exception exactly when it threw, or the shutdown. *)
ResultMatches ==
  \A i \in Ids :
    /\ future[i] = "ok" => kind[i] \in {"value", "void"}
    /\ future[i] = "exception" => kind[i] \in {"throws", "muteVoid", "muteValue"}

(* A future is completed once: the reader that has the response and the
   FailAllPending of a shutdown never both complete it. *)
CompletedOnce ==
  [][\A i \in Ids : future[i] # "waiting" => future'[i] = future[i]]_vars

(* When Shutdown is over, no future is left for anybody to wait on and no worker
   is left behind, whatever Submits raced with it and whichever workers died. *)
ShutdownLeavesNothing ==
  spc = "done" => /\ \A i \in returned : future[i] # "waiting"
                  /\ \A w \in Workers : wpc[w] = "gone" /\ rpc[w] = "done"

(* A returned future is completed and a Get that waits for it returns, unless the
   program ends or a worker died; even then once somebody shuts the pool down
   (process_pool.cpp 167-215, future.h 38-59). *)
FutureCompletes ==
  LET excused == killed \/ (~stopping /\ \E w \in MayDie : wpc[w] = "gone")
  IN  \A i \in Ids :
        /\ i \in returned ~> Ready(i) \/ excused
        /\ getting[i] = "waiting" ~> getting[i] = "returned" \/ excused

(* Shutdown returns. *)
ShutdownReturns == stopping ~> spc = "done" \/ killed

(* When the program that owns the pool ends, however it does, no worker process is
   left: each sees the end of its socket although later workers hold copies of the
   parent's end of it (process_pool.cpp 99-107, 121-123). *)
OrphansLeave == killed ~> \A w \in Workers : wpc[w] \in {"none", "gone"}

(* Submit on a stopping pool, or with a dead worker, throws; it does not take the
   host program down. *)
ParentSurvives == ~killed

=============================================================================
