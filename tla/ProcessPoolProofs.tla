------------------------- MODULE ProcessPoolProofs -------------------------
(***************************************************************************)
(* Proofs about hw-6's pool, for any set of clients, any number of workers *)
(* that die at any point, any tasks and any host program.                  *)
(*                                                                         *)
(* The argument is where the handler of a task is.  It is registered,      *)
(* taken by a reader, taken by FailAllPending, or gone with its future     *)
(* completed, and always exactly one of these.                             *)
(***************************************************************************)
EXTENDS ProcessPool, SequenceTheorems, TLAPS

(* The ids that Submit has taken. *)
Known == 1 .. next_task_id - 1

(* The only records that a worker ever writes: what its task really did. *)
Answers == {<<i, Status(kind[i])>> : i \in Known}

(* The handler of i is in the hands of the reader w, or of some reader. *)
HeldBy(w, i) == rpc[w] = "set" /\ rgot[w][1] = i
Held(i) == \E w \in Workers : HeldBy(w, i)

TasksOK ==
  /\ built \in {"fork", "threads", "ready", "threw"}
  /\ next_task_id \in 1 .. MaxTasks + 1
  /\ kind \in [Ids -> AllKinds]
  /\ \A i \in Known : kind[i] \in Kinds

ClientsOK ==
  /\ next_worker \in 0 .. N - 1
  /\ cpc \in [Clients -> {"idle", "select", "write"}]
  /\ cid \in [Clients -> {0} \cup Known]
  /\ cw \in [Clients -> {0} \cup Workers]
  /\ \A c \in Clients : /\ cpc[c] # "idle" => cid[c] # 0
                        /\ cpc[c] = "write" => cw[c] # 0

SocketsOK ==
  /\ request \in [Workers -> Seq({StopRequest} \cup Known)]
  /\ response \in [Workers -> Seq(Answers)]
  /\ request_fd \in [Workers -> BOOLEAN]

WorkersOK ==
  /\ wpc \in [Workers -> {"none", "read", "run", "gone"}]
  /\ wid \in [Workers -> {0} \cup Known]
  /\ \A w \in Workers : wpc[w] = "run" => wid[w] # 0

(* A reader leaves its loop when its worker is gone and has said everything. *)
ReadersOK ==
  /\ rpc \in [Workers -> {"none", "read", "set", "notify", "done"}]
  /\ rgot \in [Workers -> {NoResponse} \cup Answers]
  /\ \A w \in Workers : rpc[w] = "set" => rgot[w] \in Answers
  /\ \A w \in Workers : rpc[w] = "done" => wpc[w] = "gone" /\ response[w] = <<>>

(* Every handler is in one place, and a future waits as long as it has one. *)
HandlersOK ==
  /\ pending \subseteq Known /\ failing \subseteq Known
  /\ pending \cap failing = {}
  /\ \A i \in pending \cup failing : ~Held(i)
  /\ \A v, w \in Workers : \A i \in Known : HeldBy(v, i) /\ HeldBy(w, i) => v = w
  /\ \A i \in Ids :
       future[i] = "waiting" <=> i \notin Known \/ i \in pending \cup failing \/ Held(i)

FuturesOK ==
  /\ returned \subseteq Known /\ failed \in {0} \cup Known
  /\ future \in [Ids -> {"waiting", "ok", "exception", "shutdown"}]
  /\ getting \in [Ids -> {"no", "waiting", "woken", "returned"}]
  /\ \A i \in Ids : future[i] \in {"ok", "exception"} =>
       i \in Known /\ future[i] = Completion(kind[i], Status(kind[i]))

(* What the loops of Shutdown have achieved. *)
ShutdownOK ==
  /\ stopping \in BOOLEAN /\ killed \in BOOLEAN
  /\ spc \in {"idle", "stop", "join", "close", "swap", "fail", "notify", "done"}
  /\ si \in Workers
  /\ failing # {} => spc \in {"fail", "notify"}
  /\ \A w \in Workers :
       /\ spc = "join" /\ w < si => rpc[w] = "done"
       /\ spc \in {"close", "swap", "fail", "notify", "done"} => rpc[w] = "done"
       /\ spc = "close" /\ w < si => ~request_fd[w]
       /\ spc \in {"swap", "fail", "notify", "done"} => ~request_fd[w]
  /\ spc \in {"fail", "notify", "done"} => pending \cap returned = {}

IInv ==
  /\ TasksOK /\ ClientsOK /\ SocketsOK /\ WorkersOK /\ ReadersOK
  /\ HandlersOK /\ FuturesOK /\ ShutdownOK

-----------------------------------------------------------------------------
(* Which variables each part of the invariant looks at *)

(* The part on the task ids and kinds. *)
LEMMA KeepTasks ==
  ASSUME TasksOK, UNCHANGED tasks
  PROVE  TasksOK'
BY DEF TasksOK, tasks, Known

(* The part on the calls of Submit. *)
LEMMA KeepClients ==
  ASSUME ClientsOK, UNCHANGED <<clients, next_task_id>>
  PROVE  ClientsOK'
BY DEF ClientsOK, clients, Known

(* The part on the sockets. *)
LEMMA KeepSockets ==
  ASSUME SocketsOK, UNCHANGED <<sockets, next_task_id, kind>>
  PROVE  SocketsOK'
BY DEF SocketsOK, sockets, Known, Answers

(* The part on the workers. *)
LEMMA KeepWorkers ==
  ASSUME WorkersOK, UNCHANGED <<workers, next_task_id>>
  PROVE  WorkersOK'
BY DEF WorkersOK, workers, Known

(* The part on the readers. *)
LEMMA KeepReaders ==
  ASSUME ReadersOK, UNCHANGED <<readers, next_task_id, kind, wpc, response>>
  PROVE  ReadersOK'
BY DEF ReadersOK, readers, Known, Answers

(* The part on where handlers are. *)
LEMMA KeepHandlers ==
  ASSUME HandlersOK, UNCHANGED <<readers, pending, failing, future, next_task_id>>
  PROVE  HandlersOK'
BY DEF HandlersOK, readers, Known, Held, HeldBy

(* The part on the futures. *)
LEMMA KeepFutures ==
  ASSUME FuturesOK, UNCHANGED <<returned, failed, future, getting, next_task_id, kind>>
  PROVE  FuturesOK'
BY DEF FuturesOK, Known

(* The part on Shutdown. *)
LEMMA KeepShutdown ==
  ASSUME ShutdownOK, UNCHANGED <<spc, si, stopping, failing, killed, rpc, request_fd,
                                 pending, returned>>
  PROVE  ShutdownOK'
BY DEF ShutdownOK

(* At first there are no tasks and nothing has started. *)
LEMMA InitIInv == Init => IInv
<1> SUFFICES ASSUME Init PROVE IInv
  OBVIOUS
<1>1. N \in Nat \ {0} /\ MaxTasks \in Nat /\ Known = {}
  BY PoolAssumption DEF Init, Known
<1>2. TasksOK
  BY <1>1 DEF Init, TasksOK, AllKinds, Ids
<1>3. ClientsOK
  BY <1>1 DEF Init, ClientsOK
<1>4. SocketsOK
  BY DEF Init, SocketsOK
<1>5. WorkersOK
  BY DEF Init, WorkersOK
<1>6. ReadersOK
  BY DEF Init, ReadersOK
<1>7. HandlersOK
  BY <1>1 DEF Init, HandlersOK, Held, HeldBy
<1>8. FuturesOK
  BY DEF Init, FuturesOK
<1>9. ShutdownOK
  <2>1. /\ spc = "idle" /\ si = 1 /\ failing = {} /\ stopping = FALSE /\ killed = FALSE
        /\ 1 \in Workers
    BY <1>1 DEF Init, Workers
  <2> QED
    BY <2>1 DEF ShutdownOK
<1> QED
  BY <1>2, <1>3, <1>4, <1>5, <1>6, <1>7, <1>8, <1>9 DEF IInv

-----------------------------------------------------------------------------
(* The constructor *)

(* Forking a worker. *)
LEMMA SpawnWorkerIInv ==
  ASSUME IInv, NEW w \in Workers, SpawnWorker(w)
  PROVE  IInv'
<1>1. /\ wpc[w] = "none" /\ wpc' = [wpc EXCEPT ![w] = "read"]
      /\ built' \in {"fork", "threads"}
  BY DEF SpawnWorker, FirstWith
<1>2. UNCHANGED <<next_task_id, kind, clients, wid, readers, stopper, sockets, results, killed>>
  BY DEF SpawnWorker
<1>3. TasksOK'
  BY <1>1, <1>2 DEF IInv, TasksOK, Known
<1>4. WorkersOK'
  BY <1>1, <1>2 DEF IInv, WorkersOK, Known
<1>5. ReadersOK'
  BY <1>1, <1>2 DEF IInv, WorkersOK, ReadersOK, Known, Answers, readers, sockets
<1> QED
  BY <1>2, <1>3, <1>4, <1>5, KeepClients, KeepSockets, KeepHandlers, KeepFutures, KeepShutdown
     DEF IInv, stopper, fails, sockets, results, readers

(* Starting a reader. *)
LEMMA StartReaderIInv ==
  ASSUME IInv, NEW w \in Workers, StartReader(w)
  PROVE  IInv'
<1>1. /\ rpc[w] = "none" /\ rpc' = [rpc EXCEPT ![w] = "read"]
      /\ built' \in {"threads", "ready"}
  BY DEF StartReader, FirstWith
<1>2. UNCHANGED <<next_task_id, kind, clients, workers, rgot, stopper, sockets, results, killed>>
  BY DEF StartReader
<1>3. TasksOK'
  BY <1>1, <1>2 DEF IInv, TasksOK, Known
<1>4. ReadersOK'
  BY <1>1, <1>2 DEF IInv, ReadersOK, Known, Answers, workers, sockets
<1>5. \A v \in Workers : rpc'[v] = rpc[v] \/ (v = w /\ rpc'[v] = "read")
  BY <1>1 DEF IInv, ReadersOK
<1>6. \A v \in Workers : \A i : HeldBy(v, i)' <=> HeldBy(v, i)
  BY <1>1, <1>2, <1>5 DEF HeldBy
<1>7. HandlersOK'
  BY <1>2, <1>6 DEF IInv, HandlersOK, Held, Known, stopper, fails, results
<1>8. ShutdownOK'
  BY <1>1, <1>2, <1>5 DEF IInv, ShutdownOK, stopper, fails, sockets, results
<1> QED
  BY <1>2, <1>3, <1>4, <1>7, <1>8, KeepClients, KeepSockets, KeepWorkers, KeepFutures
     DEF IInv, stopper, fails, results

(* The constructor throws; the host program ends. *)
LEMMA HostIInv ==
  ASSUME IInv, SpawnFails \/ HostDies
  PROVE  IInv'
<1>1. /\ UNCHANGED <<next_task_id, kind, clients, workers, readers, stopper, sockets, results>>
      /\ built' \in {built, "threw"} /\ killed' \in BOOLEAN
  BY DEF SpawnFails, HostDies, tasks
<1>2. TasksOK'
  BY <1>1 DEF IInv, TasksOK, Known
<1>3. ShutdownOK'
  BY <1>1 DEF IInv, ShutdownOK, stopper, fails, results, sockets, readers
<1> QED
  BY <1>1, <1>2, <1>3, KeepClients, KeepSockets, KeepWorkers, KeepReaders, KeepHandlers,
     KeepFutures DEF IInv, stopper, fails, results, workers, sockets, readers

-----------------------------------------------------------------------------
(* Submit *)

(* A new id is known to nobody yet: its handler is registered before anybody can
   answer for it. *)
LEMMA SubmitRegisterIInv ==
  ASSUME IInv, NEW c \in Clients, SubmitRegister(c)
  PROVE  IInv'
<1> DEFINE n == next_task_id
<1>1. /\ n \in 1 .. MaxTasks /\ MaxTasks \in Nat /\ n \in Ids
      /\ next_task_id' = n + 1
  BY PoolAssumption DEF IInv, TasksOK, SubmitRegister, Ids
<1>2. PICK k \in Kinds : kind' = [kind EXCEPT ![n] = k]
  BY DEF SubmitRegister
<1>3. /\ pending' = pending \cup {n}
      /\ cid' = [cid EXCEPT ![c] = n] /\ cpc' = [cpc EXCEPT ![c] = "select"]
      /\ UNCHANGED <<built, future, returned, getting, cw, next_worker, workers, readers,
                     stopper, sockets, killed>>
  BY DEF SubmitRegister
<1>4. Known' = Known \cup {n} /\ n \notin Known /\ Known \subseteq Ids /\ 0 \notin Known
  BY <1>1 DEF Known, Ids
<1>5. kind \in [Ids -> AllKinds] /\ Kinds \subseteq AllKinds
  BY PoolAssumption DEF IInv, TasksOK
<1>6. /\ kind'[n] = k /\ \A i \in Known : kind'[i] = kind[i]
      /\ kind' \in [Ids -> AllKinds]
  BY <1>1, <1>2, <1>4, <1>5
<1>7. Answers \subseteq Answers'
  BY <1>4, <1>6 DEF Answers
<1>8. TasksOK'
  <2>1. \A i \in Known' : kind'[i] \in Kinds
    BY <1>4, <1>6 DEF IInv, TasksOK
  <2>2. next_task_id' \in 1 .. MaxTasks + 1
    BY <1>1
  <2> QED
    BY <1>3, <1>6, <2>1, <2>2 DEF IInv, TasksOK
<1>9. ClientsOK'
  BY <1>1, <1>3, <1>4 DEF IInv, ClientsOK
<1>10. SocketsOK'
  <2>1. /\ Seq({StopRequest} \cup Known) \subseteq Seq({StopRequest} \cup Known')
        /\ Seq(Answers) \subseteq Seq(Answers')
    <3>1. {StopRequest} \cup Known \subseteq {StopRequest} \cup Known'
      BY <1>4
    <3> QED
      BY <1>7, <3>1, SeqMonotonic
  <2> QED
    BY <1>3, <2>1 DEF IInv, SocketsOK, sockets
<1>11. WorkersOK'
  BY <1>3, <1>4 DEF IInv, WorkersOK, workers
<1>12. ReadersOK'
  BY <1>3, <1>7 DEF IInv, ReadersOK, readers, workers, sockets
<1>13. HandlersOK'
  <2>1. \A i : Held(i)' <=> Held(i)
    BY <1>3 DEF Held, HeldBy, readers
  <2>2. \A v \in Workers : \A i : HeldBy(v, i)' <=> HeldBy(v, i)
    BY <1>3 DEF HeldBy, readers
  <2>3. ~Held(n)
    <3>1. \A w \in Workers : rpc[w] = "set" => rgot[w][1] \in Known
      BY DEF IInv, ReadersOK, Answers
    <3> QED
      BY <1>4, <3>1 DEF Held, HeldBy
  <2>4. UNCHANGED <<failing, future>>
    BY <1>3 DEF stopper, fails
  <2>5. /\ pending' \subseteq Known' /\ failing' \subseteq Known' /\ pending' \cap failing' = {}
    BY <1>3, <1>4, <2>4 DEF IInv, HandlersOK
  <2>6. \A i \in pending' \cup failing' : ~Held(i)'
    BY <1>3, <2>1, <2>3, <2>4 DEF IInv, HandlersOK
  <2>7. \A v, w \in Workers : \A i \in Known' : HeldBy(v, i)' /\ HeldBy(w, i)' => v = w
    BY <1>4, <2>2, <2>3 DEF IInv, HandlersOK, Held
  <2>8. \A i \in Ids :
          future'[i] = "waiting" <=> i \notin Known' \/ i \in pending' \cup failing' \/ Held(i)'
    BY <1>3, <1>4, <2>1, <2>4 DEF IInv, HandlersOK
  <2> QED
    BY <2>5, <2>6, <2>7, <2>8 DEF HandlersOK
<1>14. FuturesOK'
  <2>1. \A i \in Ids : future[i] \in {"ok", "exception"} =>
          i \in Known /\ kind'[i] = kind[i] /\ future[i] = Completion(kind[i], Status(kind[i]))
    BY <1>6 DEF IInv, FuturesOK
  <2> QED
    BY <1>3, <1>4, <2>1 DEF IInv, FuturesOK, stopper, fails
<1>15. ShutdownOK'
  <2>1. n \notin returned
    BY <1>4 DEF IInv, FuturesOK
  <2>2. UNCHANGED <<spc, si, stopping, failing, killed, rpc, request_fd, returned>>
    BY <1>3 DEF stopper, fails, readers, sockets
  <2> QED
    BY <1>3, <2>1, <2>2 DEF IInv, ShutdownOK
<1> QED
  BY <1>8, <1>9, <1>10, <1>11, <1>12, <1>13, <1>14, <1>15 DEF IInv

(* A call of Submit that goes on, or leaves, without touching anything else. *)
LEMMA SubmitSelectIInv ==
  ASSUME IInv, NEW c \in Clients, SubmitSelect(c)
  PROVE  IInv'
<1>1. UNCHANGED <<tasks, workers, readers, stopper, sockets, results, killed>>
  BY DEF SubmitSelect, SelectWorker
<1>2. ClientsOK'
  <2>1. N \in Nat \ {0} /\ next_worker \in 0 .. N - 1 /\ ClientsOK /\ Known' = Known
    BY <1>1, PoolAssumption DEF IInv, ClientsOK, Known, tasks
  <2>2. (next_worker % N) + 1 \in Workers /\ (next_worker + 1) % N \in 0 .. N - 1
    BY <2>1 DEF Workers
  <2>3. CASE stopping
    BY <2>1, <2>3 DEF SubmitSelect, SelectWorker, SubmitReturn, ClientsOK
  <2>4. CASE ~stopping
    <3> DEFINE w == (next_worker % N) + 1
    <3>1. /\ cw' = [cw EXCEPT ![c] = w] /\ cpc' = [cpc EXCEPT ![c] = "write"]
          /\ cid' = cid /\ next_worker' \in 0 .. N - 1 /\ cpc[c] = "select"
      BY <2>2, <2>4 DEF SubmitSelect, SelectWorker
    <3>2. w \in Workers /\ w # 0
      BY <2>2 DEF Workers
    <3> HIDE DEF w
    <3> QED
      BY <2>1, <3>1, <3>2 DEF ClientsOK
  <2> QED
    BY <2>3, <2>4
<1> QED
  BY <1>1, <1>2, KeepTasks, KeepSockets, KeepWorkers, KeepReaders, KeepHandlers, KeepFutures,
     KeepShutdown DEF IInv, tasks, workers, readers, stopper, fails, sockets, results

(* The request is written while its socket is open, so before FailAllPending. *)
LEMMA SubmitWriteIInv ==
  ASSUME IInv, NEW c \in Clients, SubmitWrite(c)
  PROVE  IInv'
<1>1. /\ cpc[c] = "write" /\ request_fd[cw[c]] /\ SubmitReturn(c)
      /\ request' = [request EXCEPT ![cw[c]] = Append(@, cid[c])]
      /\ returned' = returned \cup {cid[c]}
      /\ UNCHANGED <<tasks, next_worker, workers, readers, stopper, response, request_fd,
                     pending, future, getting, killed>>
  BY DEF SubmitWrite
<1>2. cid[c] \in Known /\ cw[c] \in Workers
  BY <1>1 DEF IInv, ClientsOK
<1>3. UNCHANGED <<next_task_id, kind>> /\ Known' = Known /\ Answers' = Answers
  BY <1>1 DEF tasks, Known, Answers
<1>4. ClientsOK'
  BY <1>1, <1>3 DEF IInv, ClientsOK, SubmitReturn
<1>5. SocketsOK'
  <2>1. Append(request[cw[c]], cid[c]) \in Seq({StopRequest} \cup Known)
    BY <1>2, AppendProperties DEF IInv, SocketsOK
  <2> QED
    BY <1>1, <1>3, <2>1 DEF IInv, SocketsOK
<1>6. FuturesOK'
  BY <1>1, <1>2, <1>3 DEF IInv, FuturesOK, stopper, fails
<1>7. ShutdownOK'
  <2>1. spc \notin {"fail", "notify", "done"}
    BY <1>1, <1>2 DEF IInv, ShutdownOK
  <2> QED
    BY <1>1, <2>1 DEF IInv, ShutdownOK, stopper, fails, readers
<1> QED
  BY <1>1, <1>3, <1>4, <1>5, <1>6, <1>7, KeepTasks, KeepWorkers, KeepReaders, KeepHandlers
     DEF IInv, tasks, workers, readers, stopper, fails

(* Submit throws, or SIGPIPE ends the host program. *)
LEMMA SubmitWriteFailsIInv ==
  ASSUME IInv, NEW c \in Clients, SubmitWriteFails(c)
  PROVE  IInv'
<1>1. /\ SubmitReturn(c)
      /\ UNCHANGED <<tasks, next_worker, workers, readers, stopper, sockets, results>>
  BY DEF SubmitWriteFails
<1>2. killed' \in BOOLEAN
  BY DEF SubmitWriteFails
<1>3. ClientsOK'
  BY <1>1 DEF IInv, ClientsOK, SubmitReturn, Known, tasks
<1>4. ShutdownOK'
  BY <1>1, <1>2 DEF IInv, ShutdownOK, stopper, fails, readers, sockets, results
<1> QED
  BY <1>1, <1>3, <1>4, KeepTasks, KeepSockets, KeepWorkers, KeepReaders, KeepHandlers,
     KeepFutures DEF IInv, tasks, workers, readers, stopper, fails, sockets, results

(* Get looks at the future and waits or returns. *)
LEMMA GetIInv ==
  ASSUME IInv, NEW i \in Ids, Get(i)
  PROVE  IInv'
<1>1. PICK l \in {"waiting", "returned"} : GetTo(i, l)
  BY DEF Get, GetWait, GetReturn
<1>2. /\ getting' = [getting EXCEPT ![i] = l]
      /\ UNCHANGED <<tasks, clients, workers, readers, stopper, sockets, pending, future,
                     returned, killed>>
  BY <1>1 DEF GetTo
<1>3. FuturesOK'
  BY <1>2 DEF IInv, FuturesOK, Known, tasks, stopper, fails
<1> QED
  BY <1>2, <1>3, KeepTasks, KeepClients, KeepSockets, KeepWorkers, KeepReaders, KeepHandlers,
     KeepShutdown DEF IInv, tasks, workers, readers, stopper, fails, sockets

-----------------------------------------------------------------------------
(* WorkerLoop *)

(* A worker takes a request, or the Stop. *)
LEMMA WorkerReadIInv ==
  ASSUME IInv, NEW w \in Workers, WorkerRead(w)
  PROVE  IInv'
<1> DEFINE h == Head(request[w])
<1>1. /\ wpc[w] = "read" /\ request[w] # <<>>
      /\ request' = [request EXCEPT ![w] = Tail(@)]
      /\ UNCHANGED <<tasks, clients, readers, stopper, response, request_fd, results, killed>>
  BY DEF WorkerRead
<1>2. UNCHANGED <<next_task_id, kind>> /\ Known' = Known /\ Answers' = Answers
  BY <1>1 DEF tasks, Known, Answers
<1>3. /\ request[w] \in Seq({StopRequest} \cup Known)
      /\ h \in {StopRequest} \cup Known /\ Tail(request[w]) \in Seq({StopRequest} \cup Known)
  BY <1>1, HeadTailProperties DEF IInv, SocketsOK
<1>4. SocketsOK'
  BY <1>1, <1>2, <1>3 DEF IInv, SocketsOK
<1>5. WorkersOK'
  <2>1. CASE h = StopRequest
    BY <1>2, <2>1 DEF WorkerRead, IInv, WorkersOK
  <2>2. CASE h # StopRequest
    <3>1. wpc' = [wpc EXCEPT ![w] = "run"] /\ wid' = [wid EXCEPT ![w] = h]
      BY <2>2 DEF WorkerRead
    <3>2. h \in Known /\ h # 0
      BY <1>3, <2>2 DEF StopRequest
    <3> HIDE DEF h
    <3> QED
      BY <1>2, <3>1, <3>2 DEF IInv, WorkersOK
  <2> QED
    BY <2>1, <2>2
<1>6. ReadersOK'
  <2>1. rpc[w] # "done" /\ \A v \in Workers \ {w} : wpc'[v] = wpc[v]
    BY <1>1 DEF IInv, ReadersOK, WorkersOK, WorkerRead
  <2> QED
    BY <1>1, <1>2, <2>1 DEF IInv, ReadersOK, readers
<1> QED
  BY <1>1, <1>4, <1>5, <1>6, KeepTasks, KeepClients, KeepHandlers, KeepFutures, KeepShutdown
     DEF IInv, tasks, readers, stopper, fails, results

(* What it answers is what its task did. *)
LEMMA WorkerRespondIInv ==
  ASSUME IInv, NEW w \in Workers, WorkerRespond(w)
  PROVE  IInv'
<1> DEFINE r == <<wid[w], Status(kind[wid[w]])>>
<1>1. /\ wpc[w] = "run" /\ response' = [response EXCEPT ![w] = @ \o <<r>>]
      /\ wid' = [wid EXCEPT ![w] = 0]
      /\ UNCHANGED <<tasks, clients, readers, stopper, request, request_fd, results, killed>>
  BY DEF WorkerRespond, RespondWith
<1>2. PICK l \in {"gone", "read"} : wpc' = [wpc EXCEPT ![w] = l]
  BY DEF WorkerRespond, RespondWith
<1>3. UNCHANGED <<next_task_id, kind>> /\ Known' = Known /\ Answers' = Answers
  BY <1>1 DEF tasks, Known, Answers
<1>4. r \in Answers
  BY <1>1 DEF IInv, WorkersOK, Answers
<1> HIDE DEF r
<1>5. SocketsOK'
  <2>1. response[w] \in Seq(Answers) /\ <<r>> \in Seq(Answers)
    BY <1>4 DEF IInv, SocketsOK
  <2>2. response[w] \o <<r>> \in Seq(Answers)
    BY <2>1, ConcatProperties
  <2> QED
    BY <1>1, <1>3, <2>2 DEF IInv, SocketsOK
<1>6. WorkersOK'
  BY <1>1, <1>2, <1>3 DEF IInv, WorkersOK
<1>7. ReadersOK'
  <2>1. rpc[w] # "done" /\ \A v \in Workers \ {w} : wpc'[v] = wpc[v] /\ response'[v] = response[v]
    BY <1>1, <1>2 DEF IInv, ReadersOK, WorkersOK, SocketsOK
  <2> QED
    BY <1>1, <1>3, <2>1 DEF IInv, ReadersOK, readers
<1> QED
  BY <1>1, <1>5, <1>6, <1>7, KeepTasks, KeepClients, KeepHandlers, KeepFutures, KeepShutdown
     DEF IInv, tasks, readers, stopper, fails, results

(* A worker leaves, at EOF or killed. *)
LEMMA WorkerLeavesIInv ==
  ASSUME IInv, NEW w \in Workers, WorkerEof(w) \/ WorkerDies(w)
  PROVE  IInv'
<1>1. /\ wpc' = [wpc EXCEPT ![w] = "gone"]
      /\ UNCHANGED <<tasks, clients, wid, readers, stopper, sockets, results, killed>>
  BY DEF WorkerEof, WorkerDies
<1>2. WorkersOK'
  BY <1>1 DEF IInv, WorkersOK, Known, tasks
<1>3. ReadersOK'
  BY <1>1 DEF IInv, ReadersOK, WorkersOK, Known, Answers, tasks, readers, sockets
<1> QED
  BY <1>1, <1>2, <1>3, KeepTasks, KeepClients, KeepSockets, KeepHandlers, KeepFutures,
     KeepShutdown DEF IInv, tasks, readers, stopper, fails, sockets, results

-----------------------------------------------------------------------------
(* ReaderLoop *)

(* A reader takes a response, and with it the handler if there is one. *)
LEMMA ReaderReadIInv ==
  ASSUME IInv, NEW w \in Workers, ReaderRead(w)
  PROVE  IInv'
<1> DEFINE r == Head(response[w])
<1>1. /\ rpc[w] = "read" /\ response[w] # <<>>
      /\ response' = [response EXCEPT ![w] = Tail(@)]
      /\ UNCHANGED <<tasks, clients, workers, stopper, request, request_fd, future, returned,
                     getting, killed>>
  BY DEF ReaderRead, TakeResponse
<1>2. UNCHANGED <<next_task_id, kind>> /\ Known' = Known /\ Answers' = Answers
  BY <1>1 DEF tasks, Known, Answers
<1>3. r \in Answers /\ Tail(response[w]) \in Seq(Answers)
  BY <1>1, HeadTailProperties DEF IInv, SocketsOK
<1>4. r[1] \in Known
  BY <1>3 DEF Answers
<1>5. SocketsOK'
  BY <1>1, <1>2, <1>3 DEF IInv, SocketsOK
<1>6. \A v \in Workers \ {w} : response'[v] = response[v]
  BY <1>1 DEF IInv, SocketsOK
<1>7. CASE UNCHANGED <<pending, rgot, rpc>>
  <2>1. ReadersOK'
    BY <1>1, <1>2, <1>6, <1>7 DEF IInv, ReadersOK, workers
  <2> QED
    BY <1>1, <1>2, <1>5, <1>7, <2>1, KeepTasks, KeepClients, KeepWorkers, KeepHandlers,
       KeepFutures, KeepShutdown DEF IInv, tasks, readers, stopper, fails
<1>8. CASE r[1] \in pending /\ Hold(w) /\ pending' = pending \ {r[1]}
  <2> HIDE DEF r
  <2>1. /\ rgot' = [rgot EXCEPT ![w] = r] /\ rpc' = [rpc EXCEPT ![w] = "set"]
    BY <1>8 DEF Hold, r
  <2>2. /\ rpc'[w] = "set" /\ rgot'[w] = r
        /\ \A v \in Workers \ {w} : rpc'[v] = rpc[v] /\ rgot'[v] = rgot[v]
    BY <2>1 DEF IInv, ReadersOK
  <2>3. ReadersOK'
    BY <1>1, <1>2, <1>3, <1>6, <2>1, <2>2 DEF IInv, ReadersOK, workers
  <2>4. /\ \A v \in Workers \ {w} : \A i : HeldBy(v, i)' <=> HeldBy(v, i)
        /\ \A i : HeldBy(w, i)' <=> i = r[1]
        /\ \A i : ~HeldBy(w, i)
    BY <1>1, <2>2 DEF HeldBy
  <2>5. \A i : Held(i)' <=> i = r[1] \/ Held(i)
    BY <2>4 DEF Held
  <2>6. HandlersOK'
    <3>1. UNCHANGED <<failing, future>> /\ Known' = Known
      BY <1>1, <1>2 DEF stopper, fails
    <3>2. ~Held(r[1]) /\ r[1] \notin failing
      BY <1>8 DEF IInv, HandlersOK
    <3>3. \A v, u \in Workers : \A i \in Known' : HeldBy(v, i)' /\ HeldBy(u, i)' => v = u
      BY <2>4, <3>1, <3>2 DEF IInv, HandlersOK, Held
    <3>4. /\ pending' \subseteq Known' /\ failing' \subseteq Known' /\ pending' \cap failing' = {}
          /\ \A i \in pending' \cup failing' : ~Held(i)'
      BY <1>8, <2>5, <3>1, <3>2 DEF IInv, HandlersOK
    <3>5. \A i \in Ids : future'[i] = "waiting"
                          <=> i \notin Known' \/ i \in pending' \cup failing' \/ Held(i)'
      BY <1>8, <2>5, <3>1 DEF IInv, HandlersOK
    <3> QED
      BY <3>3, <3>4, <3>5 DEF HandlersOK
  <2>7. ShutdownOK'
    <3>1. UNCHANGED <<spc, si, stopping, failing, killed, request_fd, returned>>
      BY <1>1 DEF stopper, fails
    <3>2. \A v \in Workers : rpc[v] = "done" => rpc'[v] = "done"
      BY <1>1, <2>2
    <3> QED
      BY <1>8, <3>1, <3>2 DEF IInv, ShutdownOK
  <2> QED
    BY <1>1, <1>2, <1>5, <2>3, <2>6, <2>7, KeepTasks, KeepClients, KeepWorkers, KeepFutures
       DEF IInv, tasks, stopper, fails
<1> QED
  BY <1>7, <1>8 DEF ReaderRead

(* The reader completes a future that was waiting, with what its task did. *)
LEMMA ReaderSetIInv ==
  ASSUME IInv, NEW w \in Workers, ReaderSet(w)
  PROVE  IInv' /\ \A i \in Ids : future[i] # "waiting" => future'[i] = future[i]
<1> DEFINE i == rgot[w][1]
           how == Completion(kind[i], rgot[w][2])
<1>1. /\ rpc[w] = "set" /\ future' = [future EXCEPT ![i] = how]
      /\ rpc' = [rpc EXCEPT ![w] = "notify"]
      /\ UNCHANGED <<tasks, clients, workers, rgot, stopper, sockets, pending, returned, getting,
                     killed>>
  BY DEF ReaderSet, Complete
<1>2. UNCHANGED <<next_task_id, kind>> /\ Known' = Known /\ Answers' = Answers
  BY <1>1 DEF tasks, Known, Answers
<1>3. /\ i \in Known /\ rgot[w][2] = Status(kind[i]) /\ rgot[w] \in Answers
      /\ Known \subseteq Ids
  <2>1. rgot[w] \in Answers
    BY <1>1 DEF IInv, ReadersOK
  <2>2. PICK j \in Known : rgot[w] = <<j, Status(kind[j])>>
    BY <2>1 DEF Answers
  <2>3. rgot[w][1] = j /\ rgot[w][2] = Status(kind[j])
    BY <2>2
  <2>4. Known \subseteq Ids
    BY PoolAssumption DEF IInv, TasksOK, Known, Ids
  <2> QED
    BY <2>1, <2>3, <2>4
<1>4. how = Completion(kind[i], Status(kind[i])) /\ how \in {"ok", "exception"}
  BY <1>3 DEF Completion
<1> HIDE DEF i, how
<1>5. HeldBy(w, i) /\ Held(i)
  BY <1>1 DEF HeldBy, Held, i
<1>6. future[i] = "waiting" /\ i \notin pending \cup failing
  BY <1>3, <1>5 DEF IInv, HandlersOK
<1>7. /\ future'[i] = how /\ \A j \in Ids \ {i} : future'[j] = future[j]
      /\ future' \in [Ids -> {"waiting", "ok", "exception", "shutdown"}]
  BY <1>1, <1>3, <1>4 DEF IInv, FuturesOK
<1>8. rpc'[w] = "notify" /\ \A v \in Workers \ {w} : rpc'[v] = rpc[v]
  BY <1>1 DEF IInv, ReadersOK
<1>9. ReadersOK'
  BY <1>1, <1>2, <1>3, <1>8 DEF IInv, ReadersOK, workers, sockets
<1>10. /\ \A v \in Workers \ {w} : \A j : HeldBy(v, j)' <=> HeldBy(v, j)
       /\ \A j : ~HeldBy(w, j)'
       /\ \A j : HeldBy(w, j) <=> j = i
  BY <1>1, <1>8 DEF HeldBy, i
<1>11. \A j \in Known : Held(j)' <=> Held(j) /\ j # i
  BY <1>5, <1>10 DEF Held, IInv, HandlersOK
<1>12. HandlersOK'
  <2>1. UNCHANGED <<pending, failing>> /\ Known' = Known
    BY <1>1, <1>2 DEF stopper, fails
  <2>2. \A j \in Ids : future'[j] = "waiting"
                        <=> j \notin Known' \/ j \in pending' \cup failing' \/ Held(j)'
    <3> SUFFICES ASSUME NEW j \in Ids
                 PROVE  future'[j] = "waiting"
                          <=> j \notin Known \/ j \in pending \cup failing \/ Held(j)'
      BY <2>1
    <3>1. CASE j = i
      BY <1>3, <1>4, <1>6, <1>7, <1>11, <3>1
    <3>2. CASE j # i /\ j \in Known
      BY <1>7, <1>11, <3>2 DEF IInv, HandlersOK
    <3>3. CASE j \notin Known
      BY <1>3, <1>7, <3>3 DEF IInv, HandlersOK
    <3> QED
      BY <3>1, <3>2, <3>3
  <2>3. \A v, u \in Workers : \A j \in Known' : HeldBy(v, j)' /\ HeldBy(u, j)' => v = u
    BY <1>10, <2>1 DEF IInv, HandlersOK
  <2>4. \A j \in pending' \cup failing' : ~Held(j)'
    BY <1>11, <2>1 DEF IInv, HandlersOK
  <2> QED
    BY <2>1, <2>2, <2>3, <2>4 DEF IInv, HandlersOK
<1>13. FuturesOK'
  BY <1>1, <1>2, <1>3, <1>4, <1>7 DEF IInv, FuturesOK, stopper, fails
<1>14. ShutdownOK'
  <2>1. UNCHANGED <<spc, si, stopping, failing, killed, request_fd, returned, pending>>
    BY <1>1 DEF stopper, fails, sockets
  <2>2. \A v \in Workers : rpc[v] = "done" => rpc'[v] = "done"
    BY <1>1, <1>8
  <2> QED
    BY <2>1, <2>2 DEF IInv, ShutdownOK
<1>15. \A j \in Ids : future[j] # "waiting" => future'[j] = future[j]
  BY <1>6, <1>7
<1> QED
  BY <1>1, <1>2, <1>9, <1>12, <1>13, <1>14, <1>15, KeepTasks, KeepClients, KeepSockets, KeepWorkers
     DEF IInv, tasks

(* The reader notifies, and goes back to its socket. *)
LEMMA ReaderNotifyIInv ==
  ASSUME IInv, NEW w \in Workers, ReaderNotify(w)
  PROVE  IInv'
<1>1. /\ rpc[w] = "notify" /\ NotifyAll(rgot[w][1])
      /\ rpc' = [rpc EXCEPT ![w] = "read"] /\ rgot' = [rgot EXCEPT ![w] = NoResponse]
      /\ UNCHANGED <<tasks, clients, workers, stopper, sockets, pending, future, returned, killed>>
  BY DEF ReaderNotify
<1>2. UNCHANGED <<next_task_id, kind>> /\ Known' = Known /\ Answers' = Answers
  BY <1>1 DEF tasks, Known, Answers
<1>3. getting' \in [Ids -> {"no", "waiting", "woken", "returned"}]
  BY <1>1 DEF IInv, FuturesOK, NotifyAll
<1>4. rpc'[w] = "read" /\ \A v \in Workers \ {w} : rpc'[v] = rpc[v] /\ rgot'[v] = rgot[v]
  BY <1>1 DEF IInv, ReadersOK
<1>5. ReadersOK'
  BY <1>1, <1>2, <1>4 DEF IInv, ReadersOK, workers, sockets
<1>6. \A v \in Workers : \A j : HeldBy(v, j)' <=> HeldBy(v, j)
  BY <1>1, <1>4 DEF HeldBy
<1>7. HandlersOK'
  BY <1>1, <1>2, <1>6 DEF IInv, HandlersOK, Held, stopper, fails
<1>8. FuturesOK'
  BY <1>1, <1>2, <1>3 DEF IInv, FuturesOK, stopper, fails
<1>9. ShutdownOK'
  <2>1. UNCHANGED <<spc, si, stopping, failing, killed, request_fd, returned, pending>>
    BY <1>1 DEF stopper, fails, sockets
  <2>2. \A v \in Workers : rpc[v] = "done" => rpc'[v] = "done"
    BY <1>1, <1>4
  <2> QED
    BY <2>1, <2>2 DEF IInv, ShutdownOK
<1> QED
  BY <1>1, <1>2, <1>5, <1>7, <1>8, <1>9, KeepTasks, KeepClients, KeepSockets, KeepWorkers
     DEF IInv, tasks

(* The reader leaves: its worker is gone and everything it wrote has been read. *)
LEMMA ReaderEofIInv ==
  ASSUME IInv, NEW w \in Workers, ReaderEof(w)
  PROVE  IInv'
<1>1. /\ rpc[w] = "read" /\ response[w] = <<>> /\ wpc[w] = "gone"
      /\ rpc' = [rpc EXCEPT ![w] = "done"]
      /\ UNCHANGED <<tasks, clients, workers, rgot, stopper, sockets, results, killed>>
  BY DEF ReaderEof, AtEof
<1>2. UNCHANGED <<next_task_id, kind>> /\ Known' = Known /\ Answers' = Answers
  BY <1>1 DEF tasks, Known, Answers
<1>3. rpc'[w] = "done" /\ \A v \in Workers \ {w} : rpc'[v] = rpc[v]
  BY <1>1 DEF IInv, ReadersOK
<1>4. ReadersOK'
  BY <1>1, <1>2, <1>3 DEF IInv, ReadersOK, workers, sockets
<1>5. \A v \in Workers : \A j : HeldBy(v, j)' <=> HeldBy(v, j)
  BY <1>1, <1>3 DEF HeldBy
<1>6. HandlersOK'
  BY <1>1, <1>2, <1>5 DEF IInv, HandlersOK, Held, stopper, fails, results
<1>7. ShutdownOK'
  <2>1. UNCHANGED <<spc, si, stopping, failing, killed, request_fd, returned, pending>>
    BY <1>1 DEF stopper, fails, sockets, results
  <2>2. \A v \in Workers : rpc[v] = "done" => rpc'[v] = "done"
    BY <1>3
  <2> QED
    BY <2>1, <2>2 DEF IInv, ShutdownOK
<1> QED
  BY <1>1, <1>2, <1>4, <1>6, <1>7, KeepTasks, KeepClients, KeepSockets, KeepWorkers, KeepFutures
     DEF IInv, tasks, results, stopper, fails

-----------------------------------------------------------------------------
(* Shutdown *)

(* A loop over the workers goes on to the next one, or is over after the last. *)
LEMMA AdvanceShape ==
  ASSUME ShutdownOK, NEW loop, NEW next, Advance(loop, next)
  PROVE  /\ si \in Workers /\ si' \in Workers
         /\ \/ spc' = loop /\ \A w \in Workers : w < si' => w < si \/ w = si
            \/ spc' = next /\ si' = 1 /\ \A w \in Workers : w < si \/ w = si
<1>1. N \in Nat /\ si \in 1 .. N
  BY PoolAssumption DEF ShutdownOK, Workers
<1>2. CASE si < N
  BY <1>1, <1>2 DEF Advance, Workers
<1>3. CASE ~(si < N)
  BY <1>1, <1>3 DEF Advance, Workers
<1> QED
  BY <1>2, <1>3

(* Shutdown tells the pool that it stops. *)
LEMMA ShutdownBeginIInv ==
  ASSUME IInv, ShutdownBegin
  PROVE  IInv'
<1>1. /\ spc = "idle" /\ spc' = "stop" /\ stopping' = TRUE
      /\ UNCHANGED <<si, fails, tasks, clients, workers, readers, sockets, results, killed>>
  BY DEF ShutdownBegin
<1>2. ShutdownOK'
  BY <1>1 DEF IInv, ShutdownOK, fails, readers, sockets, results
<1> QED
  BY <1>1, <1>2, KeepTasks, KeepClients, KeepSockets, KeepWorkers, KeepReaders, KeepHandlers,
     KeepFutures DEF IInv, tasks, workers, sockets, fails, results

(* Its first loop sends the Stops. *)
LEMMA ShutdownStopIInv ==
  ASSUME IInv, ShutdownStop
  PROVE  IInv'
<1>1. /\ spc = "stop" /\ Advance("stop", "join") /\ killed' \in BOOLEAN
      /\ UNCHANGED <<stopping, fails, tasks, clients, workers, readers, response, request_fd,
                     results>>
  BY DEF ShutdownStop, StopWorker
<1>2. request' \in {request, [request EXCEPT ![si] = Append(@, StopRequest)]}
  BY DEF ShutdownStop, StopWorker
<1>3. /\ si \in Workers /\ si' \in Workers
      /\ spc' = "stop" \/ (spc' = "join" /\ si' = 1)
  BY <1>1, AdvanceShape DEF IInv
<1>4. SocketsOK'
  <2>1. Append(request[si], StopRequest) \in Seq({StopRequest} \cup Known)
    BY <1>3, AppendProperties DEF IInv, SocketsOK
  <2>2. Known' = Known /\ Answers' = Answers
    BY <1>1 DEF tasks, Known, Answers
  <2> QED
    BY <1>1, <1>2, <2>1, <2>2 DEF IInv, SocketsOK
<1>5. ShutdownOK'
  <2>1. \A w \in Workers : ~(w < 1)
    BY PoolAssumption DEF Workers
  <2> QED
    BY <1>1, <1>3, <2>1 DEF IInv, ShutdownOK, fails, readers, results
<1> QED
  BY <1>1, <1>4, <1>5, KeepTasks, KeepClients, KeepWorkers, KeepReaders, KeepHandlers,
     KeepFutures DEF IInv, tasks, workers, fails, results

(* Its second joins the readers. *)
LEMMA ShutdownJoinIInv ==
  ASSUME IInv, ShutdownJoin
  PROVE  IInv'
<1>1. /\ spc = "join" /\ rpc[si] = "done" /\ Advance("join", "close")
      /\ UNCHANGED <<stopping, fails, tasks, clients, workers, readers, sockets, results, killed>>
  BY DEF ShutdownJoin
<1>2. /\ si \in Workers /\ si' \in Workers
      /\ \/ spc' = "join" /\ \A w \in Workers : w < si' => w < si \/ w = si
         \/ spc' = "close" /\ si' = 1 /\ \A w \in Workers : w < si \/ w = si
  BY <1>1, AdvanceShape DEF IInv
<1>3. ShutdownOK'
  <2>1. UNCHANGED <<stopping, failing, killed, rpc, request_fd, pending, returned>>
    BY <1>1 DEF fails, readers, sockets, results
  <2>2. \A w \in Workers : ~(w < 1)
    BY PoolAssumption DEF Workers
  <2>3. /\ failing = {} /\ \A w \in Workers : w < si \/ w = si => rpc[w] = "done"
    BY <1>1 DEF IInv, ShutdownOK
  <2>4. CASE spc' = "join" /\ \A w \in Workers : w < si' => w < si \/ w = si
    BY <1>2, <2>1, <2>3, <2>4 DEF IInv, ShutdownOK
  <2>5. CASE spc' = "close" /\ si' = 1 /\ \A w \in Workers : w < si \/ w = si
    BY <1>2, <2>1, <2>2, <2>3, <2>5 DEF IInv, ShutdownOK
  <2> QED
    BY <1>2, <2>4, <2>5
<1> QED
  BY <1>1, <1>3, KeepTasks, KeepClients, KeepSockets, KeepWorkers, KeepReaders, KeepHandlers,
     KeepFutures DEF IInv, tasks, workers, sockets, fails, results

(* Its third closes the sockets: from then on no Submit returns a future. *)
LEMMA ShutdownCloseIInv ==
  ASSUME IInv, ShutdownClose
  PROVE  IInv'
<1>1. /\ spc = "close" /\ Advance("close", "swap")
      /\ request_fd' = [request_fd EXCEPT ![si] = FALSE]
      /\ UNCHANGED <<stopping, fails, tasks, clients, workers, readers, request, response,
                     results, killed>>
  BY DEF ShutdownClose
<1>2. /\ si \in Workers /\ si' \in Workers
      /\ \/ spc' = "close" /\ \A w \in Workers : w < si' => w < si \/ w = si
         \/ spc' = "swap" /\ si' = 1 /\ \A w \in Workers : w < si \/ w = si
  BY <1>1, AdvanceShape DEF IInv
<1>3. /\ request_fd' \in [Workers -> BOOLEAN]
      /\ \A w \in Workers : w < si \/ w = si => ~request_fd'[w]
  <2>1. request_fd \in [Workers -> BOOLEAN] /\ \A w \in Workers : w < si => ~request_fd[w]
    BY <1>1 DEF IInv, SocketsOK, ShutdownOK
  <2> QED
    BY <1>1, <1>2, <2>1
<1>4. SocketsOK'
  BY <1>1, <1>3 DEF IInv, SocketsOK, Known, Answers, tasks
<1>5. ShutdownOK'
  <2>1. UNCHANGED <<stopping, failing, killed, rpc, pending, returned>>
    BY <1>1 DEF fails, readers, results
  <2>2. failing = {} /\ \A w \in Workers : rpc[w] = "done"
    BY <1>1 DEF IInv, ShutdownOK
  <2>3. CASE spc' = "close" /\ \A w \in Workers : w < si' => w < si \/ w = si
    BY <1>2, <1>3, <2>1, <2>2, <2>3 DEF IInv, ShutdownOK
  <2>4. CASE spc' = "swap" /\ si' = 1 /\ \A w \in Workers : w < si \/ w = si
    BY <1>2, <1>3, <2>1, <2>2, <2>4 DEF IInv, ShutdownOK
  <2> QED
    BY <1>2, <2>3, <2>4
<1> QED
  BY <1>1, <1>4, <1>5, KeepTasks, KeepClients, KeepWorkers, KeepReaders, KeepHandlers,
     KeepFutures DEF IInv, tasks, workers, fails, results

(* FailAllPending takes every handler that is still registered. *)
LEMMA FailAllPendingIInv ==
  ASSUME IInv, FailAllPending
  PROVE  IInv'
<1>1. /\ spc = "swap" /\ spc' = "fail" /\ failing' = pending /\ pending' = {}
      /\ UNCHANGED <<si, stopping, failed, tasks, clients, workers, readers, sockets, future,
                     returned, getting, killed>>
  BY DEF FailAllPending
<1>2. failing = {}
  BY <1>1 DEF IInv, ShutdownOK
<1>3. Known' = Known
  BY <1>1 DEF Known, tasks
<1>4. /\ \A i : Held(i)' <=> Held(i)
      /\ \A w \in Workers : \A i : HeldBy(w, i)' <=> HeldBy(w, i)
  BY <1>1 DEF Held, HeldBy, readers
<1>5. HandlersOK'
  BY <1>1, <1>2, <1>3, <1>4 DEF IInv, HandlersOK
<1>6. ShutdownOK'
  BY <1>1 DEF IInv, ShutdownOK, readers, sockets
<1> QED
  BY <1>1, <1>5, <1>6, KeepTasks, KeepClients, KeepSockets, KeepWorkers, KeepReaders,
     KeepFutures DEF IInv, tasks, workers, sockets

(* FailAllPending completes a future that was waiting. *)
LEMMA FailSetIInv ==
  ASSUME IInv, NEW i \in Ids, FailSet(i)
  PROVE  IInv' /\ \A j \in Ids : future[j] # "waiting" => future'[j] = future[j]
<1>1. /\ spc = "fail" /\ i \in failing /\ future' = [future EXCEPT ![i] = "shutdown"]
      /\ failing' = failing \ {i} /\ spc' = "notify" /\ failed' = i
      /\ UNCHANGED <<si, stopping, tasks, clients, workers, readers, sockets, pending, returned,
                     getting, killed>>
  BY DEF FailSet
<1>2. Known' = Known /\ UNCHANGED <<next_task_id, kind>>
  BY <1>1 DEF Known, tasks
<1>3. i \in Known /\ i \notin pending /\ ~Held(i) /\ future[i] = "waiting"
  BY <1>1 DEF IInv, HandlersOK
<1>4. /\ future'[i] = "shutdown" /\ \A j \in Ids \ {i} : future'[j] = future[j]
      /\ future' \in [Ids -> {"waiting", "ok", "exception", "shutdown"}]
  BY <1>1 DEF IInv, FuturesOK
<1>5. /\ \A j : Held(j)' <=> Held(j)
      /\ \A w \in Workers : \A j : HeldBy(w, j)' <=> HeldBy(w, j)
  BY <1>1 DEF Held, HeldBy, readers
<1>6. HandlersOK'
  <2>1. \A j \in Ids : future'[j] = "waiting"
                        <=> j \notin Known' \/ j \in pending' \cup failing' \/ Held(j)'
    BY <1>1, <1>2, <1>3, <1>4, <1>5 DEF IInv, HandlersOK
  <2> QED
    BY <1>1, <1>2, <1>5, <2>1 DEF IInv, HandlersOK
<1>7. FuturesOK'
  BY <1>1, <1>2, <1>3, <1>4 DEF IInv, FuturesOK
<1>8. ShutdownOK'
  BY <1>1 DEF IInv, ShutdownOK, readers, sockets
<1>9. \A j \in Ids : future[j] # "waiting" => future'[j] = future[j]
  BY <1>3, <1>4
<1> QED
  BY <1>1, <1>2, <1>6, <1>7, <1>8, <1>9, KeepTasks, KeepClients, KeepSockets, KeepWorkers,
     KeepReaders DEF IInv, workers, sockets

(* It notifies who waits for it. *)
LEMMA FailNotifyIInv ==
  ASSUME IInv, FailNotify
  PROVE  IInv'
<1>1. /\ spc = "notify" /\ NotifyAll(failed) /\ spc' = "fail" /\ failed' = 0
      /\ UNCHANGED <<si, stopping, failing, tasks, clients, workers, readers, sockets, pending,
                     future, returned, killed>>
  BY DEF FailNotify
<1>2. getting' \in [Ids -> {"no", "waiting", "woken", "returned"}]
  BY <1>1 DEF IInv, FuturesOK, NotifyAll
<1>3. FuturesOK'
  BY <1>1, <1>2 DEF IInv, FuturesOK, Known, tasks
<1>4. ShutdownOK'
  BY <1>1 DEF IInv, ShutdownOK, readers, sockets
<1> QED
  BY <1>1, <1>3, <1>4, KeepTasks, KeepClients, KeepSockets, KeepWorkers, KeepReaders,
     KeepHandlers DEF IInv, tasks, workers, sockets

(* Shutdown returns. *)
LEMMA ShutdownEndIInv ==
  ASSUME IInv, ShutdownEnd
  PROVE  IInv'
<1>1. /\ spc = "fail" /\ failing = {} /\ spc' = "done"
      /\ UNCHANGED <<si, stopping, fails, tasks, clients, workers, readers, sockets, results,
                     killed>>
  BY DEF ShutdownEnd
<1>2. ShutdownOK'
  BY <1>1 DEF IInv, ShutdownOK, fails, readers, sockets, results
<1> QED
  BY <1>1, <1>2, KeepTasks, KeepClients, KeepSockets, KeepWorkers, KeepReaders, KeepHandlers,
     KeepFutures DEF IInv, tasks, workers, sockets, fails, results

(* A step that changes nothing. *)
LEMMA StutterIInv ==
  ASSUME IInv, UNCHANGED vars
  PROVE  IInv'
<1>1. UNCHANGED <<tasks, clients, workers, readers, stopper, sockets, results, killed>>
  BY DEF vars
<1> QED
  BY <1>1, KeepTasks, KeepClients, KeepSockets, KeepWorkers, KeepReaders, KeepHandlers,
     KeepFutures, KeepShutdown
     DEF IInv, tasks, workers, readers, stopper, fails, sockets, results

-----------------------------------------------------------------------------
(* Only these two steps complete futures. *)
Completes == (\E w \in Workers : ReaderSet(w)) \/ (\E i \in Ids : FailSet(i))

(* Every step keeps the invariant, and completes no future twice. *)
LEMMA NextIInv ==
  ASSUME IInv, [Next]_vars
  PROVE  IInv' /\ \A i \in Ids : future[i] # "waiting" => future'[i] = future[i]
<1>1. CASE Construct
  <2>1. UNCHANGED future
    BY <1>1 DEF Construct, SpawnWorker, StartReader, SpawnFails, results
  <2> QED
    BY <1>1, <2>1, SpawnWorkerIInv, StartReaderIInv, HostIInv DEF Construct
<1>2. ASSUME NEW c \in Clients, Submit(c)
      PROVE  IInv' /\ UNCHANGED future
  <2>1. UNCHANGED future
    BY <1>2 DEF Submit, SubmitRegister, SubmitSelect, SelectWorker, SubmitWrite,
       SubmitWriteFails, results
  <2> QED
    BY <1>2, <2>1, SubmitRegisterIInv, SubmitSelectIInv, SubmitWriteIInv, SubmitWriteFailsIInv
       DEF Submit
<1>3. ASSUME NEW i \in Ids, Get(i)
      PROVE  IInv' /\ UNCHANGED future
  BY <1>3, GetIInv DEF Get, GetWait, GetReturn, GetTo
<1>4. ASSUME NEW w \in Workers, WorkerStep(w) \/ WorkerDies(w)
      PROVE  IInv' /\ UNCHANGED future
  <2>1. UNCHANGED future
    BY <1>4 DEF WorkerStep, WorkerRead, WorkerRespond, RespondWith, WorkerEof, WorkerDies, results
  <2> QED
    BY <1>4, <2>1, WorkerReadIInv, WorkerRespondIInv, WorkerLeavesIInv DEF WorkerStep
<1>5. ASSUME NEW w \in Workers, ReaderRead(w) \/ ReaderNotify(w) \/ ReaderEof(w)
      PROVE  IInv' /\ UNCHANGED future
  <2>1. UNCHANGED future
    BY <1>5 DEF ReaderRead, TakeResponse, ReaderNotify, ReaderEof, results
  <2> QED
    BY <1>5, <2>1, ReaderReadIInv, ReaderNotifyIInv, ReaderEofIInv
<1>6. CASE Completes
  BY <1>6, ReaderSetIInv, FailSetIInv DEF Completes
<1>7. CASE \/ ShutdownBegin \/ ShutdownStop \/ ShutdownJoin \/ ShutdownClose \/ FailAllPending
           \/ ShutdownEnd \/ FailNotify
  <2>1. UNCHANGED future
    BY <1>7 DEF ShutdownBegin, ShutdownStop, StopWorker, ShutdownJoin, ShutdownClose,
       FailAllPending, ShutdownEnd, FailNotify, results
  <2> QED
    BY <1>7, <2>1, ShutdownBeginIInv, ShutdownStopIInv, ShutdownJoinIInv, ShutdownCloseIInv,
       FailAllPendingIInv, ShutdownEndIInv, FailNotifyIInv
<1>8. CASE HostDies
  BY <1>8, HostIInv DEF HostDies, results
<1>9. CASE UNCHANGED vars
  BY <1>9, StutterIInv DEF vars, results
<1> QED
  BY <1>1, <1>2, <1>3, <1>4, <1>5, <1>6, <1>7, <1>8, <1>9
     DEF Next, ReaderStep, ShutdownStep, Completes

(* The invariant holds throughout. *)
THEOREM Invariance == Spec => []IInv
<1>1. Init => IInv
  BY InitIInv
<1>2. IInv /\ [Next]_vars => IInv'
  BY NextIInv
<1> QED
  BY <1>1, <1>2, PTL DEF Spec

(* Ids, workers and the loops of the pool stay in their ranges: no Submit, reader
   or shutdown indexes anything outside the pool's maps and vectors. *)
THEOREM TypeCorrect == Spec => []TypeOK
<1>1. IInv => TypeOK
  <2> SUFFICES ASSUME IInv PROVE TypeOK
    OBVIOUS
  <2>1. /\ MaxTasks \in Nat /\ N \in Nat /\ Known \subseteq Ids
        /\ Known \subseteq 0 .. MaxTasks /\ {0} \cup Known \subseteq 0 .. MaxTasks
        /\ {0} \cup Workers \subseteq 0 .. N
    BY PoolAssumption DEF IInv, TasksOK, Known, Ids, Workers
  <2>2. Answers \subseteq Ids \X {"Value", "Void", "Exception"}
    BY <2>1 DEF Answers, Status
  <2>3. /\ {NoResponse} \cup Answers \subseteq (0 .. MaxTasks) \X {"Value", "Void", "Exception"}
    BY <2>1, <2>2 DEF NoResponse, Ids
  <2>4. /\ request \in [Workers -> Seq(0 .. MaxTasks)]
        /\ response \in [Workers -> Seq(Ids \X {"Value", "Void", "Exception"})]
        /\ request_fd \in [Workers -> BOOLEAN]
    <3>1. {StopRequest} \cup Known \subseteq 0 .. MaxTasks
      BY <2>1 DEF StopRequest
    <3>2. /\ Seq({StopRequest} \cup Known) \subseteq Seq(0 .. MaxTasks)
          /\ Seq(Answers) \subseteq Seq(Ids \X {"Value", "Void", "Exception"})
      BY <2>2, <3>1, SeqMonotonic
    <3> QED
      BY <3>2 DEF IInv, SocketsOK
  <2>5. /\ cpc \in [Clients -> {"idle", "select", "write"}]
        /\ cid \in [Clients -> 0 .. MaxTasks] /\ cw \in [Clients -> 0 .. N]
        /\ next_worker \in 0 .. N - 1
    BY <2>1 DEF IInv, ClientsOK
  <2>6. /\ wpc \in [Workers -> {"none", "read", "run", "gone"}]
        /\ wid \in [Workers -> 0 .. MaxTasks]
    BY <2>1 DEF IInv, WorkersOK
  <2>7. /\ rpc \in [Workers -> {"none", "read", "set", "notify", "done"}]
        /\ rgot \in [Workers -> (0 .. MaxTasks) \X {"Value", "Void", "Exception"}]
    BY <2>3 DEF IInv, ReadersOK
  <2>8. /\ pending \subseteq Ids /\ returned \subseteq Ids /\ failing \subseteq Ids
        /\ failed \in 0 .. MaxTasks
    BY <2>1 DEF IInv, HandlersOK, FuturesOK
  <2>9. /\ built \in {"fork", "threads", "ready", "threw"}
        /\ next_task_id \in 1 .. MaxTasks + 1 /\ kind \in [Ids -> AllKinds]
    BY DEF IInv, TasksOK
  <2>10. /\ future \in [Ids -> {"waiting", "ok", "exception", "shutdown"}]
         /\ getting \in [Ids -> {"no", "waiting", "woken", "returned"}]
    BY DEF IInv, FuturesOK
  <2>11. /\ stopping \in BOOLEAN /\ killed \in BOOLEAN /\ si \in Workers
         /\ spc \in {"idle", "stop", "join", "close", "swap", "fail", "notify", "done"}
    BY DEF IInv, ShutdownOK
  <2> QED
    BY <2>4, <2>5, <2>6, <2>7, <2>8, <2>9, <2>10, <2>11 DEF TypeOK
<1> QED
  BY <1>1, Invariance, PTL

(* A future is completed once, whichever of the readers and FailAllPending come to
   its handler: PendingValue is taken out of the map before it is completed. *)
THEOREM OneCompletion == Spec => CompletedOnce
<1>1. IInv /\ [Next]_vars =>
        [\A i \in Ids : future[i] # "waiting" => future'[i] = future[i]]_vars
  BY NextIInv
<1> QED
  BY <1>1, Invariance, PTL DEF Spec, CompletedOnce

(* A future reports what its own task did, as long as no void task throws an
   exception whose what() is empty (ExecuteTyped takes that for a return). *)
THEOREM OwnResult ==
  ASSUME "muteVoid" \notin Kinds
  PROVE  Spec => []ResultMatches
<1>1. IInv => ResultMatches
  <2> SUFFICES ASSUME IInv, NEW i \in Ids, future[i] \in {"ok", "exception"}
               PROVE  /\ future[i] = "ok" => kind[i] \in {"value", "void"}
                      /\ future[i] = "exception" => kind[i] \in {"throws", "muteVoid", "muteValue"}
    BY DEF ResultMatches
  <2>1. i \in Known /\ future[i] = Completion(kind[i], Status(kind[i]))
    BY DEF IInv, FuturesOK
  <2>2. kind[i] \in {"value", "void", "throws", "muteValue"}
    BY <2>1, PoolAssumption DEF IInv, TasksOK, AllKinds
  <2> QED
    BY <2>1, <2>2 DEF Completion, Status
<1> QED
  BY <1>1, Invariance, PTL

(* When Shutdown returns, every future that a Submit returned is completed, and
   every worker and reader is gone. *)
THEOREM NothingLeft == Spec => []ShutdownLeavesNothing
<1>1. IInv => ShutdownLeavesNothing
  <2> SUFFICES ASSUME IInv, spc = "done"
               PROVE  /\ \A i \in returned : future[i] # "waiting"
                      /\ \A w \in Workers : wpc[w] = "gone" /\ rpc[w] = "done"
    BY DEF ShutdownLeavesNothing
  <2>1. \A w \in Workers : wpc[w] = "gone" /\ rpc[w] = "done"
    BY DEF IInv, ShutdownOK, ReadersOK
  <2>2. failing = {} /\ pending \cap returned = {}
    BY DEF IInv, ShutdownOK
  <2>3. \A i : ~Held(i)
    BY <2>1 DEF Held, HeldBy
  <2>4. returned \subseteq Known /\ Known \subseteq Ids
    BY PoolAssumption DEF IInv, FuturesOK, TasksOK, Known, Ids
  <2> QED
    BY <2>1, <2>2, <2>3, <2>4 DEF IInv, HandlersOK
<1> QED
  BY <1>1, Invariance, PTL

=============================================================================
