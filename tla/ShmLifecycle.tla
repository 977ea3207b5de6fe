---------------------------- MODULE ShmLifecycle ----------------------------
(***************************************************************************)
(* hw-5: how producers and consumers attach to the queue's shared memory   *)
(* object and let go of it (mpsc_queue.cpp: SharedMemoryRegion, the        *)
(* constructors and destructors of ProducerNode and ConsumerNode).         *)
(*                                                                         *)
(* One system call, or one access to the shared header, is one action.     *)
(* Objects outlive their name: whoever has one mapped keeps it after       *)
(* shm_unlink, and a later producer creates another one.  Control state:   *)
(*                                                                         *)
(*   "out"                 not attached                                    *)
(*   "reopen"              shm_open(O_EXCL) said EEXIST                    *)
(*   "truncate", "mapNew"  the creator, before ftruncate and before mmap   *)
(*   "init", "publish"     the creator, in InitializeIfNeeded              *)
(*   "map", "wait"         everybody else, until initState is Ready        *)
(*   "count", "ref"        before the two fetch_adds of the constructor    *)
(*   "in"                  attached                                        *)
(*   "unref", "unlink"     in the destructor                               *)
(*   "failed"              exit(EXIT_FAILURE) or an exception; nothing was *)
(*                         counted and the region is released              *)
(*   "fault"               SIGBUS: a page behind the end of the object     *)
(*                                                                         *)
(* A dead process keeps its control state, as its counts stay in the       *)
(* header.  A system call that fails for want of resources ends its        *)
(* process there too.                                                      *)
(***************************************************************************)
EXTENDS Naturals, FiniteSets

CONSTANTS
  Producers, Consumers,
  HeaderSize,    \* sizeof(SharedMemoryLayout)
  UsualSize,     \* the shmSize that processes are started with,
  OtherSizes,    \* and what MayDiffer may be started with instead
  MayDiffer,
  MayCrash,      \* processes that may be killed at any point
  MaxObjects,    \* bound: objects created
  MaxStarts      \* bound: constructor calls

Processes == Producers \cup Consumers

ASSUME ProcessesAssumption ==
  /\ IsFiniteSet(Producers) /\ IsFiniteSet(Consumers)
  /\ Producers \cap Consumers = {}
  /\ MayCrash \subseteq Processes
  /\ MayDiffer \subseteq Processes

Sizes == {UsualSize} \cup OtherSizes

ASSUME SizesAssumption ==
  HeaderSize \in Nat \ {0} /\ Sizes \subseteq Nat \ {0} /\ UsualSize > HeaderSize

ASSUME BoundsAssumption == MaxObjects \in Nat /\ MaxStarts \in Nat

VARIABLES
  size,      \* the shmSize of each process
  name,      \* the object under the path, 0 if there is none
  created,   \* objects created so far
  object,    \* what is in the memory of each object
  pc,
  region,    \* the object each process has open, 0 if none
  starts,    \* constructor calls so far
  dead,      \* killed processes
  overlap    \* history: an attach has overlapped the last consumer's unlink

vars == <<size, name, created, object, pc, region, starts, dead, overlap>>

(* enum class InitState *)
Uninitialized == 0
Initializing  == 1
Ready         == 2

(* A new object has no pages; ftruncate adds pages of zeros. *)
NewObject(p) ==
  [creator |-> p, sized |-> FALSE, initState |-> Uninitialized, shmSize |-> 0,
   producerCount |-> 0, consumerCount |-> 0, refCount |-> 0]

Init ==
  /\ size \in [Processes -> Sizes]
  /\ \A p \in Processes \ MayDiffer : size[p] = UsualSize
  /\ name = 0 /\ created = 0
  /\ object = [o \in {} |-> NewObject(o)]
  /\ pc = [p \in Processes |-> "out"]
  /\ region = [p \in Processes |-> 0]
  /\ starts = 0
  /\ dead = {}
  /\ overlap = FALSE

At(p, l) == p \notin dead /\ pc[p] = l

Goto(p, l) == pc' = [pc EXCEPT ![p] = l]

(* A step of p that leaves the shared memory alone. *)
Local(p, from, to) ==
  /\ At(p, from)
  /\ Goto(p, to)
  /\ UNCHANGED <<name, created, object, region, starts, dead>>

(* The constructor does not succeed: the region is unmapped and closed. *)
Fail(p, from) ==
  /\ At(p, from)
  /\ Goto(p, "failed")
  /\ region' = [region EXCEPT ![p] = 0]
  /\ UNCHANGED <<name, created, object, starts, dead>>

(* A step of p that writes the object it has open. *)
Update(p, from, to, new) ==
  /\ At(p, from)
  /\ Goto(p, to)
  /\ object' = [object EXCEPT ![region[p]] = new]
  /\ UNCHANGED <<name, created, region, starts, dead>>

-----------------------------------------------------------------------------
(* SharedMemoryRegion *)

(* shm_open opens what has the name, or fails. *)
OpenName(p) ==
  /\ region' = [region EXCEPT ![p] = name]
  /\ Goto(p, IF name = 0 THEN "failed" ELSE "map")
  /\ UNCHANGED <<name, created, object, dead>>

Create(p) ==
  /\ name = 0
  /\ created < MaxObjects
  /\ created' = created + 1
  /\ name' = created'
  /\ object' = [o \in 1 .. created' |-> IF o = created' THEN NewObject(p) ELSE object[o]]
  /\ region' = [region EXCEPT ![p] = created']
  /\ Goto(p, "truncate")
  /\ UNCHANGED dead

(* Faulty variant: without O_EXCL everybody takes itself for the creator. *)
OpenOrCreateShared(p) ==
  /\ At(p, "out") /\ starts < MaxStarts
  /\ starts' = starts + 1
  /\ \/ Create(p)
     \/ /\ name # 0
        /\ region' = [region EXCEPT ![p] = name]
        /\ Goto(p, "truncate")
        /\ UNCHANGED <<name, created, object, dead>>

(* OpenOrCreate: O_CREAT | O_EXCL makes exactly one process the creator. *)
OpenOrCreate(p) ==
  /\ At(p, "out") /\ starts < MaxStarts
  /\ starts' = starts + 1
  /\ \/ Create(p)
     \/ /\ name # 0
        /\ Goto(p, "reopen")
        /\ UNCHANGED <<name, created, object, region, dead>>

(* The second shm_open: by now the name may be gone. *)
Reopen(p) == At(p, "reopen") /\ OpenName(p) /\ UNCHANGED starts

(* OpenExisting *)
OpenExisting(p) ==
  /\ At(p, "out") /\ starts < MaxStarts
  /\ starts' = starts + 1
  /\ OpenName(p)

Truncate(p) == Update(p, "truncate", "mapNew", [object[region[p]] EXCEPT !.sized = TRUE])

(* GetBufferSizeFromShmSize *)
TooSmall(p) == size[p] <= HeaderSize

(* Faulty variant: nobody waits for the creator. *)
MapNoWait(p) ==
  \/ TooSmall(p) /\ (Fail(p, "mapNew") \/ Fail(p, "map"))
  \/ ~TooSmall(p) /\ (Local(p, "mapNew", "init") \/ Local(p, "map", "count"))

(* mmap works whatever the object's size is.  The constructor looks at the size
   it was given only afterwards, and throws if no buffer is left. *)
Map(p) ==
  \/ TooSmall(p) /\ (Fail(p, "mapNew") \/ Fail(p, "map"))
  \/ ~TooSmall(p) /\ (Local(p, "mapNew", "init") \/ Local(p, "map", "wait"))

-----------------------------------------------------------------------------
(* The constructors *)

(* The creator's header: the layout is constructed and every field stored. *)
InitLayout(p) ==
  Update(p, "init", "publish",
         [object[region[p]] EXCEPT !.initState = Initializing, !.shmSize = size[p],
            !.producerCount = 0, !.consumerCount = 0, !.refCount = 0])

(* Faulty variant: the creator returns before it has said that it is done. *)
InitReadyForgotten(p) == Local(p, "publish", "count")

InitReady(p) == Update(p, "publish", "count", [object[region[p]] EXCEPT !.initState = Ready])

(* ValidateProtocol, which compares the rest of the header too: whoever stores Ready
   has filled it in, and nothing it reads changes after that. *)
Validates(p) == object[region[p]].shmSize = size[p]

(* WaitUntilReady, then ValidateProtocol *)
WaitUntilReady(p) ==
  LET o == object[region[p]]
  IN  /\ At(p, "wait")
      /\ \/ ~o.sized /\ Local(p, "wait", "fault")
         \/ /\ o.sized /\ o.initState = Ready
            /\ IF Validates(p) THEN Local(p, "wait", "count") ELSE Fail(p, "wait")

(* The header with the counter of p's role one up or down. *)
Counted(p, up) ==
  LET o == object[region[p]]
      After(n) == IF up THEN n + 1 ELSE n - 1
  IN  IF p \in Producers THEN [o EXCEPT !.producerCount = After(@)]
                         ELSE [o EXCEPT !.consumerCount = After(@)]

Count(p) == Update(p, "count", "ref", Counted(p, TRUE))

Reference(p) == Update(p, "ref", "in", [object[region[p]] EXCEPT !.refCount = @ + 1])

-----------------------------------------------------------------------------
(* The destructors *)

Leave(p) == Update(p, "in", "unref", Counted(p, FALSE))

UnreferenceThen(p, unlinks) ==
  /\ At(p, "unref")
  /\ object' = [object EXCEPT ![region[p]].refCount = @ - 1]
  /\ Goto(p, IF unlinks THEN "unlink" ELSE "out")
  /\ region' = IF unlinks THEN region ELSE [region EXCEPT ![p] = 0]
  /\ UNCHANGED <<name, created, starts, dead>>

(* Faulty variant: fetch_sub taken to return the new value. *)
UnreferenceNewValue(p) ==
  UnreferenceThen(p, p \in Consumers /\ object[region[p]].refCount - 1 = 1)

(* refCount.fetch_sub(1): a consumer that was the last goes on to unlink, a
   producer never does.  Without the unlink the region is released at once. *)
Unreference(p) ==
  UnreferenceThen(p, p \in Consumers /\ object[region[p]].refCount = 1)

(* shm_unlink goes by the path: it removes what has the name now. *)
Unlink(p) ==
  /\ At(p, "unlink")
  /\ name' = 0
  /\ region' = [region EXCEPT ![p] = 0]
  /\ Goto(p, "out")
  /\ UNCHANGED <<created, object, starts, dead>>

Crash(p) ==
  /\ p \in MayCrash \ dead
  /\ pc[p] \notin {"out", "failed", "fault"}
  /\ dead' = dead \cup {p}
  /\ UNCHANGED <<name, created, object, pc, region, starts>>

-----------------------------------------------------------------------------
Start(p) == IF p \in Producers THEN OpenOrCreate(p) ELSE OpenExisting(p)

Step(p) ==
  \/ Reopen(p) \/ Truncate(p) \/ Map(p)
  \/ InitLayout(p) \/ InitReady(p) \/ WaitUntilReady(p)
  \/ Count(p) \/ Reference(p) \/ Unreference(p) \/ Unlink(p)

(* Somebody has the object open and is not yet in its refCount while a consumer
   that took refCount to zero is about to unlink. *)
Overlap ==
  \E p, q \in Processes \ dead :
    /\ pc[p] = "unlink"
    /\ pc[q] \in {"truncate", "mapNew", "map", "init", "publish", "wait", "count", "ref"}

History == UNCHANGED size /\ overlap' = (overlap \/ Overlap')

Next == \E p \in Processes : (Start(p) \/ Step(p) \/ Leave(p) \/ Crash(p)) /\ History

(* Processes are scheduled while they live.  Nobody has to start or to leave. *)
Fairness == \A p \in Processes : WF_vars(Step(p) /\ History)

Spec == Init /\ [][Next]_vars

FairSpec == Spec /\ Fairness

-----------------------------------------------------------------------------
(* Counters do not underflow, and only existing objects are named or open. *)
TypeOK ==
  /\ size \in [Processes -> Sizes]
  /\ created \in 0 .. MaxObjects
  /\ name \in 0 .. created
  /\ object \in [1 .. created ->
       [creator : Producers, sized : BOOLEAN,
        initState : {Uninitialized, Initializing, Ready},
        shmSize : {0} \cup Sizes,
        producerCount : Nat, consumerCount : Nat, refCount : Nat]]
  /\ pc \in [Processes -> {"out", "reopen", "truncate", "mapNew", "map", "init", "publish",
                           "wait", "count", "ref", "in", "unref", "unlink", "failed", "fault"}]
  /\ region \in [Processes -> 0 .. created]
  /\ starts \in 0 .. MaxStarts
  /\ dead \subseteq Processes
  /\ overlap \in BOOLEAN

Attached == {"count", "ref", "in", "unref"}

(* Whoever got through its constructor works on an object that was initialised
   completely, for the size the process was started with, and that nobody
   initialises again under it (mpsc_queue.cpp 39-45, 110-138). *)
ReadyBeforeUse ==
  \A p \in Processes : pc[p] \in Attached =>
    /\ object[region[p]].initState = Ready
    /\ object[region[p]].sized
    /\ object[region[p]].shmSize = size[p]

Having(P, L, o) == Cardinality({p \in P : region[p] = o /\ pc[p] \in L})

(* The three counters of a header are the processes that hold it, those killed
   while they held it included (mpsc_queue.cpp 99-107, 297-305). *)
CountsMatch ==
  \A o \in 1 .. created :
    /\ object[o].refCount = Having(Processes, {"in", "unref"}, o)
    /\ object[o].producerCount = Having(Producers, {"ref", "in"}, o)
    /\ object[o].consumerCount = Having(Consumers, {"ref", "in"}, o)

(* Everybody who is attached works on the one object that has the name, so that
   what producers send is where consumers look, unless an attach overlapped the
   unlink of the last consumer (mpsc_queue.cpp 301-311, 86-90). *)
SameQueue ==
  ~overlap =>
    \A p \in Processes \ dead : pc[p] \in Attached => region[p] = name

(* Everybody who waits for an object to become Ready gets on, unless the object
   was abandoned by its creator: killed, or turned away for its own size. *)
WaitEnds ==
  \A p \in Processes :
    pc[p] = "wait" ~>
      \/ pc[p] # "wait"
      \/ p \in dead
      \/ LET o == object[region[p]]
         IN  o.initState # Ready /\ (o.creator \in dead \/ pc[o.creator] = "failed")

=============================================================================
