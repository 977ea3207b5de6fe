------------------------- MODULE ShmLifecycleProofs -------------------------
(***************************************************************************)
(* Proofs about hw-5's shared memory lifecycle, for any finite sets of     *)
(* producers and consumers of any sizes, any number of them killed at any  *)
(* point, and any number of objects.                                       *)
(***************************************************************************)
EXTENDS ShmLifecycle, Counting

Creating == {"truncate", "mapNew", "init", "publish"}

Opened == Creating \cup {"map", "wait"} \cup Attached

(* Between shm_open and the end of the destructor a process has an object open. *)
RegionHeld ==
  \A p \in Processes : pc[p] \in Opened \cup {"unlink"} => region[p] # 0

(* Whoever initialises an object created it, and nobody has been told yet that it
   is Ready.  So two processes never initialise the same object, and nobody is
   attached to it: without this neither ReadyBeforeUse nor CountsMatch would
   survive the stores of the creator. *)
CreatorAlone ==
  \A p \in Processes : pc[p] \in Creating =>
    /\ object[region[p]].creator = p
    /\ object[region[p]].initState # Ready
    /\ pc[p] # "truncate" => object[region[p]].sized
    /\ pc[p] = "publish" => object[region[p]].shmSize = size[p]

IInv == TypeOK /\ RegionHeld /\ CreatorAlone /\ ReadyBeforeUse /\ CountsMatch

(* Everybody who has opened an object and is alive has the one with the name, and
   nobody has while the last consumer is about to unlink. *)
OpenedByName ==
  /\ Overlap => overlap
  /\ ~overlap => \A p \in Processes \ dead : pc[p] \in Opened => region[p] = name
  /\ ~overlap => \A p, q \in Processes \ dead : pc[p] = "unlink" => pc[q] \notin Opened

Inv == IInv /\ OpenedByName

-----------------------------------------------------------------------------
(* Counting: a step of one process changes what it counts for, and nothing else. *)

(* Only finitely many processes are counted. *)
LEMMA ProcessesFinite == IsFiniteSet(Processes)
BY ProcessesAssumption, FS_Union DEF Processes

(* The processes in each of the three counters of an object. *)
Refs(o) == {p \in Processes : region[p] = o /\ pc[p] \in {"in", "unref"}}
Prods(o) == {p \in Producers : region[p] = o /\ pc[p] \in {"ref", "in"}}
Cons(o) == {p \in Consumers : region[p] = o /\ pc[p] \in {"ref", "in"}}

(* What CountsMatch says of one object. *)
Exact(o) ==
  /\ object[o].refCount = Cardinality(Refs(o))
  /\ object[o].producerCount = Cardinality(Prods(o))
  /\ object[o].consumerCount = Cardinality(Cons(o))

(* CountsMatch, object by object. *)
LEMMA CountsMatchExact == CountsMatch <=> \A o \in 1 .. created : Exact(o)
BY DEF CountsMatch, Exact, Having, Refs, Prods, Cons

(* The counted sets are finite, so that Cardinality counts them. *)
LEMMA SetsFinite ==
  ASSUME NEW o
  PROVE  IsFiniteSet(Refs(o)) /\ IsFiniteSet(Prods(o)) /\ IsFiniteSet(Cons(o))
BY ProcessesFinite, FS_Subset DEF Processes, Refs, Prods, Cons

(* A step of p changes the counts of o as p's own part in them changes. *)
LEMMA CountsStep ==
  ASSUME NEW p \in Processes, NEW o,
         \A q \in Processes \ {p} : region'[q] = region[q] /\ pc'[q] = pc[q]
  PROVE  /\ Cardinality(Refs(o)) \in Nat /\ Cardinality(Prods(o)) \in Nat
         /\ Cardinality(Cons(o)) \in Nat
         /\ p \in Refs(o) => Cardinality(Refs(o)) >= 1
         /\ p \in Prods(o) => Cardinality(Prods(o)) >= 1
         /\ p \in Cons(o) => Cardinality(Cons(o)) >= 1
         /\ Cardinality(Refs(o)') =
              Cardinality(Refs(o)) + One(p \in Refs(o)') - One(p \in Refs(o))
         /\ Cardinality(Prods(o)') =
              Cardinality(Prods(o)) + One(p \in Prods(o)') - One(p \in Prods(o))
         /\ Cardinality(Cons(o)') =
              Cardinality(Cons(o)) + One(p \in Cons(o)') - One(p \in Cons(o))
<1>1. /\ Refs(o) \ {p} = Refs(o)' \ {p}
      /\ Prods(o) \ {p} = Prods(o)' \ {p}
      /\ Cons(o) \ {p} = Cons(o)' \ {p}
  BY DEF Refs, Prods, Cons, Processes
<1>2. IsFiniteSet(Refs(o)') /\ IsFiniteSet(Prods(o)') /\ IsFiniteSet(Cons(o)')
  BY ProcessesFinite, FS_Subset DEF Processes, Refs, Prods, Cons
<1> QED
  BY <1>1, <1>2, SetsFinite, OneMoves DEF One

(* A step of p outside the counted part, which leaves all counters alone. *)
LEMMA QuietStep ==
  ASSUME CountsMatch, NEW p \in Processes,
         \A q \in Processes \ {p} : region'[q] = region[q] /\ pc'[q] = pc[q],
         pc[p] \notin {"ref", "in", "unref"}, pc'[p] \notin {"ref", "in", "unref"},
         created' = created,
         \A o \in 1 .. created :
           /\ object'[o].refCount = object[o].refCount
           /\ object'[o].producerCount = object[o].producerCount
           /\ object'[o].consumerCount = object[o].consumerCount
  PROVE  CountsMatch'
<1> SUFFICES ASSUME NEW o \in 1 .. created PROVE Exact(o)'
  BY CountsMatchExact DEF CountsMatch, Exact, Having, Refs, Prods, Cons
<1>1. Exact(o)
  BY CountsMatchExact
<1>2. Refs(o)' = Refs(o) /\ Prods(o)' = Prods(o) /\ Cons(o)' = Cons(o)
  BY DEF Refs, Prods, Cons, Processes
<1> QED
  BY <1>1, <1>2 DEF Exact

-----------------------------------------------------------------------------
(* The inductive invariant *)

Labels ==
  {"out", "reopen", "truncate", "mapNew", "map", "init", "publish", "wait", "count", "ref",
   "in", "unref", "unlink", "failed", "fault"}

Headers ==
  [creator : Producers, sized : BOOLEAN, initState : {Uninitialized, Initializing, Ready},
   shmSize : {0} \cup Sizes, producerCount : Nat, consumerCount : Nat, refCount : Nat]

(* TypeOK with its large sets named, which keeps the provers from expanding them. *)
LEMMA TypeOKParts ==
  TypeOK <=> /\ size \in [Processes -> Sizes]
             /\ created \in 0 .. MaxObjects
             /\ name \in 0 .. created
             /\ object \in [1 .. created -> Headers]
             /\ pc \in [Processes -> Labels]
             /\ region \in [Processes -> 0 .. created]
             /\ starts \in 0 .. MaxStarts
             /\ dead \subseteq Processes
             /\ overlap \in BOOLEAN
BY DEF TypeOK, Headers, Labels

(* At first there is no object and nobody has one open. *)
LEMMA InitIInv == Init => IInv
<1> SUFFICES ASSUME Init PROVE IInv
  OBVIOUS
<1>1. TypeOK
  <2>1. 1 .. created = {}
    BY DEF Init
  <2>2. object \in [1 .. created -> Headers]
    BY <2>1 DEF Init
  <2>3. created = 0 /\ name = 0 /\ starts = 0 /\ dead = {} /\ overlap = FALSE
    BY DEF Init
  <2>4. created \in 0 .. MaxObjects /\ name \in 0 .. created /\ starts \in 0 .. MaxStarts
    BY <2>3, BoundsAssumption
  <2>5. pc \in [Processes -> Labels] /\ region \in [Processes -> 0 .. created]
    BY <2>3 DEF Init, Labels
  <2>6. size \in [Processes -> Sizes]
    BY DEF Init
  <2> QED
    BY <2>2, <2>3, <2>4, <2>5, <2>6, TypeOKParts
<1>2. RegionHeld /\ CreatorAlone /\ ReadyBeforeUse
  BY DEF Init, RegionHeld, CreatorAlone, ReadyBeforeUse, Opened, Creating, Attached
<1>3. CountsMatch
  BY DEF Init, CountsMatch
<1> QED
  BY <1>1, <1>2, <1>3 DEF IInv

(* What being at l requires of the header h of the object p has open. *)
Fits(p, l, h) ==
  /\ l \in Creating =>
       /\ h.creator = p
       /\ h.initState # Ready
       /\ l # "truncate" => h.sized
       /\ l = "publish" => h.shmSize = size[p]
  /\ l \in Attached =>
       /\ h.initState = Ready
       /\ h.sized
       /\ h.shmSize = size[p]

(* p may be at l with the object r open. *)
Allowed(p, l, r) ==
  /\ l \in Opened \cup {"unlink"} => r # 0
  /\ Fits(p, l, object[r])

(* The invariant's parts on single processes, in one. *)
LEMMA AllowedParts ==
  RegionHeld /\ CreatorAlone /\ ReadyBeforeUse
    <=> \A p \in Processes : Allowed(p, pc[p], region[p])
BY DEF RegionHeld, CreatorAlone, ReadyBeforeUse, Allowed, Fits

(* A step of p that writes no object. *)
Moves(p, to, r) ==
  /\ pc' = [pc EXCEPT ![p] = to]
  /\ region' = [region EXCEPT ![p] = r]
  /\ UNCHANGED <<size, created, object>>

(* A step that writes no object keeps what the invariant says of objects. *)
LEMMA MovesKeep ==
  ASSUME IInv, NEW p \in Processes, NEW to \in Labels, NEW r \in 0 .. created,
         Moves(p, to, r), Allowed(p, to, r),
         {pc[p], to} \cap {"ref", "in", "unref"} = {}
  PROVE  /\ RegionHeld' /\ CreatorAlone' /\ ReadyBeforeUse' /\ CountsMatch'
         /\ pc' \in [Processes -> Labels]
         /\ region' \in [Processes -> 0 .. created']
         /\ object' \in [1 .. created' -> Headers]
<1>1. /\ pc \in [Processes -> Labels]
      /\ region \in [Processes -> 0 .. created]
      /\ object \in [1 .. created -> Headers]
  BY TypeOKParts DEF IInv
<1>2. /\ pc' = [pc EXCEPT ![p] = to]
      /\ region' = [region EXCEPT ![p] = r]
      /\ UNCHANGED <<size, created, object>>
  BY DEF Moves
<1>3. \A q \in Processes \ {p} : region'[q] = region[q] /\ pc'[q] = pc[q]
  BY <1>1, <1>2
<1>4. pc'[p] = to /\ region'[p] = r
  BY <1>1, <1>2
<1>5. \A q \in Processes : Allowed(q, pc[q], region[q])
  BY AllowedParts DEF IInv
<1>6. \A q \in Processes : Allowed(q, pc[q], region[q])'
  BY <1>2, <1>3, <1>4, <1>5 DEF Allowed, Fits
<1>7. RegionHeld' /\ CreatorAlone' /\ ReadyBeforeUse'
  BY <1>6 DEF RegionHeld, CreatorAlone, ReadyBeforeUse, Allowed, Fits
<1>8. CountsMatch'
  BY <1>2, <1>3, <1>4, QuietStep DEF IInv
<1> QED
  BY <1>1, <1>2, <1>7, <1>8

(* A step of p that writes the object it has open. *)
Writes(p, to, r, new) ==
  /\ pc' = [pc EXCEPT ![p] = to]
  /\ region' = [region EXCEPT ![p] = r]
  /\ object' = [object EXCEPT ![region[p]] = new]
  /\ UNCHANGED <<size, created>>

(* What a write leaves alone: who may rely on the object still may. *)
Respects(p, new) ==
  LET old == object[region[p]]
  IN  /\ new.creator = old.creator
      /\ old.sized => new.sized
      /\ old.initState = Ready => new.initState = Ready
      /\ pc[p] \notin Creating => new.initState = old.initState
      /\ pc[p] \notin Creating \/ old.initState = Ready => new.shmSize = old.shmSize

(* A write that respects the others keeps what the invariant says of objects. *)
LEMMA WritesKeep ==
  ASSUME IInv, NEW p \in Processes, NEW to \in Labels, NEW r \in {0, region[p]},
         NEW new \in Headers,
         region[p] # 0, Writes(p, to, r, new), Respects(p, new), Fits(p, to, new),
         to \in Opened \cup {"unlink"} => r = region[p]
  PROVE  /\ RegionHeld' /\ CreatorAlone' /\ ReadyBeforeUse'
         /\ pc' \in [Processes -> Labels]
         /\ region' \in [Processes -> 0 .. created']
         /\ object' \in [1 .. created' -> Headers]
         /\ region[p] \in 1 .. created
         /\ object[region[p]] \in Headers
         /\ object'[region[p]] = new
         /\ \A o \in 1 .. created : o # region[p] => object'[o] = object[o]
         /\ pc'[p] = to /\ region'[p] = r
         /\ \A q \in Processes \ {p} : region'[q] = region[q] /\ pc'[q] = pc[q]
<1>1. /\ pc \in [Processes -> Labels]
      /\ region \in [Processes -> 0 .. created]
      /\ object \in [1 .. created -> Headers]
      /\ created \in Nat
  BY TypeOKParts, BoundsAssumption DEF IInv
<1>2. /\ pc' = [pc EXCEPT ![p] = to]
      /\ region' = [region EXCEPT ![p] = r]
      /\ object' = [object EXCEPT ![region[p]] = new]
      /\ UNCHANGED <<size, created>>
  BY DEF Writes
<1>3. \A q \in Processes \ {p} : region'[q] = region[q] /\ pc'[q] = pc[q]
  BY <1>1, <1>2
<1>4. pc'[p] = to /\ region'[p] = r /\ region[p] \in 1 .. created /\ r \in 0 .. created
  BY <1>1, <1>2
<1>5. /\ object'[region[p]] = new
      /\ \A o \in 1 .. created : o # region[p] => object'[o] = object[o]
  BY <1>1, <1>2, <1>4
<1>6. \A q \in Processes : Allowed(q, pc[q], region[q])
  BY AllowedParts DEF IInv
<1>7. ASSUME NEW q \in Processes
      PROVE  Allowed(q, pc[q], region[q])'
  <2>1. CASE q = p
    BY <1>2, <1>4, <1>5, <2>1 DEF Allowed, Fits, Opened
  <2>2. CASE q # p /\ region[q] # region[p]
    <3>1. pc[q] \in Opened \cup {"unlink"} => region[q] \in 1 .. created
      BY <1>1, <1>6 DEF Allowed, Fits
    <3>2. Creating \subseteq Opened /\ Attached \subseteq Opened
      BY DEF Opened
    <3> QED
      BY <1>2, <1>3, <1>5, <1>6, <2>2, <3>1, <3>2 DEF Allowed, Fits
  <2>3. CASE q # p /\ region[q] = region[p]
    <3>1. pc[q] \in Creating /\ pc[p] \in Creating => FALSE
      BY <1>6, <2>3 DEF Allowed, Fits
    <3>2. pc[q] \in Creating => /\ new.initState = object[region[p]].initState
                                /\ new.shmSize = object[region[p]].shmSize
      BY <1>6, <2>3, <3>1 DEF Allowed, Fits, Respects
    <3> QED
      BY <1>2, <1>3, <1>5, <1>6, <2>3, <3>2 DEF Allowed, Fits, Respects
  <2> QED
    BY <2>1, <2>2, <2>3
<1>8. RegionHeld' /\ CreatorAlone' /\ ReadyBeforeUse'
  BY <1>7 DEF RegionHeld, CreatorAlone, ReadyBeforeUse, Allowed, Fits
<1> QED
  BY <1>1, <1>2, <1>3, <1>4, <1>5, <1>8

(* The counters of new are those of the object p has open, adjusted by p's own
   way from pc[p] to "to". *)
Counters(p, to, new) ==
  LET old == object[region[p]]
  IN  /\ new.refCount = old.refCount + One(to \in {"in", "unref"})
                                     - One(pc[p] \in {"in", "unref"})
      /\ new.producerCount = old.producerCount
            + One(p \in Producers /\ to \in {"ref", "in"})
            - One(p \in Producers /\ pc[p] \in {"ref", "in"})
      /\ new.consumerCount = old.consumerCount
            + One(p \in Consumers /\ to \in {"ref", "in"})
            - One(p \in Consumers /\ pc[p] \in {"ref", "in"})

(* A write that adjusts the counters for its process keeps all of them exact. *)
LEMMA WritesCount ==
  ASSUME CountsMatch, NEW p \in Processes, NEW to, NEW r, NEW new,
         r = region[p] \/ to \notin {"ref", "in", "unref"},
         Counters(p, to, new), created' = created, region[p] \in 1 .. created,
         object'[region[p]] = new,
         \A o \in 1 .. created : o # region[p] => object'[o] = object[o],
         pc'[p] = to, region'[p] = r,
         \A q \in Processes \ {p} : region'[q] = region[q] /\ pc'[q] = pc[q]
  PROVE  CountsMatch'
<1> SUFFICES ASSUME NEW o \in 1 .. created PROVE Exact(o)'
  BY CountsMatchExact DEF CountsMatch, Exact, Having, Refs, Prods, Cons
<1>1. Exact(o)
  BY CountsMatchExact
<1>2. CASE o # region[p]
  <2>1. Refs(o)' = Refs(o) /\ Prods(o)' = Prods(o) /\ Cons(o)' = Cons(o)
    BY <1>2 DEF Refs, Prods, Cons, Processes
  <2> QED
    BY <1>1, <1>2, <2>1 DEF Exact
<1>3. CASE o = region[p]
  <2>1. /\ p \in Refs(o) <=> pc[p] \in {"in", "unref"}
        /\ p \in Prods(o) <=> p \in Producers /\ pc[p] \in {"ref", "in"}
        /\ p \in Cons(o) <=> p \in Consumers /\ pc[p] \in {"ref", "in"}
        /\ p \in Refs(o)' <=> to \in {"in", "unref"}
        /\ p \in Prods(o)' <=> p \in Producers /\ to \in {"ref", "in"}
        /\ p \in Cons(o)' <=> p \in Consumers /\ to \in {"ref", "in"}
    BY <1>3 DEF Refs, Prods, Cons
  <2>2. /\ Cardinality(Refs(o)') =
             Cardinality(Refs(o)) + One(p \in Refs(o)') - One(p \in Refs(o))
        /\ Cardinality(Prods(o)') =
             Cardinality(Prods(o)) + One(p \in Prods(o)') - One(p \in Prods(o))
        /\ Cardinality(Cons(o)') =
             Cardinality(Cons(o)) + One(p \in Cons(o)') - One(p \in Cons(o))
    BY CountsStep
  <2> QED
    BY <1>1, <1>3, <2>1, <2>2 DEF Exact, Counters, One
<1> QED
  BY <1>2, <1>3

(* The rest of the type invariant. *)
LEMMA TypeStep ==
  ASSUME TypeOK, History,
         pc' \in [Processes -> Labels],
         region' \in [Processes -> 0 .. created'],
         object' \in [1 .. created' -> Headers],
         created' \in 0 .. MaxObjects, name' \in 0 .. created',
         starts' \in 0 .. MaxStarts, dead' \subseteq Processes
  PROVE  TypeOK'
<1>1. size' \in [Processes -> Sizes]
  BY DEF TypeOK, History
<1>2. overlap' \in BOOLEAN
  BY DEF History, Overlap, TypeOK
<1> QED
  BY <1>1, <1>2 DEF TypeOK, Headers, Labels

(* A step of one process that writes no object preserves the invariant. *)
LEMMA MovesIInv ==
  ASSUME IInv, History, NEW p \in Processes, NEW to \in Labels, NEW r \in 0 .. created,
         Moves(p, to, r), Allowed(p, to, r),
         {pc[p], to} \cap {"ref", "in", "unref"} = {},
         name' \in 0 .. created, starts' \in 0 .. MaxStarts, UNCHANGED dead
  PROVE  IInv'
<1>1. /\ RegionHeld' /\ CreatorAlone' /\ ReadyBeforeUse' /\ CountsMatch'
      /\ pc' \in [Processes -> Labels]
      /\ region' \in [Processes -> 0 .. created']
      /\ object' \in [1 .. created' -> Headers]
  BY MovesKeep
<1>2. created' = created
  BY DEF Moves
<1>3. TypeOK /\ created \in 0 .. MaxObjects /\ dead \subseteq Processes
  BY DEF IInv, TypeOK
<1>4. TypeOK'
  BY <1>1, <1>2, <1>3, TypeStep
<1> QED
  BY <1>1, <1>4 DEF IInv

(* A write that respects the other processes and the counters preserves it too. *)
LEMMA WritesIInv ==
  ASSUME IInv, History, NEW p \in Processes, NEW to \in Labels,
         NEW r \in {0, region[p]}, NEW new \in Headers,
         r = region[p] \/ to \notin {"ref", "in", "unref"},
         region[p] # 0, Writes(p, to, r, new), Respects(p, new), Fits(p, to, new),
         to \in Opened \cup {"unlink"} => r = region[p],
         Counters(p, to, new), UNCHANGED <<name, starts, dead>>
  PROVE  IInv'
<1>1. /\ RegionHeld' /\ CreatorAlone' /\ ReadyBeforeUse'
      /\ pc' \in [Processes -> Labels]
      /\ region' \in [Processes -> 0 .. created']
      /\ object' \in [1 .. created' -> Headers]
      /\ region[p] \in 1 .. created
      /\ object'[region[p]] = new
      /\ \A o \in 1 .. created : o # region[p] => object'[o] = object[o]
      /\ pc'[p] = to /\ region'[p] = r
      /\ \A q \in Processes \ {p} : region'[q] = region[q] /\ pc'[q] = pc[q]
  BY WritesKeep
<1>2. created' = created
  BY DEF Writes
<1>3. /\ TypeOK /\ created \in 0 .. MaxObjects /\ name \in 0 .. created
      /\ starts \in 0 .. MaxStarts /\ dead \subseteq Processes
  BY DEF IInv, TypeOK
<1>4. CountsMatch'
  BY <1>1, <1>2, WritesCount DEF IInv
<1>5. TypeOK'
  BY <1>1, <1>2, <1>3, TypeStep
<1> QED
  BY <1>1, <1>4, <1>5 DEF IInv

(* What the invariant says of the types when p has an object open. *)
LEMMA OpenTypes ==
  ASSUME IInv, NEW p \in Processes
  PROVE  /\ Allowed(p, pc[p], region[p])
         /\ region[p] \in 0 .. created /\ created \in Nat
         /\ region = [region EXCEPT ![p] = region[p]]
         /\ name \in 0 .. created
         /\ starts \in 0 .. MaxStarts /\ MaxStarts \in Nat
         /\ region[p] # 0 => object[region[p]] \in Headers
         /\ size[p] \in Sizes
<1>1. Allowed(p, pc[p], region[p])
  BY AllowedParts DEF IInv
<1>2. /\ region \in [Processes -> 0 .. created]
      /\ created \in 0 .. MaxObjects
      /\ name \in 0 .. created
      /\ object \in [1 .. created -> Headers]
      /\ starts \in 0 .. MaxStarts
      /\ size \in [Processes -> Sizes]
  BY TypeOKParts DEF IInv
<1> QED
  BY <1>1, <1>2, BoundsAssumption

(* The second shm_open, without O_CREAT, opens what has the name by then. *)
LEMMA ReopenIInv ==
  ASSUME IInv, History, NEW p \in Processes, Reopen(p)
  PROVE  IInv'
<1> DEFINE to == IF name = 0 THEN "failed" ELSE "map"
<1>1. Moves(p, to, name) /\ pc[p] = "reopen" /\ UNCHANGED <<name, starts, dead>>
  BY DEF Reopen, OpenName, At, Goto, Moves, History
<1>2. Allowed(p, to, name) /\ to \in Labels
  BY DEF Allowed, Fits, Opened, Creating, Attached, Labels
<1>3. {pc[p], to} \cap {"ref", "in", "unref"} = {}
  BY <1>1
<1> QED
  BY <1>1, <1>2, <1>3, OpenTypes, MovesIInv

(* A consumer opens what has the name. *)
LEMMA OpenExistingIInv ==
  ASSUME IInv, History, NEW p \in Processes, OpenExisting(p)
  PROVE  IInv'
<1> DEFINE to == IF name = 0 THEN "failed" ELSE "map"
<1>1. /\ Moves(p, to, name) /\ pc[p] = "out" /\ UNCHANGED <<name, dead>>
      /\ starts < MaxStarts /\ starts' = starts + 1
  BY DEF OpenExisting, OpenName, At, Goto, Moves, History
<1>2. Allowed(p, to, name) /\ to \in Labels
  BY DEF Allowed, Fits, Opened, Creating, Attached, Labels
<1>3. {pc[p], to} \cap {"ref", "in", "unref"} = {}
  BY <1>1
<1>4. starts' \in 0 .. MaxStarts
  BY <1>1, OpenTypes
<1> QED
  BY <1>1, <1>2, <1>3, <1>4, OpenTypes, MovesIInv

(* mmap, and the check of the process's own size, touch nothing shared. *)
LEMMA MapIInv ==
  ASSUME IInv, History, NEW p \in Processes, Map(p)
  PROVE  IInv'
<1>1. /\ Allowed(p, pc[p], region[p]) /\ region[p] \in 0 .. created
      /\ name \in 0 .. created /\ starts \in 0 .. MaxStarts
      /\ region = [region EXCEPT ![p] = region[p]]
  BY OpenTypes
<1>2. UNCHANGED <<name, starts, dead>> /\ pc[p] \in {"mapNew", "map"}
  BY DEF Map, Fail, Local, At
<1>3. CASE Moves(p, "failed", 0)
  <2>1. Allowed(p, "failed", 0) /\ "failed" \in Labels /\ 0 \in 0 .. created
    BY OpenTypes DEF Allowed, Fits, Opened, Creating, Attached, Labels
  <2> QED
    BY <1>1, <1>2, <1>3, <2>1, MovesIInv
<1>4. CASE pc[p] = "mapNew" /\ Moves(p, "init", region[p])
  <2>1. Allowed(p, "init", region[p]) /\ "init" \in Labels
    BY <1>1, <1>4 DEF Allowed, Fits, Opened, Creating, Attached, Labels
  <2> QED
    BY <1>1, <1>2, <1>4, <2>1, MovesIInv
<1>5. CASE pc[p] = "map" /\ Moves(p, "wait", region[p])
  <2>1. Allowed(p, "wait", region[p]) /\ "wait" \in Labels
    BY <1>1, <1>5 DEF Allowed, Fits, Opened, Creating, Attached, Labels
  <2> QED
    BY <1>1, <1>2, <1>5, <2>1, MovesIInv
<1> QED
  BY <1>1, <1>3, <1>4, <1>5 DEF Map, Fail, Local, At, Goto, Moves, History

(* Whoever waited gets on with a Ready object of its own size only. *)
LEMMA WaitUntilReadyIInv ==
  ASSUME IInv, History, NEW p \in Processes, WaitUntilReady(p)
  PROVE  IInv'
<1>1. /\ Allowed(p, pc[p], region[p]) /\ region[p] \in 0 .. created
      /\ name \in 0 .. created /\ starts \in 0 .. MaxStarts
      /\ region = [region EXCEPT ![p] = region[p]]
  BY OpenTypes
<1>2. UNCHANGED <<name, starts, dead>> /\ pc[p] = "wait"
  BY DEF WaitUntilReady, Fail, Local, At
<1>3. CASE Moves(p, "failed", 0)
  <2>1. Allowed(p, "failed", 0) /\ "failed" \in Labels /\ 0 \in 0 .. created
    BY OpenTypes DEF Allowed, Fits, Opened, Creating, Attached, Labels
  <2> QED
    BY <1>1, <1>2, <1>3, <2>1, MovesIInv
<1>4. CASE Moves(p, "fault", region[p])
  <2>1. Allowed(p, "fault", region[p]) /\ "fault" \in Labels
    BY DEF Allowed, Fits, Opened, Creating, Attached, Labels
  <2> QED
    BY <1>1, <1>2, <1>4, <2>1, MovesIInv
<1>5. CASE /\ object[region[p]].sized /\ object[region[p]].initState = Ready /\ Validates(p)
           /\ Moves(p, "count", region[p])
  <2>1. Allowed(p, "count", region[p]) /\ "count" \in Labels
    BY <1>1, <1>2, <1>5 DEF Allowed, Fits, Opened, Creating, Attached, Labels, Validates
  <2> QED
    BY <1>1, <1>2, <1>5, <2>1, MovesIInv
<1> QED
  BY <1>1, <1>3, <1>4, <1>5 DEF WaitUntilReady, Fail, Local, At, Goto, Moves, History

(* shm_unlink takes the name away, never the object. *)
LEMMA UnlinkIInv ==
  ASSUME IInv, History, NEW p \in Processes, Unlink(p)
  PROVE  IInv'
<1>1. /\ Moves(p, "out", 0) /\ pc[p] = "unlink" /\ name' = 0 /\ UNCHANGED <<starts, dead>>
  BY DEF Unlink, At, Goto, Moves, History
<1>2. /\ Allowed(p, "out", 0) /\ "out" \in Labels /\ 0 \in 0 .. created
      /\ starts \in 0 .. MaxStarts
  BY OpenTypes DEF Allowed, Fits, Opened, Creating, Attached, Labels
<1> QED
  BY <1>1, <1>2, MovesIInv

(* What the counters of the object that p has open are at least. *)
LEMMA CountersHold ==
  ASSUME IInv, NEW p \in Processes, region[p] # 0
  PROVE  LET old == object[region[p]]
         IN  /\ old \in Headers
             /\ old.refCount \in Nat /\ old.producerCount \in Nat
             /\ old.consumerCount \in Nat
             /\ pc[p] \in {"in", "unref"} => old.refCount >= 1
             /\ p \in Producers /\ pc[p] \in {"ref", "in"} => old.producerCount >= 1
             /\ p \in Consumers /\ pc[p] \in {"ref", "in"} => old.consumerCount >= 1
<1>1. region[p] \in 1 .. created /\ object[region[p]] \in Headers
  BY OpenTypes
<1>2. Exact(region[p])
  BY <1>1, CountsMatchExact DEF IInv
<1>3. /\ pc[p] \in {"in", "unref"} => p \in Refs(region[p])
      /\ p \in Producers /\ pc[p] \in {"ref", "in"} => p \in Prods(region[p])
      /\ p \in Consumers /\ pc[p] \in {"ref", "in"} => p \in Cons(region[p])
  BY DEF Refs, Prods, Cons
<1>4. /\ p \in Refs(region[p]) => Cardinality(Refs(region[p])) >= 1
      /\ p \in Prods(region[p]) => Cardinality(Prods(region[p])) >= 1
      /\ p \in Cons(region[p]) => Cardinality(Cons(region[p])) >= 1
  BY SetsFinite, OneMoves
<1> QED
  BY <1>1, <1>2, <1>3, <1>4 DEF Exact, Headers

(* ftruncate by the creator. *)
LEMMA TruncateIInv ==
  ASSUME IInv, History, NEW p \in Processes, Truncate(p)
  PROVE  IInv'
<1> DEFINE old == object[region[p]]
           new == [old EXCEPT !.sized = TRUE]
<1>1. Allowed(p, pc[p], region[p]) /\ region = [region EXCEPT ![p] = region[p]]
  BY OpenTypes
<1>2. pc[p] = "truncate" /\ UNCHANGED <<name, starts, dead>>
  BY DEF Truncate, Update, At
<1>3. Writes(p, "mapNew", region[p], new)
  BY <1>1 DEF Truncate, Update, Goto, Writes, History
<1>4. region[p] # 0 /\ old.creator = p /\ old.initState # Ready
  BY <1>1, <1>2 DEF Allowed, Fits, Opened, Creating
<1>5. old \in Headers
  BY <1>4, OpenTypes
<1>6. /\ new \in Headers /\ new.sized /\ new.creator = p /\ new.initState = old.initState
      /\ new.shmSize = old.shmSize /\ new.refCount = old.refCount
      /\ new.producerCount = old.producerCount /\ new.consumerCount = old.consumerCount
  BY <1>4, <1>5 DEF Headers
<1>7. Respects(p, new)
  BY <1>2, <1>4, <1>6 DEF Respects, Creating
<1>8. Fits(p, "mapNew", new) /\ "mapNew" \in Labels
  BY <1>4, <1>6 DEF Fits, Creating, Attached, Labels
<1>9. Counters(p, "mapNew", new)
  BY <1>2, <1>4, <1>6, CountersHold DEF Counters, One
<1> QED
  BY <1>2, <1>3, <1>4, <1>6, <1>7, <1>8, <1>9, WritesIInv

(* Nobody is attached to an object that is not Ready, so its counters are zero. *)
LEMMA NotReadyZero ==
  ASSUME IInv, NEW o \in 1 .. created, object[o].initState # Ready
  PROVE  object[o].refCount = 0 /\ object[o].producerCount = 0 /\ object[o].consumerCount = 0
<1>1. \A p \in Processes : region[p] = o => pc[p] \notin {"ref", "in", "unref"}
  BY DEF IInv, ReadyBeforeUse, Attached
<1>2. Refs(o) = {} /\ Prods(o) = {} /\ Cons(o) = {}
  BY <1>1 DEF Refs, Prods, Cons, Processes
<1>3. Exact(o)
  BY CountsMatchExact DEF IInv
<1> QED
  BY <1>2, <1>3, FS_EmptySet DEF Exact

(* The creator's stores to the header: every counter is zero before them too. *)
LEMMA InitLayoutIInv ==
  ASSUME IInv, History, NEW p \in Processes, InitLayout(p)
  PROVE  IInv'
<1> DEFINE old == object[region[p]]
           new == [old EXCEPT !.initState = Initializing, !.shmSize = size[p],
                     !.producerCount = 0, !.consumerCount = 0, !.refCount = 0]
<1>1. Allowed(p, pc[p], region[p]) /\ region = [region EXCEPT ![p] = region[p]]
  BY OpenTypes
<1>2. pc[p] = "init" /\ UNCHANGED <<name, starts, dead>>
  BY DEF InitLayout, Update, At
<1>3. Writes(p, "publish", region[p], new)
  BY <1>1 DEF InitLayout, Update, Goto, Writes, History
<1>4. region[p] # 0 /\ old.creator = p /\ old.initState # Ready /\ old.sized
  BY <1>1, <1>2 DEF Allowed, Fits, Opened, Creating
<1>5. old \in Headers /\ region[p] \in 1 .. created /\ size[p] \in Sizes
  BY <1>4, OpenTypes
<1>6. /\ new \in Headers /\ new.sized /\ new.creator = p /\ new.initState = Initializing
      /\ new.shmSize = size[p] /\ new.refCount = 0
      /\ new.producerCount = 0 /\ new.consumerCount = 0
  BY <1>4, <1>5 DEF Headers
<1>7. Respects(p, new)
  BY <1>2, <1>4, <1>6 DEF Respects, Creating
<1>8. Fits(p, "publish", new) /\ "publish" \in Labels
  BY <1>4, <1>6 DEF Fits, Creating, Attached, Labels, Initializing, Ready
<1>9. Counters(p, "publish", new)
  BY <1>2, <1>4, <1>5, <1>6, NotReadyZero DEF Counters, One
<1> QED
  BY <1>2, <1>3, <1>4, <1>6, <1>7, <1>8, <1>9, WritesIInv

(* The creator says that it is done, and is the first to be attached. *)
LEMMA InitReadyIInv ==
  ASSUME IInv, History, NEW p \in Processes, InitReady(p)
  PROVE  IInv'
<1> DEFINE old == object[region[p]]
           new == [old EXCEPT !.initState = Ready]
<1>1. Allowed(p, pc[p], region[p]) /\ region = [region EXCEPT ![p] = region[p]]
  BY OpenTypes
<1>2. pc[p] = "publish" /\ UNCHANGED <<name, starts, dead>>
  BY DEF InitReady, Update, At
<1>3. Writes(p, "count", region[p], new)
  BY <1>1 DEF InitReady, Update, Goto, Writes, History
<1>4. /\ region[p] # 0 /\ old.creator = p /\ old.initState # Ready /\ old.sized
      /\ old.shmSize = size[p]
  BY <1>1, <1>2 DEF Allowed, Fits, Opened, Creating
<1>5. old \in Headers
  BY <1>4, OpenTypes
<1>6. /\ new \in Headers /\ new.sized /\ new.creator = p /\ new.initState = Ready
      /\ new.shmSize = size[p] /\ new.refCount = old.refCount
      /\ new.producerCount = old.producerCount /\ new.consumerCount = old.consumerCount
  BY <1>4, <1>5 DEF Headers
<1>7. Respects(p, new)
  BY <1>2, <1>4, <1>6 DEF Respects, Creating
<1>8. Fits(p, "count", new) /\ "count" \in Labels
  BY <1>4, <1>6 DEF Fits, Creating, Attached, Labels
<1>9. Counters(p, "count", new)
  BY <1>2, <1>4, <1>6, CountersHold DEF Counters, One
<1> QED
  BY <1>2, <1>3, <1>4, <1>6, <1>7, <1>8, <1>9, WritesIInv

(* A write of an attached process that touches the counters only. *)
LEMMA AttachedIInv ==
  ASSUME IInv, History, NEW p \in Processes, pc[p] \in Attached,
         NEW to \in Labels, NEW r \in {0, region[p]}, NEW new \in Headers,
         to \notin Creating, to \in Opened \cup {"unlink"} => r = region[p],
         /\ new.creator = object[region[p]].creator
         /\ new.sized = object[region[p]].sized
         /\ new.initState = object[region[p]].initState
         /\ new.shmSize = object[region[p]].shmSize,
         Writes(p, to, r, new), Counters(p, to, new), UNCHANGED <<name, starts, dead>>
  PROVE  IInv'
<1>1. Allowed(p, pc[p], region[p])
  BY OpenTypes
<1>2. region[p] # 0 /\ Fits(p, to, new)
  BY <1>1 DEF Allowed, Fits, Opened
<1>3. Respects(p, new)
  BY DEF Respects
<1>4. r = region[p] \/ to \notin {"ref", "in", "unref"}
  BY DEF Opened, Attached
<1> QED
  BY <1>2, <1>3, <1>4, WritesIInv

(* The constructor's first fetch_add: the counter of the process's role. *)
LEMMA CountIInv ==
  ASSUME IInv, History, NEW p \in Processes, Count(p)
  PROVE  IInv'
<1> DEFINE old == object[region[p]]
           new == Counted(p, TRUE)
<1>1. Allowed(p, pc[p], region[p]) /\ region = [region EXCEPT ![p] = region[p]]
  BY OpenTypes
<1>2. pc[p] = "count" /\ UNCHANGED <<name, starts, dead>>
  BY DEF Count, Update, At
<1>3. Writes(p, "ref", region[p], new)
  BY <1>1 DEF Count, Update, Goto, Writes, History
<1>4. region[p] # 0
  BY <1>1, <1>2 DEF Allowed, Opened, Attached
<1>5. old \in Headers
  BY <1>4, OpenTypes
<1>6. /\ new \in Headers /\ new.sized = old.sized /\ new.creator = old.creator
      /\ new.initState = old.initState /\ new.shmSize = old.shmSize
      /\ new.refCount = old.refCount
      /\ new.producerCount = old.producerCount + One(p \in Producers)
      /\ new.consumerCount = old.consumerCount + One(p \notin Producers)
  BY <1>5 DEF Headers, Counted, One
<1>7. p \notin Producers <=> p \in Consumers
  BY ProcessesAssumption DEF Processes
<1> HIDE DEF new
<1>8. Counters(p, "ref", new)
  <2>1. /\ old.refCount \in Nat /\ old.producerCount \in Nat /\ old.consumerCount \in Nat
    BY <1>4, CountersHold
  <2>2. CASE p \in Producers
    BY <1>2, <1>6, <1>7, <2>1, <2>2 DEF Counters, One
  <2>3. CASE p \notin Producers
    BY <1>2, <1>6, <1>7, <2>1, <2>3 DEF Counters, One
  <2> QED
    BY <2>2, <2>3
<1>9. pc[p] \in Attached /\ "ref" \in Labels /\ "ref" \notin Creating
  BY <1>2 DEF Attached, Labels, Creating
<1> QED
  BY <1>2, <1>3, <1>6, <1>8, <1>9, AttachedIInv

(* refCount.fetch_add(1): the process is counted from now on. *)
LEMMA ReferenceIInv ==
  ASSUME IInv, History, NEW p \in Processes, Reference(p)
  PROVE  IInv'
<1> DEFINE old == object[region[p]]
           new == [old EXCEPT !.refCount = @ + 1]
<1>1. Allowed(p, pc[p], region[p]) /\ region = [region EXCEPT ![p] = region[p]]
  BY OpenTypes
<1>2. pc[p] = "ref" /\ UNCHANGED <<name, starts, dead>>
  BY DEF Reference, Update, At
<1>3. Writes(p, "in", region[p], new)
  BY <1>1 DEF Reference, Update, Goto, Writes, History
<1>4. region[p] # 0
  BY <1>1, <1>2 DEF Allowed, Opened, Attached
<1>5. old \in Headers
  BY <1>4, OpenTypes
<1>6. /\ new \in Headers /\ new.sized = old.sized /\ new.creator = old.creator
      /\ new.initState = old.initState /\ new.shmSize = old.shmSize
      /\ new.refCount = old.refCount + 1
      /\ new.producerCount = old.producerCount /\ new.consumerCount = old.consumerCount
  BY <1>5 DEF Headers
<1>7. Counters(p, "in", new)
  BY <1>2, <1>4, <1>6, CountersHold DEF Counters, One
<1>8. pc[p] \in Attached /\ "in" \in Labels /\ "in" \notin Creating
  BY <1>2 DEF Attached, Labels, Creating
<1> QED
  BY <1>2, <1>3, <1>6, <1>7, <1>8, AttachedIInv

(* The destructor's first fetch_sub finds its own process counted: no underflow. *)
LEMMA LeaveIInv ==
  ASSUME IInv, History, NEW p \in Processes, Leave(p)
  PROVE  IInv'
<1> DEFINE old == object[region[p]]
           new == Counted(p, FALSE)
<1>1. Allowed(p, pc[p], region[p]) /\ region = [region EXCEPT ![p] = region[p]]
  BY OpenTypes
<1>2. pc[p] = "in" /\ UNCHANGED <<name, starts, dead>>
  BY DEF Leave, Update, At
<1>3. Writes(p, "unref", region[p], new)
  BY <1>1 DEF Leave, Update, Goto, Writes, History
<1>4. region[p] # 0
  BY <1>1, <1>2 DEF Allowed, Opened, Attached
<1>5. /\ old \in Headers
      /\ p \in Producers => old.producerCount - 1 \in Nat
      /\ p \notin Producers => old.consumerCount - 1 \in Nat
  BY <1>2, <1>4, CountersHold DEF Processes
<1>6. /\ new \in Headers /\ new.sized = old.sized /\ new.creator = old.creator
      /\ new.initState = old.initState /\ new.shmSize = old.shmSize
      /\ new.refCount = old.refCount
      /\ new.producerCount = old.producerCount - One(p \in Producers)
      /\ new.consumerCount = old.consumerCount - One(p \notin Producers)
  BY <1>5 DEF Headers, Counted, One
<1>7. p \notin Producers <=> p \in Consumers
  BY ProcessesAssumption DEF Processes
<1> HIDE DEF new
<1>8. Counters(p, "unref", new)
  <2>1. /\ old.refCount \in Nat /\ old.producerCount \in Nat /\ old.consumerCount \in Nat
    BY <1>4, CountersHold
  <2>2. CASE p \in Producers
    BY <1>2, <1>6, <1>7, <2>1, <2>2 DEF Counters, One
  <2>3. CASE p \notin Producers
    BY <1>2, <1>6, <1>7, <2>1, <2>3 DEF Counters, One
  <2> QED
    BY <2>2, <2>3
<1>9. pc[p] \in Attached /\ "unref" \in Labels /\ "unref" \notin Creating
  BY <1>2 DEF Attached, Labels, Creating
<1> QED
  BY <1>2, <1>3, <1>6, <1>8, <1>9, AttachedIInv

(* refCount.fetch_sub: the region is released, or kept until the unlink. *)
LEMMA UnreferenceIInv ==
  ASSUME IInv, History, NEW p \in Processes, Unreference(p)
  PROVE  IInv'
<1> DEFINE old == object[region[p]]
           new == [old EXCEPT !.refCount = @ - 1]
           last == p \in Consumers /\ old.refCount = 1
           to == IF last THEN "unlink" ELSE "out"
           r == IF last THEN region[p] ELSE 0
<1>1. Allowed(p, pc[p], region[p]) /\ region = [region EXCEPT ![p] = region[p]]
  BY OpenTypes
<1>2. pc[p] = "unref" /\ UNCHANGED <<name, starts, dead>>
  BY DEF Unreference, UnreferenceThen, At
<1>3. region[p] # 0
  BY <1>1, <1>2 DEF Allowed, Opened, Attached
<1>4. old \in Headers /\ old.refCount \in Nat /\ old.refCount - 1 \in Nat
  BY <1>2, <1>3, CountersHold
<1>5. object' = [object EXCEPT ![region[p]] = new]
  BY DEF Unreference, UnreferenceThen
<1>6. Writes(p, to, r, new)
  BY <1>1, <1>5 DEF Unreference, UnreferenceThen, Goto, Writes, History
<1>7. /\ new \in Headers /\ new.sized = old.sized /\ new.creator = old.creator
      /\ new.initState = old.initState /\ new.shmSize = old.shmSize
      /\ new.refCount = old.refCount - 1
      /\ new.producerCount = old.producerCount /\ new.consumerCount = old.consumerCount
  BY <1>4 DEF Headers
<1> HIDE DEF new
<1>8. Counters(p, to, new)
  <2>1. old.producerCount \in Nat /\ old.consumerCount \in Nat
    BY <1>3, CountersHold
  <2> QED
    BY <1>2, <1>4, <1>7, <2>1 DEF Counters, One
<1>9. /\ pc[p] \in Attached /\ to \in Labels /\ to \notin Creating
      /\ to \in Opened \cup {"unlink"} => r = region[p]
      /\ r \in {0, region[p]}
  BY <1>2 DEF Attached, Labels, Creating, Opened
<1> HIDE DEF r, to
<1> QED
  BY <1>2, <1>6, <1>7, <1>8, <1>9, AttachedIInv

(* A producer creates the object, which nobody else can have open yet, or finds
   that the name is taken. *)
LEMMA CreateIInv ==
  ASSUME IInv, History, NEW p \in Producers, At(p, "out"), Create(p),
         starts' \in 0 .. MaxStarts
  PROVE  IInv'
<1> DEFINE n == created + 1
<1>1. /\ pc \in [Processes -> Labels]
      /\ region \in [Processes -> 0 .. created]
      /\ object \in [1 .. created -> Headers]
      /\ created \in Nat /\ MaxObjects \in Nat /\ dead \subseteq Processes
      /\ TypeOK /\ p \in Processes
  BY TypeOKParts, BoundsAssumption DEF IInv, Processes
<1>2. /\ created < MaxObjects /\ created' = n /\ name' = n
      /\ object' = [o \in 1 .. n |-> IF o = n THEN NewObject(p) ELSE object[o]]
      /\ region' = [region EXCEPT ![p] = n]
      /\ pc' = [pc EXCEPT ![p] = "truncate"]
      /\ UNCHANGED <<dead, size>>
  BY DEF Create, Goto, History
<1>3. /\ NewObject(p) \in Headers /\ NewObject(p).creator = p
      /\ NewObject(p).initState # Ready /\ NewObject(p).refCount = 0
      /\ NewObject(p).producerCount = 0 /\ NewObject(p).consumerCount = 0
  BY DEF NewObject, Headers, Uninitialized, Ready
<1>4. /\ \A o \in 1 .. created : object'[o] = object[o]
      /\ object'[n] = NewObject(p)
      /\ object' \in [1 .. n -> Headers]
  BY <1>1, <1>2, <1>3
<1>5. /\ pc'[p] = "truncate" /\ region'[p] = n
      /\ \A q \in Processes \ {p} : region'[q] = region[q] /\ pc'[q] = pc[q]
      /\ pc' \in [Processes -> Labels] /\ region' \in [Processes -> 0 .. n]
  BY <1>1, <1>2 DEF Labels
<1>6. \A q \in Processes : Allowed(q, pc[q], region[q])
  BY AllowedParts DEF IInv
<1>7. ASSUME NEW q \in Processes PROVE Allowed(q, pc[q], region[q])'
  <2>1. CASE q = p
    BY <1>1, <1>3, <1>4, <1>5, <2>1 DEF Allowed, Fits, Creating, Attached
  <2>2. CASE q # p
    <3>1. pc[q] \in Opened \cup {"unlink"} => region[q] \in 1 .. created
      BY <1>1, <1>6 DEF Allowed
    <3>2. Creating \subseteq Opened /\ Attached \subseteq Opened
      BY DEF Opened
    <3> QED
      BY <1>2, <1>4, <1>5, <1>6, <2>2, <3>1, <3>2 DEF Allowed, Fits
  <2> QED
    BY <2>1, <2>2
<1>8. RegionHeld' /\ CreatorAlone' /\ ReadyBeforeUse'
  BY <1>7 DEF RegionHeld, CreatorAlone, ReadyBeforeUse, Allowed, Fits
<1>9. CountsMatch'
  <2> SUFFICES ASSUME NEW o \in 1 .. n PROVE Exact(o)'
    BY <1>2 DEF CountsMatch, Exact, Having, Refs, Prods, Cons
  <2>1. CASE o = n
    <3>1. \A q \in Processes \ {p} : region'[q] # o
      BY <1>1, <1>5, <2>1
    <3>2. \A q \in Processes : ~(region'[q] = o /\ pc'[q] \in {"ref", "in", "unref"})
      BY <1>5, <3>1
    <3>3. Refs(o)' = {} /\ Prods(o)' = {} /\ Cons(o)' = {}
      BY <3>2 DEF Refs, Prods, Cons, Processes
    <3> QED
      BY <1>3, <1>4, <2>1, <3>3, FS_EmptySet DEF Exact
  <2>2. CASE o # n
    <3>1. o \in 1 .. created
      BY <1>1, <2>2
    <3>2. Refs(o)' = Refs(o) /\ Prods(o)' = Prods(o) /\ Cons(o)' = Cons(o)
      BY <1>1, <1>5, <2>2 DEF Refs, Prods, Cons, Processes, At
    <3> QED
      BY <1>4, <3>1, <3>2, CountsMatchExact DEF Exact, IInv
  <2> QED
    BY <2>1, <2>2
<1>10. TypeOK'
  <2>1. n \in 0 .. MaxObjects /\ n \in 0 .. n
    BY <1>1, <1>2
  <2> QED
    BY <1>1, <1>2, <1>4, <1>5, <2>1, TypeStep
<1> QED
  BY <1>8, <1>9, <1>10 DEF IInv

(* shm_open with O_EXCL creates the object or says EEXIST. *)
LEMMA OpenOrCreateIInv ==
  ASSUME IInv, History, NEW p \in Producers, OpenOrCreate(p)
  PROVE  IInv'
<1>1. /\ p \in Processes /\ At(p, "out") /\ starts < MaxStarts /\ starts' = starts + 1
  BY DEF OpenOrCreate, Processes
<1>2. starts' \in 0 .. MaxStarts
  BY <1>1, OpenTypes
<1>3. CASE Create(p)
  BY <1>1, <1>2, <1>3, CreateIInv
<1>4. CASE /\ Goto(p, "reopen")
           /\ UNCHANGED <<name, created, object, region, dead>>
  <2>1. Moves(p, "reopen", region[p]) /\ pc[p] = "out" /\ UNCHANGED <<name, dead>>
    BY <1>1, <1>4, OpenTypes DEF Moves, Goto, At, History
  <2>2. Allowed(p, "reopen", region[p]) /\ "reopen" \in Labels
    BY DEF Allowed, Fits, Opened, Creating, Attached, Labels
  <2> QED
    BY <1>1, <1>2, <2>1, <2>2, OpenTypes, MovesIInv
<1> QED
  BY <1>3, <1>4 DEF OpenOrCreate

(* What the invariant says of objects does not look at anything else. *)
LEMMA ObjectsUnchanged ==
  ASSUME RegionHeld, CreatorAlone, ReadyBeforeUse, CountsMatch,
         UNCHANGED <<size, created, object, pc, region>>
  PROVE  RegionHeld' /\ CreatorAlone' /\ ReadyBeforeUse' /\ CountsMatch'
<1>1. RegionHeld' /\ CreatorAlone' /\ ReadyBeforeUse'
  BY DEF RegionHeld, CreatorAlone, ReadyBeforeUse
<1>2. ASSUME NEW P, NEW L, NEW o PROVE Having(P, L, o)' = Having(P, L, o)
  BY DEF Having
<1>3. CountsMatch'
  BY <1>2 DEF CountsMatch
<1> QED
  BY <1>1, <1>3

(* A killed process keeps what it counts for. *)
LEMMA CrashIInv ==
  ASSUME IInv, History, NEW p \in Processes, Crash(p)
  PROVE  IInv'
<1>1. UNCHANGED <<name, created, object, pc, region, starts, size>>
  BY DEF Crash, History
<1>2. dead' \subseteq Processes
  BY DEF Crash, IInv, TypeOK
<1>3. TypeOK'
  BY <1>1, <1>2, TypeOKParts, TypeStep DEF IInv
<1> QED
  BY <1>1, <1>3, ObjectsUnchanged DEF IInv

(* Every step of the system preserves the invariant. *)
LEMMA NextIInv == IInv /\ [Next]_vars => IInv'
<1> SUFFICES ASSUME IInv, [Next]_vars PROVE IInv'
  OBVIOUS
<1>1. CASE UNCHANGED vars
  <2>1. TypeOK'
    BY <1>1, TypeOKParts DEF vars, IInv, TypeOK, Headers, Labels
  <2> QED
    BY <1>1, <2>1, ObjectsUnchanged DEF IInv, vars
<1>2. ASSUME NEW p \in Processes, Start(p) \/ Step(p) \/ Leave(p) \/ Crash(p), History
      PROVE  IInv'
  <2>1. CASE Start(p)
    BY <1>2, <2>1, OpenOrCreateIInv, OpenExistingIInv DEF Start
  <2>2. CASE Step(p)
    BY <1>2, <2>2, ReopenIInv, TruncateIInv, MapIInv, InitLayoutIInv, InitReadyIInv,
       WaitUntilReadyIInv, CountIInv, ReferenceIInv, UnreferenceIInv, UnlinkIInv DEF Step
  <2>3. CASE Leave(p)
    BY <1>2, <2>3, LeaveIInv
  <2>4. CASE Crash(p)
    BY <1>2, <2>4, CrashIInv
  <2> QED
    BY <1>2, <2>1, <2>2, <2>3, <2>4
<1> QED
  BY <1>1, <1>2 DEF Next

-----------------------------------------------------------------------------
(* Who works on the object with the name *)

(* The part of p in a step that takes no name away and does not start to unlink:
   p goes on with the object it has, or opens the one with the name. *)
KeepsOrOpens(p) ==
  /\ \A q \in Processes \ {p} : region'[q] = region[q] /\ pc'[q] = pc[q]
  /\ pc'[p] \in Opened =>
       \/ pc[p] \in Opened /\ region'[p] = region[p]
       \/ pc'[p] = "map" /\ region'[p] = name
  /\ pc'[p] # "unlink"
  /\ UNCHANGED <<name, dead>>

(* Such a step keeps everybody on the object with the name. *)
LEMMA KeepsOrOpensByName ==
  ASSUME Inv, History, NEW p \in Processes, KeepsOrOpens(p)
  PROVE  OpenedByName'
<1>1. Overlap' => overlap'
  BY DEF History
<1> SUFFICES ASSUME ~overlap'
             PROVE  /\ \A q \in Processes \ dead' : pc'[q] \in Opened => region'[q] = name'
                    /\ \A u, q \in Processes \ dead' :
                         pc'[u] = "unlink" => pc'[q] \notin Opened
  BY <1>1 DEF OpenedByName
<1>2. ~overlap /\ ~Overlap'
  BY DEF History, Inv, IInv, TypeOK
<1>3. /\ \A q \in Processes \ dead : pc[q] \in Opened => region[q] = name
      /\ \A u, q \in Processes \ dead : pc[u] = "unlink" => pc[q] \notin Opened
  BY <1>2 DEF Inv, OpenedByName
<1>4. \A q \in Processes \ dead' : pc'[q] \in Opened => region'[q] = name'
  BY <1>3 DEF KeepsOrOpens
<1>5. ASSUME NEW u \in Processes \ dead', NEW q \in Processes \ dead',
             pc'[u] = "unlink", pc'[q] \in Opened
      PROVE  FALSE
  <2>1. pc[u] = "unlink" /\ dead' = dead
    BY <1>5 DEF KeepsOrOpens
  <2>2. CASE pc[q] \in Opened
    BY <1>3, <2>1, <2>2
  <2>3. CASE pc'[q] = "map"
    BY <1>2, <1>5, <2>1, <2>3 DEF Overlap
  <2> QED
    BY <1>5, <2>2, <2>3 DEF KeepsOrOpens
<1> QED
  BY <1>4, <1>5

(* A new object gets the name only when nobody alive has one open. *)
LEMMA CreateByName ==
  ASSUME Inv, History, NEW p \in Processes, At(p, "out"), Create(p)
  PROVE  OpenedByName'
<1>1. Overlap' => overlap'
  BY DEF History
<1> SUFFICES ASSUME ~overlap'
             PROVE  /\ \A q \in Processes \ dead' : pc'[q] \in Opened => region'[q] = name'
                    /\ \A u, q \in Processes \ dead' :
                         pc'[u] = "unlink" => pc'[q] \notin Opened
  BY <1>1 DEF OpenedByName
<1>2. ~overlap /\ ~Overlap'
  BY DEF History, Inv, IInv, TypeOK
<1>3. \A q \in Processes \ dead : pc[q] \in Opened => region[q] = name
  BY <1>2 DEF Inv, OpenedByName
<1>4. \A q \in Processes \ dead : pc[q] \notin Opened
  BY <1>3 DEF Create, Inv, IInv, RegionHeld
<1>5. pc \in [Processes -> Labels] /\ region \in [Processes -> 0 .. created]
  BY TypeOKParts DEF Inv, IInv
<1>6. /\ pc' = [pc EXCEPT ![p] = "truncate"]
      /\ region' = [region EXCEPT ![p] = name']
      /\ dead' = dead
  BY DEF Create, Goto
<1>7. /\ pc'[p] = "truncate" /\ region'[p] = name'
      /\ \A q \in Processes \ {p} : pc'[q] = pc[q]
  BY <1>5, <1>6
<1>8. \A q \in Processes \ dead' : pc'[q] \in Opened => q = p
  BY <1>4, <1>6, <1>7
<1> QED
  BY <1>2, <1>7, <1>8 DEF Overlap

(* Whoever takes refCount to zero is alone on the object with the name, unless
   somebody is there who is not counted yet: that is an overlap. *)
LEMMA UnreferenceByName ==
  ASSUME Inv, History, NEW p \in Processes, Unreference(p)
  PROVE  OpenedByName'
<1>1. /\ pc \in [Processes -> Labels] /\ region \in [Processes -> 0 .. created]
  BY TypeOKParts DEF Inv, IInv
<1>2. /\ pc[p] = "unref" /\ p \notin dead /\ UNCHANGED <<name, dead>>
      /\ \A q \in Processes \ {p} : region'[q] = region[q] /\ pc'[q] = pc[q]
      /\ pc'[p] = IF p \in Consumers /\ object[region[p]].refCount = 1
                  THEN "unlink" ELSE "out"
  BY <1>1 DEF Unreference, UnreferenceThen, At, Goto
<1>3. CASE pc'[p] = "out"
  BY <1>2, <1>3, KeepsOrOpensByName DEF KeepsOrOpens, Opened, Creating, Attached
<1>4. CASE pc'[p] = "unlink" /\ object[region[p]].refCount = 1
  <2>1. Overlap' => overlap'
    BY DEF History
  <2> SUFFICES ASSUME ~overlap'
               PROVE  /\ \A q \in Processes \ dead' : pc'[q] \in Opened => region'[q] = name'
                      /\ \A u, q \in Processes \ dead' :
                           pc'[u] = "unlink" => pc'[q] \notin Opened
    BY <2>1 DEF OpenedByName
  <2>2. ~overlap /\ ~Overlap'
    BY DEF History, Inv, IInv, TypeOK
  <2>3. \A q \in Processes \ dead : pc[q] \in Opened => region[q] = name
    BY <2>2 DEF Inv, OpenedByName
  <2>4. region[p] = name /\ name # 0
    BY <1>2, <2>3 DEF Opened, Attached, Inv, IInv, RegionHeld
  <2>5. Refs(name) = {p}
    <3>1. name \in 1 .. created
      BY <1>1, <2>4
    <3>2. Cardinality(Refs(name)) = 1 /\ p \in Refs(name)
      BY <1>2, <1>4, <2>4, <3>1, CountsMatchExact DEF Inv, IInv, Exact, Refs
    <3>3. PICK q : Refs(name) = {q}
      BY <3>2, SetsFinite, FS_Singleton
    <3> QED
      BY <3>2, <3>3
  <2>6. ASSUME NEW q \in Processes \ dead, pc'[q] \in Opened
        PROVE  FALSE
    <3>1. q # p
      BY <1>4, <2>6 DEF Opened, Creating, Attached
    <3>2. pc[q] = pc'[q] /\ pc[q] \in Opened
      BY <1>2, <2>6, <3>1
    <3>3. pc[q] \notin {"in", "unref"}
      BY <2>3, <2>5, <3>1, <3>2 DEF Refs
    <3>4. pc'[q] \in {"truncate", "mapNew", "map", "init", "publish", "wait", "count", "ref"}
      BY <3>2, <3>3 DEF Opened, Creating, Attached
    <3> QED
      BY <1>2, <1>4, <2>2, <3>4 DEF Overlap
  <2> QED
    BY <1>2, <2>6
<1> QED
  BY <1>2, <1>3, <1>4

(* The name goes when nobody alive has the object open. *)
LEMMA UnlinkByName ==
  ASSUME Inv, History, NEW p \in Processes, Unlink(p)
  PROVE  OpenedByName'
<1>1. Overlap' => overlap'
  BY DEF History
<1>2. pc \in [Processes -> Labels]
  BY TypeOKParts DEF Inv, IInv
<1>3. /\ pc[p] = "unlink" /\ p \notin dead /\ pc'[p] = "out" /\ dead' = dead
      /\ \A q \in Processes \ {p} : pc'[q] = pc[q]
  BY <1>2 DEF Unlink, At, Goto
<1>4. ASSUME ~overlap', NEW q \in Processes \ dead' PROVE pc'[q] \notin Opened
  <2>1. ~overlap
    BY <1>4 DEF History, Inv, IInv, TypeOK
  <2>2. pc[q] \notin Opened
    BY <1>3, <1>4, <2>1 DEF Inv, OpenedByName
  <2> QED
    BY <1>3, <2>2 DEF Opened, Creating, Attached
<1> QED
  BY <1>1, <1>4 DEF OpenedByName

(* Every step keeps everybody who is alive on the object with the name. *)
LEMMA NextByName ==
  ASSUME Inv, NEW p \in Processes, History,
         Start(p) \/ Step(p) \/ Leave(p) \/ Crash(p)
  PROVE  OpenedByName'
<1>1. pc \in [Processes -> Labels] /\ region \in [Processes -> 0 .. created]
  BY TypeOKParts DEF Inv, IInv
<1> USE DEF Opened, Creating, Attached
<1>2. CASE Reopen(p) \/ OpenExisting(p)
  <2>1. KeepsOrOpens(p)
    BY <1>1, <1>2 DEF KeepsOrOpens, Reopen, OpenExisting, OpenName, At, Goto
  <2> QED
    BY <2>1, KeepsOrOpensByName
<1>3. CASE OpenOrCreate(p)
  <2>1. CASE Create(p)
    BY <1>3, <2>1, CreateByName DEF OpenOrCreate
  <2>2. CASE Goto(p, "reopen") /\ UNCHANGED <<name, created, object, region, dead>>
    <3>1. KeepsOrOpens(p)
      BY <1>1, <2>2 DEF KeepsOrOpens, Goto
    <3> QED
      BY <3>1, KeepsOrOpensByName
  <2> QED
    BY <1>3, <2>1, <2>2 DEF OpenOrCreate
<1>4. CASE Truncate(p) \/ InitLayout(p) \/ InitReady(p) \/ Count(p) \/ Reference(p) \/ Leave(p)
  <2>1. KeepsOrOpens(p)
    BY <1>1, <1>4 DEF KeepsOrOpens, Truncate, InitLayout, InitReady, Count, Reference, Leave,
       Update, At, Goto
  <2> QED
    BY <2>1, KeepsOrOpensByName
<1>5. CASE Map(p) \/ WaitUntilReady(p)
  <2>1. KeepsOrOpens(p)
    BY <1>1, <1>5 DEF KeepsOrOpens, Map, WaitUntilReady, Fail, Local, At, Goto
  <2> QED
    BY <2>1, KeepsOrOpensByName
<1>6. CASE Crash(p)
  <2>1. UNCHANGED <<name, pc, region>> /\ dead \subseteq dead'
    BY <1>6 DEF Crash
  <2>2. (overlap => overlap') /\ (Overlap' => overlap')
    BY DEF History
  <2> QED
    BY <2>1, <2>2 DEF OpenedByName, Inv
<1> QED
  BY <1>2, <1>3, <1>4, <1>5, <1>6, UnreferenceByName, UnlinkByName DEF Start, Step

(* At first nobody has opened or is unlinking anything. *)
LEMMA InitInv == Init => Inv
<1> SUFFICES ASSUME Init PROVE OpenedByName
  BY InitIInv DEF Inv
<1>1. \A p \in Processes : pc[p] = "out"
  BY DEF Init
<1> QED
  BY <1>1 DEF OpenedByName, Overlap, Opened, Creating, Attached

(* Every step of the system preserves the whole invariant. *)
LEMMA NextInv == Inv /\ [Next]_vars => Inv'
<1> SUFFICES ASSUME Inv, [Next]_vars PROVE Inv'
  OBVIOUS
<1>1. IInv'
  BY NextIInv DEF Inv
<1>2. CASE UNCHANGED vars
  <2>1. OpenedByName'
    BY <1>2 DEF vars, Inv, OpenedByName, Overlap
  <2> QED
    BY <1>1, <2>1 DEF Inv
<1>3. CASE Next
  BY <1>1, <1>3, NextByName DEF Next, Inv
<1> QED
  BY <1>2, <1>3

-----------------------------------------------------------------------------
(* The inductive invariant holds in every state, whoever is killed and whenever. *)
THEOREM Invariance == Spec => []Inv
<1>1. Inv /\ [Next]_vars => Inv'
  BY NextInv
<1> QED
  BY <1>1, InitInv, PTL DEF Spec

(* No counter of a header underflows (mpsc_queue.cpp 99-107, 297-305), and only
   objects that exist are named or open. *)
THEOREM TypeCorrect == Spec => []TypeOK
<1>1. Inv => TypeOK
  BY DEF Inv, IInv
<1> QED
  BY <1>1, Invariance, PTL

(* Nobody gets through its constructor before the creator has stored Ready, and
   nobody initialises an object under its users (mpsc_queue.cpp 39-45, 110-138). *)
THEOREM ReadyFirst == Spec => []ReadyBeforeUse
<1>1. Inv => ReadyBeforeUse
  BY DEF Inv, IInv
<1> QED
  BY <1>1, Invariance, PTL

(* refCount, producerCount and consumerCount are exact between any two accesses of
   any processes (mpsc_queue.cpp 99-107, 297-305). *)
THEOREM CountsExact == Spec => []CountsMatch
<1>1. Inv => CountsMatch
  BY DEF Inv, IInv
<1> QED
  BY <1>1, Invariance, PTL

(* Everybody attached works on the object with the name, unless an attach overlapped
   the last consumer's unlink (mpsc_queue.cpp 301-311, 86-90). *)
THEOREM OneQueue == Spec => []SameQueue
<1>1. Inv => SameQueue
  BY DEF Inv, OpenedByName, SameQueue, Opened
<1> QED
  BY <1>1, Invariance, PTL

=============================================================================
