------------------------------- MODULE Nursery -------------------------------
(***************************************************************************)
(* The collection of BibbleVM's nursery (gc/memory_manager.cpp): Cheney's  *)
(* copying collector between two spaces, promotion to the old generation,  *)
(* the write barrier, growth of the nursery, and pauses between which the  *)
(* program goes on.                                                        *)
(*                                                                         *)
(* An object has one reference field, spaces are counted in objects, and   *)
(* an object carries a number of its own, so that the properties can tell  *)
(* it from another one at the same address.  What the program means is     *)
(* kept beside the heap, in means, holds and field.  The completion        *)
(* futures of the tasks are taken as references too, forwarded before the  *)
(* strong ones, but not moved when the nursery grows.  The old generation  *)
(* is not collected, nothing has a finalizer, and a nursery is not given   *)
(* the addresses of an earlier one.                                        *)
(***************************************************************************)
EXTENDS Integers, Sequences, Functions

CONSTANTS
    Ref,           \* bound: the references there can be
    Completion,    \* ... those of them that are completion futures of tasks
    Register,      \* bound: the registers of the frames
    Capacity,      \* objects in a space of the first nursery
    Resizes,       \* bound: how often the nursery may grow
    MaxObjects,    \* bound: the objects ever allocated
    PromotionAge,  \* gc.promotionAge
    CollectionThreshold, \* gc.nurseryCollectionThreshold, in percent
    GrowthThreshold      \* memory.nurseryGrowthThreshold, in percent

ASSUME SizeAssumption ==
    /\ Completion \subseteq Ref
    /\ Capacity \in Nat \ {0} /\ Resizes \in Nat
    /\ MaxObjects \in Nat /\ PromotionAge \in Nat
    /\ {CollectionThreshold, GrowthThreshold} \subseteq 1 .. 100

VARIABLES
    pc,          \* "run", "collect", "stale" or "fault"
    phase,       \* mNurseryCollectState.phase
    unscanned,   \* the references the roots phase has not come to
    scan,        \* mNurseryCollectState.scan
    worked,      \* whether this safepoint has collected something
    paused,      \* whether the collection under way has paused
    heap,        \* the objects in each space
    from,        \* the space objects are allocated in and copied from
    remembered,  \* mRememberedSet
    refs,        \* mStrongReferences, and the completion futures
    regs,        \* the registers that hold objects
    fresh,       \* those no collection has outdated
    made,        \* the number of objects made so far
    means,       \* what the program put in each reference
    holds,       \* ... in each register
    field        \* ... in the field of each object

progress  == <<phase, scan, worked, paused>>
collector == <<progress, unscanned>>
memory    == <<heap, from, remembered>>
roots     == <<refs, regs, fresh>>
meaning   == <<made, means, holds, field>>
vars      == <<pc, collector, memory, roots, meaning>>

(* The n-th nursery has the spaces 2n and 2n + 1, n objects larger.        *)
Old == -1
Space == Old .. (2 * Resizes + 1)
to == IF from % 2 = 0 THEN from + 1 ELSE from - 1
Size(s) == Capacity + (s \div 2)

(* A pointer is a space and a position in it.                              *)
Null   == <<Old, 0>>
Unused == <<Old, -1>>

At(p) == heap[p[1]][p[2]]

(* The completion future of a task stays where it was when the nursery     *)
(* grows: in a nursery that was freed.                                     *)
Outgrown(r) ==
    r \in Completion /\ refs[r][1] # Old /\ (refs[r][1] \div 2) < (from \div 2)

Collecting == phase # "Idle"

(* Whether space s is that full, in percent.                               *)
Load(s, percent) == 100 * Len(heap[s]) >= percent * Size(s)

-----------------------------------------------------------------------------
Init ==
    /\ pc = "run" /\ phase = "Idle" /\ scan = 0 /\ worked = FALSE /\ paused = FALSE
    /\ unscanned = {}
    /\ heap = [s \in Space |-> <<>>] /\ from = 0 /\ remembered = {}
    /\ refs = [r \in Ref |-> Unused]
    /\ regs = [x \in Register |-> Null] /\ fresh = Register
    /\ made = 0
    /\ means = [r \in Ref |-> -1]
    /\ holds = [x \in Register |-> 0]
    /\ field = [i \in 1 .. MaxObjects |-> 0]

(* The program uses a pointer the collector has outdated; what happens     *)
(* then is undefined.                                                      *)
UseStale == pc' = "stale" /\ UNCHANGED <<collector, memory, roots, meaning>>

(* allocateRawObject(): while a collection is paused, among the copies.    *)
AllocationSpace == IF Collecting THEN to ELSE from

(* NEWINSTANCE; a full space gives a null.                                 *)
NewInstance(x) ==
    /\ pc = "run" /\ made < MaxObjects
    /\ LET s == AllocationSpace IN
       IF Len(heap[s]) < Size(s)
       THEN /\ made' = made + 1
            /\ heap' = [heap EXCEPT ![s] =
                   Append(@, [id |-> made', forward |-> Null, age |-> 0,
                              heapID |-> "nursery", next |-> Null])]
            /\ regs' = [regs EXCEPT ![x] = <<s, Len(heap'[s])>>]
            /\ holds' = [holds EXCEPT ![x] = made']
       ELSE /\ regs' = [regs EXCEPT ![x] = Null]
            /\ holds' = [holds EXCEPT ![x] = 0]
            /\ UNCHANGED <<made, heap>>
    /\ fresh' = fresh \cup {x}
    /\ UNCHANGED <<pc, collector, from, remembered, refs, means, field>>

(* A reference made in a pause of the roots phase is come to later.        *)
Insert(r) == unscanned' = IF phase = "Roots" THEN unscanned \cup {r} ELSE unscanned

(* newGlobalStrongReference() on the object of a register.                 *)
NewReference(r, x) ==
    /\ pc = "run" /\ refs[r] = Unused
    /\ IF x \notin fresh THEN UseStale
       ELSE /\ refs' = [refs EXCEPT ![r] = regs[x]]
            /\ means' = [means EXCEPT ![r] = holds[x]]
            /\ Insert(r)
            /\ UNCHANGED <<pc, progress, memory, regs, fresh, made, holds, field>>

(* A native function gives the object of a reference back.                 *)
Fetch(x, r) ==
    /\ pc = "run" /\ refs[r] # Unused
    /\ IF Outgrown(r) THEN UseStale
       ELSE /\ regs' = [regs EXCEPT ![x] = refs[r]]
            /\ holds' = [holds EXCEPT ![x] = means[r]]
            /\ fresh' = fresh \cup {x}
            /\ UNCHANGED <<pc, collector, memory, refs, made, means, field>>

(* deleteGlobalStrongReference(); no task is deleted during a collection.  *)
DeleteReference(r) ==
    /\ pc = "run" /\ refs[r] # Unused
    /\ r \in Completion => ~Collecting
    /\ refs' = [refs EXCEPT ![r] = Unused]
    /\ means' = [means EXCEPT ![r] = -1]
    /\ unscanned' = unscanned \ {r}
    /\ UNCHANGED <<pc, progress, memory, regs, fresh, made, holds, field>>

(* The object of reference r was copied, and r is not forwarded yet; or it *)
(* went with the nursery it was in.                                        *)
Outdated(r) == Outgrown(r) \/ At(refs[r]).forward # Null

(* GetFieldValue(): a new reference to what the field holds.  That is out  *)
(* of date in an outdated object, when a promoted object has a young       *)
(* child, and when references are forwarded and the child is not.          *)
GetFieldValue(r, q) ==
    /\ pc = "run" /\ refs[r] \notin {Unused, Null} /\ refs[q] = Unused
    /\ LET child == At(refs[r]).next IN
       IF \/ Outdated(r)
          \/ refs[r][1] = Old /\ child[1] # Old
          \/ phase \in {"RememberedSet", "CheneyScan"} /\ child[1] = from
       THEN UseStale
       ELSE /\ refs' = [refs EXCEPT ![q] = child]
            /\ means' = [means EXCEPT ![q] = field[means[r]]]
            /\ Insert(q)
            /\ UNCHANGED <<pc, progress, memory, regs, fresh, made, holds, field>>

(* writeBarrier() before the field is written; what is written to an       *)
(* outdated object is lost.                                                *)
SetFieldValue(r, q) ==
    /\ pc = "run" /\ refs[r] \notin {Unused, Null} /\ refs[q] # Unused
    /\ IF Outdated(r) \/ Outgrown(q) THEN UseStale
       ELSE /\ remembered' = IF At(refs[r]).heapID = "old" /\ refs[q][1] = from
                             THEN remembered \cup {refs[r]} ELSE remembered
            /\ heap' = [heap EXCEPT ![refs[r][1]][refs[r][2]].next = refs[q]]
            /\ field' = [field EXCEPT ![means[r]] = means[q]]
            /\ UNCHANGED <<pc, collector, from, roots, made, means, holds>>

-----------------------------------------------------------------------------
(* The collector.  An operator named M... is a mutant of a definition below *)
(* it, a bug the code could have had; no specification uses it.            *)

Copy(h, p, s) ==
    LET q == <<s, Len(h[s]) + 1>>
    IN  [heap |-> [h EXCEPT ![s] = Append(@, [h[from][p[2]] EXCEPT !.age = @ + 1]),
                            ![from][p[2]].forward = q],
         at |-> q]

MForwardAgain(h, p) ==
    IF p[1] # from THEN [heap |-> h, at |-> p]
    ELSE Copy(h, p, IF h[from][p[2]].age >= PromotionAge THEN Old ELSE to)

(* forward(): the heap after it, and the pointer.  The copy of a promoted  *)
(* object overwrites its heap ID.                                          *)
Forward(h, p) ==
    IF p[1] # from THEN [heap |-> h, at |-> p]
    ELSE IF h[from][p[2]].forward # Null
    THEN [heap |-> h, at |-> h[from][p[2]].forward]
    ELSE Copy(h, p, IF h[from][p[2]].age >= PromotionAge THEN Old ELSE to)

(* A copy that does not fit into the other space is made at address zero.  *)
Work(h) == /\ pc' = IF Len(h[to]) > Size(to) THEN "fault" ELSE pc
           /\ heap' = h
           /\ worked' = TRUE

(* safepoint(): a full nursery starts a collection, a paused one goes on.  *)
Safepoint ==
    /\ pc = "run"
    /\ Collecting \/ Load(from, CollectionThreshold)
    /\ pc' = "collect" /\ worked' = FALSE
    /\ IF Collecting THEN UNCHANGED <<phase, unscanned>>
       ELSE phase' = "Roots" /\ unscanned' = {r \in Ref : refs[r] # Unused}
    /\ UNCHANGED <<scan, paused, memory, roots, meaning>>

(* The tasks, then the strong references.  The walk over the frames of a   *)
(* task starts only if it had started before, so no register is looked at. *)
ScanRoot ==
    /\ pc = "collect" /\ phase = "Roots"
    /\ \E r \in unscanned :
           /\ r \in Completion \/ unscanned \cap Completion = {}
           /\ LET f == Forward(heap, refs[r])
              IN  refs' = [refs EXCEPT ![r] = f.at] /\ Work(f.heap)
           /\ unscanned' = unscanned \ {r}
    /\ UNCHANGED <<phase, scan, paused, from, remembered, regs, fresh, meaning>>

RootsScanned ==
    /\ pc = "collect" /\ phase = "Roots" /\ unscanned = {}
    /\ phase' = "RememberedSet"
    /\ fresh' = {x \in fresh : regs[x][1] # from}
    /\ UNCHANGED <<pc, scan, worked, paused, unscanned, memory, refs, regs, meaning>>

ForwardChild(p) == LET f == Forward(heap, At(p).next)
                   IN  Work([f.heap EXCEPT ![p[1]][p[2]].next = f.at])

(* An owner is dropped once its child was forwarded.                       *)
ScanRemembered ==
    /\ pc = "collect" /\ phase = "RememberedSet"
    /\ IF remembered = {}
       THEN /\ phase' = "CheneyScan" /\ scan' = 1
            /\ UNCHANGED <<pc, heap, worked, remembered>>
       ELSE /\ \E p \in remembered : ForwardChild(p) /\ remembered' = remembered \ {p}
            /\ UNCHANGED <<phase, scan>>
    /\ UNCHANGED <<paused, unscanned, from, roots, meaning>>

MScanSkips ==
    /\ pc = "collect" /\ phase = "CheneyScan" /\ scan <= Len(heap[to])
    /\ scan' = scan + 1 /\ worked' = TRUE
    /\ UNCHANGED <<pc, phase, paused, unscanned, memory, roots, meaning>>

ScanObject ==
    /\ pc = "collect" /\ phase = "CheneyScan" /\ scan <= Len(heap[to])
    /\ ForwardChild(<<to, scan>>)
    /\ scan' = scan + 1
    /\ UNCHANGED <<phase, paused, unscanned, from, remembered, roots, meaning>>

(* Whether the phase under way may have something to come to; there may be *)
(* other tasks, and the walk over the strong references asks for no pause. *)
Unfinished ==
    \/ phase = "Roots" /\ \A r \in Ref \ Completion : r \in unscanned \/ refs[r] = Unused
    \/ phase = "RememberedSet" /\ remembered # {}
    \/ phase = "CheneyScan" /\ scan <= Len(heap[to])

MPauseAtOnce ==
    /\ pc = "collect" /\ Unfinished
    /\ pc' = "run" /\ paused' = TRUE /\ worked' = FALSE
    /\ UNCHANGED <<phase, scan, unscanned, memory, roots, meaning>>

(* shouldPause(), asked after every 256 tasks, frames and objects.         *)
Pause ==
    /\ pc = "collect" /\ Unfinished /\ worked
    /\ pc' = "run" /\ paused' = TRUE /\ worked' = FALSE
    /\ UNCHANGED <<phase, scan, unscanned, memory, roots, meaning>>

(* resizeNursery(): the objects of space s are moved, and the pointers to  *)
(* them in registers, strong references and objects, but neither those in  *)
(* old objects nobody remembers nor the completion futures of the tasks.   *)
Move(p, s, new) == IF p[1] = s THEN <<new, p[2]>> ELSE p

Grows(s) == Load(s, GrowthThreshold) /\ s \div 2 < Resizes

MEmptied(s) == heap

(* Nursery::resetToSpace(), which the next collection does to space s.     *)
Emptied(s) == [heap EXCEPT ![s] = <<>>]

Swap == /\ from' = to
        /\ heap' = Emptied(from)
        /\ UNCHANGED <<refs, regs>>

Grow ==
    LET new     == 2 * (to \div 2) + 2
        go(p)   == Move(p, to, new)
        kid(o)  == [o EXCEPT !.next = go(@)]
        objects == [i \in DOMAIN heap[to] |-> kid(heap[to][i])]
    IN  /\ Grows(to)
        /\ from' = new
        /\ heap' = [s \in Space |->
               IF s = new THEN objects
               ELSE IF s = Old
               THEN [i \in DOMAIN heap[Old] |-> IF <<Old, i>> \in remembered
                         THEN kid(heap[Old][i]) ELSE heap[Old][i]]
               ELSE <<>>]
        /\ refs' = [r \in Ref |-> IF r \in Completion THEN refs[r] ELSE go(refs[r])]
        /\ regs' = [x \in Register |-> go(regs[x])]

(* The spaces are swapped, and nothing is read any more in the one left    *)
(* behind; a nursery that should grow stays as it is when there is no      *)
(* memory for a larger one.                                                *)
Finish ==
    /\ pc = "collect" /\ phase = "CheneyScan" /\ scan > Len(heap[to])
    /\ Swap \/ Grow
    /\ pc' = "run" /\ phase' = "Idle" /\ scan' = 0 /\ worked' = FALSE /\ paused' = FALSE
    /\ UNCHANGED <<unscanned, remembered, fresh, meaning>>

-----------------------------------------------------------------------------
Program ==
    \/ \E x \in Register : NewInstance(x)
    \/ \E x \in Register, r \in Ref : NewReference(r, x) \/ Fetch(x, r)
    \/ \E r \in Ref : DeleteReference(r)
    \/ \E r, q \in Ref : GetFieldValue(r, q) \/ SetFieldValue(r, q)

Collect == \/ Safepoint
           \/ ScanRoot \/ RootsScanned \/ ScanRemembered \/ ScanObject
           \/ Finish

Stopped == pc \in {"stale", "fault"} /\ UNCHANGED vars

Next == Program \/ Collect \/ Pause \/ Stopped

(* A program comes by safepoints, and a safepoint returns.                 *)
Spec == Init /\ [][Next]_vars /\ WF_vars(Collect)

-----------------------------------------------------------------------------
(* Properties.                                                             *)

Pointer == {<<s, i>> : s \in Space, i \in -1 .. MaxObjects}

(* The collector's variables keep their types; an object is promoted at    *)
(* the right age, so none is older in the nursery.                         *)
TypeOK ==
    /\ pc \in {"run", "collect", "stale", "fault"}
    /\ phase \in {"Idle", "Roots", "RememberedSet", "CheneyScan"}
    /\ scan \in 0 .. (MaxObjects + 1)
    /\ from \in Space \ {Old}
    /\ \A s \in Space, i \in 1 .. MaxObjects : i \in DOMAIN heap[s] =>
           /\ {heap[s][i].forward, heap[s][i].next} \subseteq Pointer
           /\ heap[s][i].id \in 1 .. made
           /\ heap[s][i].age \in 0 .. (IF s = Old THEN PromotionAge + 1 ELSE PromotionAge)
    /\ \A r \in Ref : refs[r] \in Pointer
    /\ \A x \in Register : regs[x] \in Pointer

Spaces == IF Collecting THEN {from, to, Old} ELSE {from, Old}

(* Pointer p leads to the object with number i, or to none.                *)
Denotes(p, i) ==
    IF i = 0 THEN p = Null
    ELSE p[1] \in Spaces /\ p[2] \in DOMAIN heap[p[1]] /\ At(p).id = i

(* However collections, pauses, promotions and growth follow each other,   *)
(* each strong reference leads to the object the program put there, the    *)
(* completion future of a task too, unless the nursery it is in was        *)
(* replaced by a larger one, and each field, but for a promoted object's   *)
(* young child.                                                            *)
GraphIntact ==
    pc = "run" =>
        /\ \A r \in Ref : \/ refs[r] = Unused
                           \/ Outgrown(r)
                           \/ Denotes(refs[r], means[r])
        /\ \A s \in Spaces, i \in 1 .. MaxObjects : i \in DOMAIN heap[s] =>
               LET o == heap[s][i] IN
                   \/ Denotes(o.next, field[o.id])
                   \/ s = from /\ o.forward # Null
                   \/ s = Old /\ o.next[1] # Old

(* forward() copies an object once, so two references to one object still  *)
(* lead to one object.                                                     *)
CopiedOnce ==
    LET live == IF Collecting THEN to ELSE from
        ids  == [i \in DOMAIN heap[live] |-> heap[live][i].id]
                \o [i \in DOMAIN heap[Old] |-> heap[Old][i].id]
    IN  IsInjective(ids)

(* The copies fit into the other space, unless the program allocated there *)
(* during a pause.                                                         *)
SpaceSuffices == pc = "fault" => paused

(* The objects the program can reach: those in each set of objects that    *)
(* has what the references lead to, and what its members' fields lead to.  *)
ClosedSet(s) == /\ \A r \in Ref : means[r] \in 1 .. MaxObjects /\ ~Outgrown(r)
                                     => means[r] \in s
                /\ \A i \in s : field[i] \in s \cup {0}

Reachable == {i \in 1 .. MaxObjects :
                  \A s \in SUBSET (1 .. MaxObjects) : ClosedSet(s) => i \in s}

(* A collection without a pause leaves no garbage in the nursery.          *)
GarbageFreed ==
    [][Collecting /\ phase' = "Idle" /\ ~paused
          => \A i \in 1 .. Len(heap'[from']) : heap'[from'][i].id \in Reachable]_vars

(* However often it is paused, a collection comes to an end.               *)
CollectionEnds == Collecting ~> (~Collecting \/ pc \in {"stale", "fault"})

(* nurseryCollect(): "scan the stack root set", so that the object in a    *)
(* register survives, and the register leads to it.                        *)
RegistersIntact ==
    pc = "run" => \A x \in Register : Denotes(regs[x], holds[x])
=============================================================================
