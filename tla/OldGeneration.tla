---------------------------- MODULE OldGeneration ----------------------------
(***************************************************************************)
(* The old generation (gc/old_gen_heap.cpp): a chain of regions that the   *)
(* nursery's collections promote objects into, and its own collection,     *)
(* which the safepoints of the scheduler advance a little at a time:       *)
(* roots, mark, sweep, shrink.                                             *)
(*                                                                         *)
(* Addresses and sizes are counted in granules of 16 bytes.  What an       *)
(* object refers to is left open: any of a frame's registers, and any      *)
(* field, may hold any object of the heap.                                 *)
(***************************************************************************)
EXTENDS Integers, Sequences

CONSTANTS
    Sizes,           \* bound: the sizes of promoted objects
    RegionSize,      \* memory.oldGenHeapRegionSize
    InitialRegions,  \* memory.oldGenHeapMinSize, in regions
    MaxSize,         \* memory.oldGenHeapMaxSize
    GrowthFactor,    \* memory.oldGenHeapGrowthFactor
    Threshold,       \* gc.oldGenHeapCollectionThreshold, in tenths
    SystemRegions,   \* bound: the regions the system has memory for
    SizeRange,       \* number of values of a size_t
    Tasks,           \* bound: the tasks are 1 .. Tasks
    MaxDepth         \* bound: the frames of a stack

ASSUME HeapAssumption ==
    /\ RegionSize \in Nat \ {0} /\ InitialRegions \in Nat \ {0}
    /\ SystemRegions \in Nat /\ SystemRegions >= InitialRegions
    /\ Sizes \subseteq 1 .. RegionSize
    /\ SizeRange \in Nat /\ SizeRange > SystemRegions * RegionSize
    /\ {MaxSize, GrowthFactor, Threshold, Tasks, MaxDepth} \subseteq Nat

VARIABLES
    regions,      \* the chain from mHead on
    allocRegion,  \* the id of mAllocRegion
    used,         \* mTotalUsed
    phase,        \* mPhase
    epoch,        \* mMarkEpoch
    queue,        \* mMarkQueue
    at,           \* mState: where the phase under way is
    crashed       \* a null pointer was written through

vars == <<regions, allocRegion, used, phase, epoch, queue, at, crashed>>

(* An operator named M... is a mutant of a definition below it, a bug the  *)
(* code could have had; no specification uses it.                          *)

-----------------------------------------------------------------------------
(* Memory: the header of an object, or what is inside of one.              *)
Header(size, mark, heapId) == [size |-> size, mark |-> mark, heapId |-> heapId]
Inside == Header(0, 0, "none")

(* Region::Create().  Every region is taken to lie at a multiple of its    *)
(* size, as getObjectRegion() needs it to.                                 *)
NewRegion(id) == [id |-> id, live |-> 0, allocPointer |-> 0,
                  memory |-> [a \in 0 .. (RegionSize - 1) |-> Inside]]

Ids         == {regions[k].id : k \in DOMAIN regions}
IndexOf(id) == CHOOSE k \in DOMAIN regions : regions[k].id = id
Next0(id)   == IF IndexOf(id) = Len(regions) THEN 0 ELSE regions[IndexOf(id) + 1].id
Fits(r, size) == r.allocPointer + size <= RegionSize

(* grow(regionSize, count): each new region becomes the head.              *)
Grown(chain, count) ==
    [k \in 1 .. count |-> NewRegion(Len(chain) + count + 1 - k)] \o chain

(* grow(): the size is to become that of the objects times the factor; if  *)
(* the regions are larger already the difference wraps.                    *)
RegionsNeeded ==
    LET target == IF used * GrowthFactor < MaxSize THEN used * GrowthFactor ELSE MaxSize
        needed == (target - Len(regions) * RegionSize) % SizeRange
    IN  ((needed + RegionSize - 1) % SizeRange) \div RegionSize

(* createObject(), in the k-th region of a chain.                          *)
Place(chain, k, size, header) ==
    LET r   == chain[k]
        end == r.allocPointer
    IN  [chain EXCEPT ![k] =
            [id |-> r.id, live |-> (r.live + size) % SizeRange, allocPointer |-> end + size,
             memory |-> [a \in DOMAIN r.memory |->
                            IF a = end THEN header
                            ELSE IF a \in end .. (end + size - 1) THEN Inside ELSE r.memory[a]]]]

(* The regions allocate() tries: the current one and those behind it.      *)
Candidates(size) == {k \in IndexOf(allocRegion) .. Len(regions) : Fits(regions[k], size)}

(* allocate() made the header [size, epoch, "OLD_GEN"]; forward() copies   *)
(* the nursery's over it, mark bit and heap ID included.                   *)
Copied(size) == Header(size, 0, "NURSERY")

PromoteInto(chain, k, size) ==
    /\ regions' = Place(chain, k, size, Copied(size))
    /\ allocRegion' = chain[k].id
    /\ used' = (used + size) % SizeRange
    /\ UNCHANGED <<phase, epoch, queue, at, crashed>>

(* promote(): allocate(), and forward()'s copy.                            *)
Promote(size) ==
    /\ ~crashed
    /\ \E k \in Candidates(size) :
           (\A j \in Candidates(size) : k <= j) /\ PromoteInto(regions, k, size)

PromoteAndGrow(size) ==
    /\ ~crashed /\ Candidates(size) = {}
    /\ Len(regions) * RegionSize # MaxSize
    /\ Len(regions) + RegionsNeeded <= SystemRegions
    /\ Fits(Grown(regions, RegionsNeeded)[1], size)
    /\ PromoteInto(Grown(regions, RegionsNeeded), 1, size)

(* No memory, or no room in the new head: allocate() returns null, and     *)
(* forward() copies to it.                                                 *)
PromoteToNull(size) ==
    /\ ~crashed /\ Candidates(size) = {}
    /\ \/ Len(regions) * RegionSize = MaxSize
       \/ Len(regions) + RegionsNeeded > SystemRegions
       \/ ~Fits(Grown(regions, RegionsNeeded)[1], size)
    /\ crashed' = TRUE
    /\ UNCHANGED <<regions, allocRegion, used, phase, epoch, queue, at>>

-----------------------------------------------------------------------------
(* markObject(), of the object <<region, address>>; rest is the queue.     *)
CellOf(o) == regions[IndexOf(o[1])].memory[o[2]]
Objects == {o \in Ids \X (0 .. (RegionSize - 1)) :
                o[2] < regions[IndexOf(o[1])].allocPointer /\ CellOf(o).size > 0}

ContainsObject(o) == CellOf(o).heapId = "OLD_GEN"

MarkObject(o, rest) ==
    IF ContainsObject(o) /\ CellOf(o).mark # epoch
    THEN /\ regions' = [regions EXCEPT ![IndexOf(o[1])].memory[o[2]].mark = epoch]
         /\ queue' = Append(rest, o)
    ELSE queue' = rest /\ UNCHANGED regions

(* The objects a frame, a future or a field holds; bound: one at a time.   *)
MarkAny(rest) == \/ \E o \in Objects : MarkObject(o, rest)
                 \/ queue' = rest /\ UNCHANGED regions

(* startCollection(), by a safepoint that finds the heap full enough.      *)
StartCollection ==
    /\ ~crashed /\ phase = "Idle"
    /\ 10 * used >= Threshold * Len(regions) * RegionSize
    /\ epoch' = 1 - epoch /\ queue' = <<>>
    /\ at' = [task |-> 1, frame |-> 0]
    /\ phase' = "Roots"
    /\ UNCHANGED <<regions, allocRegion, used, crashed>>

(* rootsStep() up to the next look at the clock: one frame.  The walk      *)
(* starts at the top of the stack as it is then; the frame it has come to  *)
(* is kept over a pause, in which the program may call and return.         *)
RootsStep ==
    /\ ~crashed /\ phase = "Roots" /\ at.task <= Tasks
    /\ MarkAny(queue)
    /\ \E top \in 0 .. MaxDepth :
         LET frame == IF at.frame = 0 THEN top ELSE at.frame
         IN  at' = IF frame > 1 THEN [at EXCEPT !.frame = frame - 1]
                   ELSE [task |-> at.task + 1, frame |-> 0]
    /\ UNCHANGED <<allocRegion, used, phase, epoch, crashed>>

RootsEnd ==
    /\ ~crashed /\ phase = "Roots" /\ at.task > Tasks
    /\ MarkAny(queue)
    /\ phase' = "Mark"
    /\ UNCHANGED <<allocRegion, used, epoch, at, crashed>>

(* markStep() and, when the queue is empty, the start of the sweep.        *)
MarkStep ==
    /\ ~crashed /\ phase = "Mark"
    /\ IF queue = <<>>
       THEN /\ phase' = "Sweep" /\ at' = [region |-> regions[1].id, address |-> 0]
            /\ UNCHANGED <<regions, queue>>
       ELSE MarkAny(SubSeq(queue, 1, Len(queue) - 1)) /\ UNCHANGED <<phase, at>>
    /\ UNCHANGED <<allocRegion, used, epoch, crashed>>

(* deallocate(): the counts, and not the memory.                           *)
MFreeAtOnce(chain, k, size) ==
    LET left == (chain[k].live - size) % SizeRange
    IN  [chain EXCEPT ![k].live = left, ![k].allocPointer = IF left = 0 THEN 0 ELSE @]

Deallocated(chain, k, size) ==
    [chain EXCEPT ![k].live = (@ - size) % SizeRange]

Swept == regions[IndexOf(at.region)]

MSweepRestarts ==
    /\ ~crashed /\ phase = "Sweep" /\ at.region # 0 /\ at.address >= Swept.allocPointer
    /\ at' = [region |-> IF Next0(at.region) = 0 THEN regions[1].id ELSE Next0(at.region),
              address |-> 0]
    /\ UNCHANGED <<regions, allocRegion, used, phase, epoch, queue, crashed>>

SweepNextRegion ==
    /\ ~crashed /\ phase = "Sweep" /\ at.region # 0 /\ at.address >= Swept.allocPointer
    /\ at' = [region |-> Next0(at.region), address |-> 0]
    /\ UNCHANGED <<regions, allocRegion, used, phase, epoch, queue, crashed>>

SweepObject ==
    /\ ~crashed /\ phase = "Sweep" /\ at.region # 0 /\ at.address < Swept.allocPointer
    /\ LET object == Swept.memory[at.address]
       IN  /\ at' = [at EXCEPT !.address = @ + object.size]
           /\ IF object.mark # epoch
              THEN /\ regions' = Deallocated(regions, IndexOf(at.region), object.size)
                   /\ used' = (used - object.size) % SizeRange
              ELSE UNCHANGED <<regions, used>>
    /\ UNCHANGED <<allocRegion, phase, epoch, queue, crashed>>

SweepEnd ==
    /\ ~crashed /\ phase = "Sweep" /\ at.region = 0
    /\ phase' = "Shrink" /\ at' = [region |-> regions[1].id]
    /\ UNCHANGED <<regions, allocRegion, used, epoch, queue, crashed>>

(* shrinkStep(): a region without live bytes is used again from its start. *)
ShrinkStep ==
    /\ ~crashed /\ phase = "Shrink" /\ at.region # 0
    /\ regions' = [regions EXCEPT ![IndexOf(at.region)].allocPointer =
                      IF Swept.live = 0 THEN 0 ELSE @]
    /\ at' = [region |-> Next0(at.region)]
    /\ UNCHANGED <<allocRegion, used, phase, epoch, queue, crashed>>

ShrinkEnd ==
    /\ ~crashed /\ phase = "Shrink" /\ at.region = 0
    /\ phase' = "Idle"
    /\ UNCHANGED <<regions, allocRegion, used, epoch, queue, at, crashed>>

(* One round of stepCollection()'s loop.  It runs only when the safepoint  *)
(* has a deadline, and the time has not come yet.                          *)
StepCollection == \/ RootsStep \/ RootsEnd
                  \/ MarkStep
                  \/ SweepNextRegion \/ SweepObject \/ SweepEnd
                  \/ ShrinkStep \/ ShrinkEnd

(* init()                                                                  *)
Init == /\ regions = Grown(<<>>, InitialRegions)
        /\ allocRegion = InitialRegions
        /\ used = 0 /\ phase = "Idle" /\ epoch = 0 /\ queue = <<>>
        /\ at = [region |-> 0]
        /\ crashed = FALSE

Next == \/ \E size \in Sizes : Promote(size) \/ PromoteAndGrow(size) \/ PromoteToNull(size)
        \/ StartCollection
        \/ StepCollection

(* Safepoints keep coming, and have time for a step now and then.          *)
Spec == Init /\ [][Next]_vars /\ WF_vars(StepCollection)

-----------------------------------------------------------------------------
(* sweepStep() walks a region by the sizes it finds in it, over pauses in  *)
(* which objects are promoted into it: it always stands in front of whole  *)
(* objects that fill the region up to the allocation pointer.              *)
SweepOnObjects ==
    phase = "Sweep" /\ at.region # 0 /\ at.address # Swept.allocPointer =>
        /\ at.address < Swept.allocPointer
        /\ Swept.memory[at.address].size > 0
        /\ \A a \in at.address .. (Swept.allocPointer - 1) :
              LET n == Swept.memory[a].size
              IN  n > 0 => /\ a + n <= Swept.allocPointer
                           /\ \A b \in (a + 1) .. (a + n - 1) : Swept.memory[b].size = 0
                           /\ a + n < Swept.allocPointer => Swept.memory[a + n].size > 0

(* A collection that has begun comes to its end, although the program      *)
(* promotes into the regions the sweep walks and calls while the roots are *)
(* scanned.                                                                *)
CollectionEnds == phase # "Idle" ~> phase = "Idle" \/ crashed
=============================================================================
