------------------------------- MODULE Arena -------------------------------
(***************************************************************************)
(* The growing arena (allocator/arena.cpp) that frames, modules and the    *)
(* string pool allocate from, and the snapshots a frame takes of it when   *)
(* it is pushed and restores when it is popped.                            *)
(*                                                                         *)
(* An arena is a chain of regions; memory is handed out of the last.  A    *)
(* region is reserved whole and committed, page by page, as it fills.      *)
(***************************************************************************)
EXTENDS Integers, Sequences

CONSTANTS
    PageSize,      \* os_mem_getpagesize()
    Granule,       \* what sizes are rounded up to.  Source: 16
    HeaderSize,    \* sizeof(Region), which lies in the region itself
    MinRegionSize  \* of the arena

ASSUME ArenaAssumption ==
    /\ PageSize \in Nat \ {0} /\ Granule \in Nat \ {0} /\ PageSize % Granule = 0
    /\ HeaderSize \in 1 .. PageSize /\ MinRegionSize \in Nat \ {0}

(* An operator named M... is a mutant of a definition below it, a bug the  *)
(* code could have had; no specification uses it.                          *)

RoundUp(n, to) == ((n + to - 1) \div to) * to
Smaller(m, n)  == IF m < n THEN m ELSE n
Larger(m, n)   == IF m > n THEN m ELSE n

(* The pages that hold some of the bytes from .. from + n - 1.             *)
PagesOf(from, n) == (from \div PageSize) .. ((from + n - 1) \div PageSize)

MNewRegionWhole(id, size, preCommit) ==
    LET whole == RoundUp(size, PageSize)
    IN  [id |-> id, size |-> whole, used |-> RoundUp(HeaderSize, Granule), committed |-> whole,
         open |-> PagesOf(0, IF preCommit THEN whole ELSE PageSize)]

(* CreateMemory() and the constructor: the whole region is committed, or   *)
(* its first page, and the header is allocated from it.  committed is what *)
(* the region believes, open the pages that can be used.                   *)
NewRegion(id, size, preCommit) ==
    LET whole == RoundUp(size, PageSize)
        committed == IF preCommit THEN whole ELSE PageSize
    IN  [id |-> id, size |-> whole, used |-> RoundUp(HeaderSize, Granule),
         committed |-> committed, open |-> PagesOf(0, committed)]

(* The pages committed for n bytes more: eight times as many, and no more  *)
(* than the region believes uncommitted.  committed is not brought up to   *)
(* date, so pages are committed again and again; past the end of the       *)
(* region the system refuses.                                              *)
CommitLength(r, n) == Smaller(RoundUp(8 * n, PageSize), r.size - r.committed)

(* StaticArenaAllocator::allocate(), of n bytes, n rounded; commits says   *)
(* whether the system has memory for pages.                                *)
Fits(r, n, commits) ==
    /\ r.used + n <= r.size
    /\ r.used + n <= r.committed \/ (commits /\ r.used + CommitLength(r, n) <= r.size)
Bump(r, n) == [r EXCEPT !.used = @ + n,
                        !.open = IF r.used + n <= r.committed THEN @
                                 ELSE @ \union PagesOf(r.used, CommitLength(r, n))]

(* The arena: its regions, the snapshots not yet restored, each with the   *)
(* chain it was taken of, and the blocks in use.                           *)
NewArena(preCommit) ==
    [preCommit |-> preCommit, regions |-> <<NewRegion(1, MinRegionSize, preCommit)>>,
     next |-> 2, snapshots |-> <<>>, blocks |-> {}, null |-> {}, refused |-> FALSE]

Current(a)  == a.regions[Len(a.regions)]
Chained(a) == a.regions # <<>>

Block(r, n, depth) == [region |-> r.id, from |-> r.used, size |-> n, depth |-> depth]

(* The block is a frame's for as long as the snapshots below it.           *)
TakeFrom(a, n) ==
    [a EXCEPT !.regions[Len(a.regions)] = Bump(@, n),
              !.blocks = @ \union {Block(Current(a), n, Len(a.snapshots))}]

Fail(a, size) == [a EXCEPT !.null = @ \union {size}]

(* allocate0(): from the head, else from a new one.  When the system has   *)
(* no memory for it the chain is lost: mHead is null then.                 *)
Grow(a, size) ==
    [a EXCEPT !.regions = Append(@, NewRegion(a.next, Larger(size, MinRegionSize), a.preCommit)),
              !.next = @ + 1]
Refuse(a) == [a EXCEPT !.regions = <<>>, !.refused = TRUE]
Retry(a, size, n, commits) ==
    IF Fits(Current(a), n, commits) THEN TakeFrom(a, n)
    ELSE IF commits THEN Fail(a, size) ELSE a

Allocate(a, size, commits, reserves) ==
    LET n == RoundUp(size, Granule)
    IN  IF Chained(a) /\ Fits(Current(a), n, commits) THEN TakeFrom(a, n)
        ELSE IF ~reserves THEN Refuse(a)
        ELSE Retry(Grow(a, size), size, n, commits)

(* getRestorePoint()                                                       *)
TakeSnapshot(a) ==
    [a EXCEPT !.snapshots = Append(@,
        [head |-> IF Chained(a) THEN Current(a).id ELSE 0,
         used |-> IF Chained(a) THEN Current(a).used ELSE 0,
         chain |-> [k \in DOMAIN a.regions |-> <<a.regions[k].id, a.regions[k].used>>]])]

MRestoreKeepsRegion(a) ==
    LET point == a.snapshots[Len(a.snapshots)]
    IN  [a EXCEPT !.regions = IF @ = <<>> THEN @ ELSE [@ EXCEPT ![Len(@)].used = point.used],
                  !.snapshots = SubSeq(@, 1, Len(@) - 1),
                  !.blocks = {b \in @ : b.depth < Len(a.snapshots)}]

(* restore(): regions are released down to the one that was the head then. *)
Restore(a) ==
    LET point == a.snapshots[Len(a.snapshots)]
        kept  == {k \in DOMAIN a.regions : \E j \in k .. Len(a.regions) : a.regions[j].id = point.head}
        chain == [k \in kept |-> IF a.regions[k].id = point.head
                                 THEN [a.regions[k] EXCEPT !.used = point.used] ELSE a.regions[k]]
    IN  [a EXCEPT !.regions = chain,
                  !.snapshots = SubSeq(@, 1, Len(@) - 1),
                  !.blocks = {b \in @ : b.depth < Len(a.snapshots)}]

-----------------------------------------------------------------------------
(* Whether a block and a region it lies in agree.                          *)
LiesIn(b, r) == /\ r.id = b.region
                /\ b.from >= HeaderSize /\ b.from + b.size <= r.used
                /\ PagesOf(b.from, b.size) \subseteq r.open

Apart(b, c) == \/ b.region # c.region
               \/ b.from + b.size <= c.from
               \/ c.from + c.size <= b.from
=============================================================================
