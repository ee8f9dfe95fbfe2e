---------------------------- MODULE AlgorithmsProofs ----------------------------
(***************************************************************************)
(* Proofs about what Algorithms computes.  The arena hands out memory that *)
(* is committed and apart, and a frame that is popped leaves it as it was. *)
(* Every command line is read as it is meant.  Whatever classes a module   *)
(* declares, a call finds the method of the nearest class that has it,     *)
(* fields lie apart and aligned, and the collector is told of every        *)
(* reference.  Whatever code is decoded, a branch lands on the instruction *)
(* its offset names.  Whatever word an instruction is given, it computes   *)
(* what it is named for.                                                   *)
(***************************************************************************)
EXTENDS Algorithms, DataLemmas, TLAPS

(* What sizes are rounded up to is the least multiple that holds them.     *)
LEMMA RoundFacts ==
    ASSUME NEW n \in Nat, NEW d \in Nat \ {0}
    PROVE  \E k \in Nat : RoundUp(n, d) = k * d /\ n <= k * d /\ k * d < n + d
<1> DEFINE m == n + d - 1
<1>1. m \in Nat
  OBVIOUS
<1> HIDE DEF m
<1>2. m = d * (m \div d) + (m % d) /\ m \div d \in Nat /\ m % d \in 0 .. (d - 1)
  BY <1>1
<1>3. PICK k \in Nat : k = m \div d
  BY <1>2
<1>4. PICK x \in Nat : x = k * d
  BY <1>3
<1>5. x = d * k
  BY <1>4
<1>6. n <= x /\ x < n + d
  BY <1>2, <1>3, <1>5 DEF m
<1> QED BY <1>3, <1>4, <1>6 DEF RoundUp, m

(* The same, for readers that need no multiple.                            *)
LEMMA RoundBounds ==
    ASSUME NEW n \in Nat, NEW d \in Nat \ {0}
    PROVE  RoundUp(n, d) \in Nat /\ n <= RoundUp(n, d)
<1>1. PICK k \in Nat : RoundUp(n, d) = k * d /\ n <= k * d
  BY RoundFacts
<1> QED BY <1>1

(* Two multiples that differ, differ by the unit at least.                 *)
LEMMA SmallerRound ==
    ASSUME NEW d \in Nat \ {0}, NEW j \in Int, NEW k \in Int, j * d < k * d
    PROVE  j * d + d <= k * d
<1>1. j < k
  OBVIOUS
<1>2. (j + 1) * d <= k * d
  BY <1>1
<1> QED BY <1>2

(* A multiple that is at least n is at least n rounded up.                 *)
LEMMA RoundLeast ==
    ASSUME NEW d \in Nat \ {0}, NEW n \in Nat, NEW k \in Int, n <= k * d
    PROVE  RoundUp(n, d) <= k * d
<1>1. PICK j \in Nat : RoundUp(n, d) = j * d /\ j * d < n + d
  BY RoundFacts
<1>2. PICK x \in Int : x = k * d
  OBVIOUS
<1>3. PICK y \in Int : y = j * d
  OBVIOUS
<1>4. CASE y <= x
  BY <1>1, <1>2, <1>3, <1>4
<1>5. CASE x < y
  <2>1. x + d <= y
    BY SmallerRound, <1>2, <1>3, <1>5
  <2> QED BY <1>1, <1>2, <1>3, <2>1
<1> QED BY <1>2, <1>3, <1>4, <1>5

LEMMA PageOrder ==
    ASSUME NEW d \in Nat \ {0}, NEW a \in Int, NEW b \in Int, a <= b
    PROVE  a \div d <= b \div d /\ a \div d \in Int
BY Z3

LEMMA PageOfPage ==
    ASSUME NEW d \in Nat \ {0}, NEW a \in Int, NEW k \in Int
    PROVE  (a + k * d) \div d = a \div d + k
OBVIOUS

(* The pages of a part of some bytes are among theirs.                     *)
LEMMA PagesWithin ==
    ASSUME NEW from \in Int, NEW n \in Int, NEW start \in Int, NEW m \in Int,
           start <= from, from + n <= start + m
    PROVE  PagesOf(from, n) \subseteq PagesOf(start, m)
<1> DEFINE last == from + n - 1
           end  == start + m - 1
<1>1. last \in Int /\ end \in Int /\ last <= end
  OBVIOUS
<1> HIDE DEF last, end
<1>2. PageSize \in Nat \ {0}
  BY ArenaAssumption
<1>3. start \div PageSize <= from \div PageSize /\ start \div PageSize \in Int /\ from \div PageSize \in Int
  BY <1>2, PageOrder
<1>4. last \div PageSize <= end \div PageSize /\ last \div PageSize \in Int /\ end \div PageSize \in Int
  BY <1>1, <1>2, PageOrder
<1>5. (from \div PageSize) .. (last \div PageSize) \subseteq (start \div PageSize) .. (end \div PageSize)
  BY <1>3, <1>4
<1> QED BY <1>5 DEF PagesOf, last, end

LEMMA PagesAreIntegers ==
    ASSUME NEW from \in Int, NEW n \in Int
    PROVE  PagesOf(from, n) \in SUBSET Int
BY DEF PagesOf

-----------------------------------------------------------------------------
(* Regions                                                                 *)

Region == [id : Nat, size : Nat, used : Nat, committed : Nat, open : SUBSET Int]

(* A region is some pages, of which it believes the first or all to be     *)
(* committed and is right, and holds its header.                           *)
RegionSound(r) ==
    /\ \E q \in Nat \ {0} : r.size = q * PageSize
    /\ r.committed \in {PageSize, r.size}
    /\ HeaderSize <= r.used /\ r.used <= r.size
    /\ PagesOf(0, r.committed) \subseteq r.open

LEMMA PageIsGranules == \E k \in Int : PageSize = k * Granule
<1>1. PageSize \in Nat \ {0} /\ Granule \in Nat \ {0} /\ PageSize % Granule = 0
  BY ArenaAssumption
<1>2. PageSize = Granule * (PageSize \div Granule) + (PageSize % Granule)
      /\ PageSize \div Granule \in Int
  BY <1>1
<1>3. PICK k \in Int : k = PageSize \div Granule
  BY <1>2
<1> QED BY <1>1, <1>2, <1>3

(* What the header takes fits the first page.                              *)
LEMMA HeaderFits ==
    /\ PageSize \in Nat \ {0} /\ Granule \in Nat \ {0} /\ HeaderSize \in 1 .. PageSize
    /\ RoundUp(HeaderSize, Granule) \in HeaderSize .. PageSize
<1>1. PageSize \in Nat \ {0} /\ Granule \in Nat \ {0} /\ HeaderSize \in 1 .. PageSize
  BY ArenaAssumption
<1>2. PICK k \in Int : PageSize = k * Granule
  BY PageIsGranules
<1>3. RoundUp(HeaderSize, Granule) <= PageSize
  BY <1>1, <1>2, RoundLeast
<1>4. RoundUp(HeaderSize, Granule) \in Nat /\ HeaderSize <= RoundUp(HeaderSize, Granule)
  BY <1>1, RoundBounds
<1> QED BY <1>1, <1>3, <1>4

LEMMA NewRegionSound ==
    ASSUME NEW id \in Nat, NEW size \in Nat \ {0}, NEW preCommit \in BOOLEAN
    PROVE  LET r == NewRegion(id, size, preCommit)
           IN  /\ r \in Region /\ RegionSound(r)
               /\ r.id = id /\ r.used = RoundUp(HeaderSize, Granule)
               /\ r.size = RoundUp(size, PageSize) /\ r.committed \in {PageSize, r.size}
<1> DEFINE r == NewRegion(id, size, preCommit)
           whole == RoundUp(size, PageSize)
           committed == IF preCommit THEN whole ELSE PageSize
<1>1. PageSize \in Nat \ {0} /\ RoundUp(HeaderSize, Granule) \in HeaderSize .. PageSize
      /\ HeaderSize \in Nat
  BY HeaderFits
<1>2. PICK q \in Nat : whole = q * PageSize /\ size <= q * PageSize
  BY <1>1, RoundFacts
<1>3. whole \in Nat /\ q # 0
  BY <1>1, <1>2
<1>4. PageSize <= whole
  <2>1. 0 * PageSize < q * PageSize
    BY <1>1, <1>2
  <2>2. 0 * PageSize + PageSize <= q * PageSize
    BY <1>1, <2>1, SmallerRound
  <2> QED BY <1>1, <1>2, <2>2
<1>5. r = [id |-> id, size |-> whole, used |-> RoundUp(HeaderSize, Granule),
           committed |-> committed, open |-> PagesOf(0, committed)]
  BY DEF NewRegion
<1>6. committed \in Nat /\ committed \in {PageSize, whole}
  BY <1>1, <1>3
<1>7. PagesOf(0, committed) \in SUBSET Int
  BY <1>6, PagesAreIntegers
<1> HIDE DEF r, whole, committed
<1>8. r \in Region
  BY <1>1, <1>3, <1>5, <1>6, <1>7 DEF Region
<1>9. RegionSound(r)
  BY <1>1, <1>2, <1>3, <1>4, <1>5, <1>6 DEF RegionSound
<1> QED BY <1>5, <1>6, <1>8, <1>9 DEF r, whole

(* The pages a region commits for memory it hands out are enough, although *)
(* it counts them from what it believes committed.                         *)
LEMMA CommitCovers ==
    ASSUME NEW r \in Region, RegionSound(r), NEW n \in Nat,
           r.used + n <= r.size, ~(r.used + n <= r.committed)
    PROVE  /\ CommitLength(r, n) \in Nat
           /\ PagesOf(r.used, n) \subseteq PagesOf(r.used, CommitLength(r, n))
<1>1. PageSize \in Nat \ {0} /\ HeaderSize \in Nat \ {0}
  BY HeaderFits
<1>2. PICK q \in Nat \ {0} : r.size = q * PageSize
  BY DEF RegionSound
<1>3. r.size \in Nat /\ r.used \in Nat /\ r.committed = PageSize /\ 1 <= r.used
  BY <1>1 DEF Region, RegionSound
<1> DEFINE eight == RoundUp(8 * n, PageSize)
           rest  == r.size - r.committed
<1>4. eight \in Nat /\ n <= eight
  <2>1. 8 * n \in Nat /\ n <= 8 * n
    OBVIOUS
  <2> QED BY <1>1, <2>1, RoundBounds
<1>5. rest \in Nat
  <2>1. 0 * PageSize < q * PageSize
    BY <1>1, <1>2, <1>3
  <2>2. 0 * PageSize + PageSize <= q * PageSize
    BY <1>1, <2>1, SmallerRound
  <2> QED BY <1>1, <1>2, <1>3, <2>2
<1>6. CommitLength(r, n) = IF eight < rest THEN eight ELSE rest
  BY DEF CommitLength, Smaller
<1> HIDE DEF eight
<1>7. CASE eight < rest
  <2>1. CommitLength(r, n) = eight
    BY <1>6, <1>7
  <2>2. PagesOf(r.used, n) \subseteq PagesOf(r.used, eight)
    BY <1>3, <1>4, PagesWithin
  <2> QED BY <1>4, <2>1, <2>2
<1>8. CASE ~(eight < rest)
  <2>1. CommitLength(r, n) = rest
    BY <1>6, <1>8
  <2>2. (r.used + n - 1) \div PageSize <= q - 1
    <3>1. (r.size - 1) \div PageSize = q - 1
      <4>1. r.size - 1 = (PageSize - 1) + (q - 1) * PageSize
        BY <1>1, <1>2
      <4>2. (PageSize - 1) \div PageSize = 0
        BY <1>1
      <4>3. ((PageSize - 1) + (q - 1) * PageSize) \div PageSize = (PageSize - 1) \div PageSize + (q - 1)
        BY <1>1, PageOfPage
      <4> QED BY <4>1, <4>2, <4>3
    <3>2. (r.used + n - 1) \div PageSize <= (r.size - 1) \div PageSize
      BY <1>1, <1>3, PageOrder
    <3> QED BY <3>1, <3>2
  <2>3. q - 1 <= (r.used + rest - 1) \div PageSize
    <3>1. (0 + (q - 1) * PageSize) \div PageSize = 0 \div PageSize + (q - 1)
      BY <1>1, PageOfPage
    <3>2. 0 \div PageSize = 0
      BY <1>1
    <3>3. 0 + (q - 1) * PageSize <= r.used + rest - 1
      <4>1. (q - 1) * PageSize = q * PageSize - PageSize
        BY <1>1
      <4>2. PICK x \in Int : x = (q - 1) * PageSize
        BY <1>1
      <4> QED BY <1>1, <1>2, <1>3, <4>1, <4>2
    <3> DEFINE x == 0 + (q - 1) * PageSize
               y == r.used + rest - 1
    <3>4. x \in Int /\ y \in Int /\ x <= y
      BY <1>1, <1>3, <3>3
    <3> HIDE DEF x, y
    <3>5. x \div PageSize <= y \div PageSize
      BY <1>1, <3>4, PageOrder
    <3> QED BY <3>1, <3>2, <3>5 DEF x, y
  <2>4. (r.used + n - 1) \div PageSize \in Int /\ (r.used + rest - 1) \div PageSize \in Int
        /\ r.used \div PageSize \in Int
    BY <1>1, <1>3, <1>5
  <2> HIDE DEF rest
  <2>5. (r.used \div PageSize) .. ((r.used + n - 1) \div PageSize)
            \subseteq (r.used \div PageSize) .. ((r.used + rest - 1) \div PageSize)
    BY <2>2, <2>3, <2>4
  <2> QED BY <1>5, <2>1, <2>5 DEF PagesOf
<1> QED BY <1>7, <1>8

LEMMA BumpSound ==
    ASSUME NEW r \in Region, RegionSound(r), NEW n \in Nat, NEW commits, Fits(r, n, commits)
    PROVE  LET s == Bump(r, n)
           IN  /\ s \in Region /\ RegionSound(s)
               /\ s.id = r.id /\ s.size = r.size /\ s.committed = r.committed
               /\ s.used = r.used + n /\ r.open \subseteq s.open
               /\ PagesOf(r.used, n) \subseteq s.open
<1> DEFINE s == Bump(r, n)
           pages == PagesOf(r.used, CommitLength(r, n))
           open == IF r.used + n <= r.committed THEN r.open ELSE r.open \union pages
<1>1. r.used + n <= r.size /\ r.used \in Nat /\ r.committed \in Nat /\ r.used + n \in Nat
      /\ HeaderSize \in Nat
  BY HeaderFits DEF Fits, Region
<1>2. s = [r EXCEPT !.used = r.used + n, !.open = open]
  BY DEF Bump
<1>3. open \in SUBSET Int /\ r.open \subseteq open /\ PagesOf(r.used, n) \subseteq open
  <2>1. r.open \in SUBSET Int
    BY DEF Region
  <2>2. CASE r.used + n <= r.committed
    <3>1. PagesOf(r.used, n) \subseteq PagesOf(0, r.committed)
      BY <1>1, <2>2, PagesWithin
    <3> QED BY <2>1, <2>2, <3>1 DEF RegionSound
  <2>3. CASE ~(r.used + n <= r.committed)
    <3>1. CommitLength(r, n) \in Nat /\ PagesOf(r.used, n) \subseteq pages
      BY <1>1, <2>3, CommitCovers
    <3>2. pages \in SUBSET Int
      BY <1>1, <3>1, PagesAreIntegers
    <3> QED BY <2>1, <2>3, <3>1, <3>2
  <2> QED BY <2>2, <2>3
<1> HIDE DEF s, open
<1>4. s \in Region
  BY <1>1, <1>2, <1>3 DEF Region
<1>5. /\ s.id = r.id /\ s.size = r.size /\ s.committed = r.committed
      /\ s.used = r.used + n /\ s.open = open
  BY <1>2 DEF Region
<1>6. RegionSound(s)
  <2>1. HeaderSize <= r.used + n
    BY <1>1 DEF RegionSound
  <2>2. PagesOf(0, r.committed) \subseteq open
    BY <1>3 DEF RegionSound
  <2> QED BY <1>1, <1>5, <2>1, <2>2 DEF RegionSound
<1> QED BY <1>3, <1>4, <1>5, <1>6 DEF s

-----------------------------------------------------------------------------
(* The inductive invariant                                                 *)

Snapshot    == [head : Nat, used : Nat, chain : Seq(Nat \X Nat)]
MemoryBlock == [region : Nat \ {0}, from : Nat, size : Nat, depth : Nat]
ArenaState  == [preCommit : BOOLEAN, regions : Seq(Region), next : Nat \ {0}, snapshots : Seq(Snapshot),
                blocks : SUBSET MemoryBlock, null : SUBSET Nat, refused : BOOLEAN]

RegionsSound(a) == \A k \in DOMAIN a.regions : RegionSound(a.regions[k])

(* Regions are chained in the order they were reserved.                    *)
IdsGrow(a) ==
    /\ \A k \in DOMAIN a.regions : a.regions[k].id \in 1 .. (a.next - 1)
    /\ \A j, k \in DOMAIN a.regions : j < k => a.regions[j].id < a.regions[k].id

(* Memory in use lies in its region, if that is still chained.             *)
BlocksLie(a) ==
    \A b \in a.blocks :
        /\ b.region < a.next
        /\ \A k \in DOMAIN a.regions : a.regions[k].id = b.region => LiesIn(b, a.regions[k])

BlocksApart(a) == \A b, c \in a.blocks : b = c \/ Apart(b, c)

(* Restoring a snapshot leaves its region filled with its header at least, *)
(* and with all that was handed out before it.                             *)
SnapshotFits(a, i) ==
    /\ a.snapshots[i].head < a.next
    /\ \A k \in DOMAIN a.regions : a.regions[k].id = a.snapshots[i].head =>
           HeaderSize <= a.snapshots[i].used /\ a.snapshots[i].used <= a.regions[k].size
    /\ \A b \in a.blocks : b.depth < i /\ b.region = a.snapshots[i].head =>
           b.from + b.size <= a.snapshots[i].used
SnapshotsFit(a) == \A i \in DOMAIN a.snapshots : SnapshotFits(a, i)

NullsExplained(a) ==
    \A size \in a.null :
        RoundUp(size, Granule) + HeaderSize > RoundUp(Larger(size, MinRegionSize), PageSize)

(* The regions of a snapshot are the first of the arena's, filled as they  *)
(* were but for the last; what was handed out before it lies in them.      *)
Remembered(a, i) ==
    LET s == a.snapshots[i]
        m == Len(s.chain)
    IN  /\ m \in DOMAIN a.regions /\ a.regions[m].id = s.head
        /\ s.chain[m] = <<s.head, s.used>>
        /\ \A k \in 1 .. (m - 1) : s.chain[k] = <<a.regions[k].id, a.regions[k].used>>
        /\ \A b \in a.blocks : b.depth < i => \E k \in 1 .. m : a.regions[k].id = b.region

ChainKept(a) ==
    ~a.refused =>
        /\ a.regions # <<>>
        /\ \A b \in a.blocks : \E k \in DOMAIN a.regions : a.regions[k].id = b.region
        /\ \A i \in DOMAIN a.snapshots : Remembered(a, i)
        /\ \A i, j \in DOMAIN a.snapshots :
               i < j => Len(a.snapshots[i].chain) <= Len(a.snapshots[j].chain)

ArenaInv(a) == /\ a \in ArenaState /\ RegionsSound(a) /\ IdsGrow(a) /\ BlocksLie(a)
               /\ BlocksApart(a) /\ SnapshotsFit(a) /\ NullsExplained(a) /\ ChainKept(a)

-----------------------------------------------------------------------------
(* What the types say                                                      *)

LEMMA RegionTypes ==
    ASSUME NEW a \in ArenaState
    PROVE  /\ a.regions \in Seq(Region) /\ Len(a.regions) \in Nat
           /\ DOMAIN a.regions = 1 .. Len(a.regions)
           /\ \A k \in DOMAIN a.regions :
                  /\ a.regions[k] \in Region
                  /\ a.regions[k].id \in Nat /\ a.regions[k].size \in Nat
                  /\ a.regions[k].used \in Nat /\ a.regions[k].committed \in Nat
<1>1. a.regions \in Seq(Region)
  BY DEF ArenaState
<1>2. Len(a.regions) \in Nat /\ DOMAIN a.regions = 1 .. Len(a.regions)
      /\ \A k \in DOMAIN a.regions : a.regions[k] \in Region
  BY <1>1
<1> QED BY <1>1, <1>2 DEF Region

LEMMA OtherTypes ==
    ASSUME NEW a \in ArenaState
    PROVE  /\ a.next \in Nat /\ a.preCommit \in BOOLEAN
           /\ a.snapshots \in Seq(Snapshot) /\ Len(a.snapshots) \in Nat
           /\ DOMAIN a.snapshots = 1 .. Len(a.snapshots)
           /\ \A i \in DOMAIN a.snapshots :
                  /\ a.snapshots[i] \in Snapshot
                  /\ a.snapshots[i].head \in Nat /\ a.snapshots[i].used \in Nat
                  /\ a.snapshots[i].chain \in Seq(Nat \X Nat) /\ Len(a.snapshots[i].chain) \in Nat
           /\ \A b \in a.blocks : /\ b \in MemoryBlock /\ b.region \in Nat /\ b.from \in Nat
                                  /\ b.size \in Nat /\ b.depth \in Nat
<1>1. a.snapshots \in Seq(Snapshot) /\ \A b \in a.blocks : b \in MemoryBlock
  BY DEF ArenaState
<1>2. Len(a.snapshots) \in Nat /\ DOMAIN a.snapshots = 1 .. Len(a.snapshots)
      /\ \A i \in DOMAIN a.snapshots : a.snapshots[i] \in Snapshot
  BY <1>1
<1>3. a.next \in Nat /\ a.preCommit \in BOOLEAN
  BY DEF ArenaState
<1>4. \A i \in DOMAIN a.snapshots :
          /\ a.snapshots[i].head \in Nat /\ a.snapshots[i].used \in Nat
          /\ a.snapshots[i].chain \in Seq(Nat \X Nat)
  BY <1>2 DEF Snapshot
<1>5. \A i \in DOMAIN a.snapshots : Len(a.snapshots[i].chain) \in Nat
  BY <1>4
<1> QED BY <1>1, <1>2, <1>3, <1>4, <1>5 DEF MemoryBlock

LEMMA IdsDiffer ==
    ASSUME NEW a \in ArenaState, IdsGrow(a), NEW j \in DOMAIN a.regions, NEW k \in DOMAIN a.regions,
           a.regions[j].id = a.regions[k].id
    PROVE  j = k
<1>1. j \in Nat /\ k \in Nat /\ a.regions[j].id \in Nat /\ a.regions[k].id \in Nat
  BY RegionTypes
<1> QED BY <1>1 DEF IdsGrow

-----------------------------------------------------------------------------
(* Memory from the last region                                             *)

LEMMA TakeFromParts ==
    ASSUME NEW a \in ArenaState, a.regions # <<>>, NEW n \in Nat
    PROVE  /\ DOMAIN TakeFrom(a, n) = DOMAIN a
           /\ TakeFrom(a, n) = [a EXCEPT
                  !.regions = [a.regions EXCEPT ![Len(a.regions)] = Bump(Current(a), n)],
                  !.blocks = a.blocks \union {Block(Current(a), n, Len(a.snapshots))}]
BY DEF TakeFrom, Current, ArenaState

LEMMA TakeFromKeeps ==
    ASSUME NEW a, ArenaInv(a), a.regions # <<>>, NEW n \in Nat, NEW commits,
           Fits(Current(a), n, commits)
    PROVE  ArenaInv(TakeFrom(a, n))
<1> DEFINE t    == TakeFrom(a, n)
           last == Len(a.regions)
           r    == Current(a)
           s    == Bump(r, n)
           new  == Block(r, n, Len(a.snapshots))
<1>1. a \in ArenaState
  BY DEF ArenaInv
<1>2. last \in DOMAIN a.regions /\ r = a.regions[last] /\ a.regions \in Seq(Region)
  <2>1. a.regions \in Seq(Region)
    BY <1>1 DEF ArenaState
  <2> QED BY <2>1 DEF Current
<1>3. r \in Region /\ RegionSound(r)
  BY <1>2 DEF ArenaInv, RegionsSound
<1>4. /\ s \in Region /\ RegionSound(s) /\ s.id = r.id /\ s.size = r.size
      /\ s.used = r.used + n /\ r.open \subseteq s.open /\ PagesOf(r.used, n) \subseteq s.open
  BY <1>3, BumpSound
<1>5. t = [a EXCEPT !.regions = [a.regions EXCEPT ![last] = s], !.blocks = a.blocks \union {new}]
  BY <1>1, TakeFromParts
<1>6. new = [region |-> r.id, from |-> r.used, size |-> n, depth |-> Len(a.snapshots)]
  BY DEF Block
<1>7. a.snapshots \in Seq(Snapshot) /\ Len(a.snapshots) \in Nat
  BY <1>1 DEF ArenaState
<1>8. new \in MemoryBlock
  <2>1. r.id # 0
    BY <1>2 DEF ArenaInv, IdsGrow
  <2> QED BY <1>3, <1>6, <1>7, <2>1 DEF MemoryBlock, Region
<1>9. HeaderSize \in Nat \ {0}
  BY HeaderFits
<1> HIDE DEF t, s, new, last, r
<1>10. /\ t.regions = [a.regions EXCEPT ![last] = s] /\ t.blocks = a.blocks \union {new}
       /\ t.next = a.next /\ t.snapshots = a.snapshots /\ t.null = a.null /\ t.refused = a.refused
  BY <1>1, <1>5 DEF ArenaState
<1>11. /\ DOMAIN t.regions = DOMAIN a.regions /\ t.regions[last] = s
       /\ \A k \in DOMAIN a.regions : k # last => t.regions[k] = a.regions[k]
       /\ \A k \in DOMAIN a.regions : t.regions[k].id = a.regions[k].id
                                      /\ t.regions[k].size = a.regions[k].size
  BY <1>2, <1>4, <1>10
<1>12. t \in ArenaState
  <2>1. [a.regions EXCEPT ![last] = s] \in Seq(Region)
    BY <1>2, <1>4
  <2> QED BY <1>1, <1>5, <1>8, <2>1 DEF ArenaState
<1>13. RegionsSound(t)
  BY <1>4, <1>11 DEF ArenaInv, RegionsSound
<1>14. IdsGrow(t)
  BY <1>10, <1>11 DEF ArenaInv, IdsGrow
<1>15. \A k \in DOMAIN a.regions : a.regions[k].id = r.id => k = last
  BY <1>1, <1>2, IdsDiffer DEF ArenaInv
<1>16. \A b \in a.blocks : b.region = r.id => LiesIn(b, r)
  BY <1>2 DEF ArenaInv, BlocksLie
<1>17. BlocksLie(t)
  <2> SUFFICES ASSUME NEW b \in t.blocks
               PROVE  /\ b.region < t.next
                      /\ \A k \in DOMAIN t.regions : t.regions[k].id = b.region => LiesIn(b, t.regions[k])
    BY DEF BlocksLie
  <2>1. CASE b = new
    <3>1. new.region = r.id /\ new.from = r.used /\ new.size = n
      BY <1>6
    <3>2. r.id < a.next
      <4>1. r.id \in 1 .. (a.next - 1)
        BY <1>2 DEF ArenaInv, IdsGrow
      <4> QED BY <1>1, <4>1, OtherTypes
    <3>3. LiesIn(new, s)
      BY <1>3, <1>4, <3>1 DEF LiesIn, RegionSound, Region
    <3> QED BY <1>10, <1>11, <1>15, <2>1, <3>1, <3>2, <3>3
  <2>2. CASE b \in a.blocks
    <3>1. b.region < a.next
      BY <2>2 DEF ArenaInv, BlocksLie
    <3>2. ASSUME NEW k \in DOMAIN a.regions, t.regions[k].id = b.region
          PROVE  LiesIn(b, t.regions[k])
      <4>1. LiesIn(b, a.regions[k])
        BY <1>11, <2>2, <3>2 DEF ArenaInv, BlocksLie
      <4>2. CASE k # last
        BY <1>11, <4>1, <4>2
      <4>3. CASE k = last
        <5>1. b.from \in Nat /\ b.size \in Nat /\ r.used \in Nat
          BY <1>1, <1>2, <2>2, RegionTypes, OtherTypes
        <5>2. LiesIn(b, r) /\ t.regions[k] = s
          BY <1>2, <1>11, <4>1, <4>3
        <5>3. b.from + b.size <= s.used
          BY <1>4, <5>1, <5>2 DEF LiesIn
        <5>4. PagesOf(b.from, b.size) \subseteq s.open
          BY <1>4, <5>2 DEF LiesIn
        <5> QED BY <1>4, <5>2, <5>3, <5>4 DEF LiesIn
      <4> QED BY <4>2, <4>3
    <3> QED BY <1>10, <1>11, <3>1, <3>2
  <2> QED BY <1>10, <2>1, <2>2
<1>18. BlocksApart(t)
  <2>1. \A b \in a.blocks : Apart(b, new) /\ Apart(new, b)
    <3> SUFFICES ASSUME NEW b \in a.blocks
                 PROVE  Apart(b, new) /\ Apart(new, b)
      OBVIOUS
    <3>1. new.region = r.id /\ new.from = r.used
      BY <1>6
    <3>2. b.region = r.id => b.from + b.size <= r.used
      BY <1>16 DEF LiesIn
    <3> QED BY <3>1, <3>2 DEF Apart
  <2> QED BY <1>10, <2>1 DEF ArenaInv, BlocksApart
<1>19. SnapshotsFit(t)
  <2> SUFFICES ASSUME NEW i \in DOMAIN a.snapshots
               PROVE  SnapshotFits(t, i)
    BY <1>10 DEF SnapshotsFit
  <2>1. SnapshotFits(a, i)
    BY DEF ArenaInv, SnapshotsFit
  <2>2. ~(new.depth < i)
    BY <1>6, <1>7
  <2> QED BY <1>10, <1>11, <2>1, <2>2 DEF SnapshotFits
<1>20. NullsExplained(t)
  BY <1>10 DEF ArenaInv, NullsExplained
<1>21. ChainKept(t)
  <2> SUFFICES ASSUME ~a.refused
               PROVE  /\ t.regions # <<>>
                      /\ \A b \in t.blocks : \E k \in DOMAIN t.regions : t.regions[k].id = b.region
                      /\ \A i \in DOMAIN t.snapshots : Remembered(t, i)
                      /\ \A i, j \in DOMAIN t.snapshots :
                             i < j => Len(t.snapshots[i].chain) <= Len(t.snapshots[j].chain)
    BY <1>10 DEF ChainKept
  <2>1. t.regions # <<>>
    BY <1>2, <1>11
  <2>2. \A b \in t.blocks : \E k \in DOMAIN t.regions : t.regions[k].id = b.region
    <3>1. new.region = r.id
      BY <1>6
    <3>2. \A b \in a.blocks : \E k \in DOMAIN a.regions : a.regions[k].id = b.region
      BY DEF ArenaInv, ChainKept
    <3> QED BY <1>2, <1>10, <1>11, <3>1, <3>2
  <2>3. ASSUME NEW i \in DOMAIN a.snapshots
        PROVE  Remembered(t, i)
    <3> DEFINE m == Len(a.snapshots[i].chain)
    <3>1. Remembered(a, i)
      BY DEF ArenaInv, ChainKept
    <3>2. m \in DOMAIN a.regions /\ m <= last
      BY <1>2, <3>1 DEF Remembered, last
    <3>3. \A k \in 1 .. (m - 1) : k \in DOMAIN a.regions /\ k # last
      BY <1>2, <3>2 DEF last
    <3>4. ~(new.depth < i)
      BY <1>6, <1>7
    <3>5. \A k \in 1 .. m : k \in DOMAIN a.regions
      BY <1>2, <3>2
    <3> QED BY <1>10, <1>11, <3>1, <3>2, <3>3, <3>4, <3>5 DEF Remembered
  <2>4. \A i, j \in DOMAIN a.snapshots :
            i < j => Len(a.snapshots[i].chain) <= Len(a.snapshots[j].chain)
    BY DEF ArenaInv, ChainKept
  <2> QED BY <1>10, <2>1, <2>2, <2>3, <2>4
<1> QED BY <1>12, <1>13, <1>14, <1>17, <1>18, <1>19, <1>20, <1>21 DEF ArenaInv, t

-----------------------------------------------------------------------------
(* A new region                                                            *)

LEMMA GrowKeeps ==
    ASSUME NEW a, ArenaInv(a), NEW size \in Nat
    PROVE  LET t == Grow(a, size)
           IN  /\ ArenaInv(t) /\ Chained(t)
               /\ Current(t) = NewRegion(a.next, Larger(size, MinRegionSize), a.preCommit)
<1> DEFINE t    == Grow(a, size)
           r    == NewRegion(a.next, Larger(size, MinRegionSize), a.preCommit)
           last == Len(a.regions) + 1
<1>1. a \in ArenaState /\ MinRegionSize \in Nat \ {0}
  BY ArenaAssumption DEF ArenaInv
<1>2. a.regions \in Seq(Region) /\ DOMAIN a.regions = 1 .. Len(a.regions) /\ Len(a.regions) \in Nat
      /\ a.next \in Nat \ {0} /\ a.preCommit \in BOOLEAN
  BY <1>1, RegionTypes DEF ArenaState
<1>3. Larger(size, MinRegionSize) \in Nat \ {0}
  BY <1>1 DEF Larger
<1>4. r \in Region /\ RegionSound(r) /\ r.id = a.next
  BY <1>2, <1>3, NewRegionSound
<1>5. t = [a EXCEPT !.regions = Append(a.regions, r), !.next = a.next + 1]
  BY <1>1 DEF Grow, ArenaState
<1> HIDE DEF t, r
<1>6. /\ t.regions = Append(a.regions, r) /\ t.next = a.next + 1 /\ t.blocks = a.blocks
      /\ t.snapshots = a.snapshots /\ t.null = a.null /\ t.refused = a.refused
  BY <1>1, <1>5 DEF ArenaState
<1>7. /\ DOMAIN t.regions = 1 .. last /\ Len(t.regions) = last /\ t.regions[last] = r
      /\ \A k \in DOMAIN a.regions : k \in 1 .. last /\ t.regions[k] = a.regions[k]
      /\ \A k \in 1 .. last : k = last \/ k \in DOMAIN a.regions
  BY <1>2, <1>4, <1>6
<1>8. t \in ArenaState
  <2>1. Append(a.regions, r) \in Seq(Region)
    BY <1>2, <1>4
  <2>2. a.next + 1 \in Nat \ {0}
    BY <1>2
  <2> QED BY <1>1, <1>5, <2>1, <2>2 DEF ArenaState
<1>9. RegionsSound(t)
  BY <1>4, <1>7 DEF ArenaInv, RegionsSound
<1>10. \A k \in DOMAIN a.regions : a.regions[k].id \in 1 .. (a.next - 1)
  BY DEF ArenaInv, IdsGrow
<1>11. IdsGrow(t)
  <2>1. ASSUME NEW k \in DOMAIN t.regions
        PROVE  t.regions[k].id \in 1 .. (t.next - 1)
    <3>1. t.next - 1 = a.next
      BY <1>2, <1>6
    <3>2. CASE k = last
      BY <1>2, <1>4, <1>7, <3>1, <3>2
    <3>3. CASE k \in DOMAIN a.regions
      <4>1. t.regions[k].id \in 1 .. (a.next - 1)
        BY <1>7, <1>10, <3>3
      <4> QED BY <1>2, <3>1, <4>1
    <3> QED BY <1>7, <3>2, <3>3
  <2>2. ASSUME NEW j \in DOMAIN t.regions, NEW k \in DOMAIN t.regions, j < k
        PROVE  t.regions[j].id < t.regions[k].id
    <3>1. j \in DOMAIN a.regions
      BY <1>2, <1>7, <2>2
    <3>2. CASE k = last
      <4>1. a.regions[j].id \in 1 .. (a.next - 1) /\ t.regions[j] = a.regions[j]
        BY <1>7, <1>10, <3>1
      <4>2. t.regions[k].id = a.next
        BY <1>4, <1>7, <3>2
      <4> QED BY <1>2, <4>1, <4>2
    <3>3. CASE k \in DOMAIN a.regions
      BY <1>7, <2>2, <3>1, <3>3 DEF ArenaInv, IdsGrow
    <3> QED BY <1>7, <3>2, <3>3
  <2> QED BY <2>1, <2>2 DEF IdsGrow
<1>12. \A b \in a.blocks : b.region \in Nat /\ b.region < a.next
  BY <1>1, OtherTypes DEF ArenaInv, BlocksLie
<1>13. BlocksLie(t)
  <2> SUFFICES ASSUME NEW b \in a.blocks
               PROVE  /\ b.region < t.next
                      /\ \A k \in DOMAIN t.regions : t.regions[k].id = b.region => LiesIn(b, t.regions[k])
    BY <1>6 DEF BlocksLie
  <2>1. b.region < t.next /\ b.region # r.id
    BY <1>2, <1>4, <1>6, <1>12
  <2>2. \A k \in DOMAIN a.regions : a.regions[k].id = b.region => LiesIn(b, a.regions[k])
    BY DEF ArenaInv, BlocksLie
  <2> QED BY <1>7, <2>1, <2>2
<1>14. BlocksApart(t)
  BY <1>6 DEF ArenaInv, BlocksApart
<1>15. SnapshotsFit(t)
  <2> SUFFICES ASSUME NEW i \in DOMAIN a.snapshots
               PROVE  SnapshotFits(t, i)
    BY <1>6 DEF SnapshotsFit
  <2>1. SnapshotFits(a, i)
    BY DEF ArenaInv, SnapshotsFit
  <2>2. a.snapshots[i].head < t.next /\ a.snapshots[i].head # r.id
    BY <1>1, <1>2, <1>4, <1>6, <2>1, OtherTypes DEF SnapshotFits
  <2> QED BY <1>6, <1>7, <2>1, <2>2 DEF SnapshotFits
<1>16. NullsExplained(t)
  BY <1>6 DEF ArenaInv, NullsExplained
<1>17. ChainKept(t)
  <2> SUFFICES ASSUME ~a.refused
               PROVE  /\ t.regions # <<>>
                      /\ \A b \in a.blocks : \E k \in DOMAIN t.regions : t.regions[k].id = b.region
                      /\ \A i \in DOMAIN a.snapshots : Remembered(t, i)
                      /\ \A i, j \in DOMAIN a.snapshots :
                             i < j => Len(a.snapshots[i].chain) <= Len(a.snapshots[j].chain)
    BY <1>6 DEF ChainKept
  <2>1. t.regions # <<>>
    BY <1>2, <1>7
  <2>2. \A b \in a.blocks : \E k \in DOMAIN t.regions : t.regions[k].id = b.region
    <3>1. \A b \in a.blocks : \E k \in DOMAIN a.regions : a.regions[k].id = b.region
      BY DEF ArenaInv, ChainKept
    <3> QED BY <1>7, <3>1
  <2>3. ASSUME NEW i \in DOMAIN a.snapshots
        PROVE  Remembered(t, i)
    <3> DEFINE m == Len(a.snapshots[i].chain)
    <3>1. Remembered(a, i)
      BY DEF ArenaInv, ChainKept
    <3>2. m \in DOMAIN a.regions
      BY <3>1 DEF Remembered
    <3>3. \A k \in 1 .. m : k \in DOMAIN a.regions
      BY <1>2, <3>2
    <3>4. \A k \in 1 .. (m - 1) : k \in DOMAIN a.regions
      BY <1>2, <3>2
    <3> QED BY <1>6, <1>7, <3>1, <3>2, <3>3, <3>4 DEF Remembered
  <2>4. \A i, j \in DOMAIN a.snapshots :
            i < j => Len(a.snapshots[i].chain) <= Len(a.snapshots[j].chain)
    BY DEF ArenaInv, ChainKept
  <2> QED BY <2>1, <2>2, <2>3, <2>4
<1>18. Chained(t) /\ Current(t) = r
  BY <1>2, <1>7 DEF Chained, Current
<1> QED BY <1>8, <1>9, <1>11, <1>13, <1>14, <1>15, <1>16, <1>17, <1>18 DEF ArenaInv, t, r

(* Where the new region has no room for a request, there is none for it    *)
(* and the header: if the system has memory, room is the only reason.      *)
LEMMA NoRoom ==
    ASSUME NEW id \in Nat, NEW size \in Nat, NEW preCommit \in BOOLEAN,
           ~Fits(NewRegion(id, Larger(size, MinRegionSize), preCommit), RoundUp(size, Granule), TRUE)
    PROVE  RoundUp(size, Granule) + HeaderSize > RoundUp(Larger(size, MinRegionSize), PageSize)
<1> DEFINE least == Larger(size, MinRegionSize)
           r     == NewRegion(id, least, preCommit)
           n     == RoundUp(size, Granule)
           head  == RoundUp(HeaderSize, Granule)
           whole == RoundUp(least, PageSize)
<1>1. PageSize \in Nat \ {0} /\ Granule \in Nat \ {0} /\ HeaderSize \in 1 .. PageSize
      /\ head \in HeaderSize .. PageSize
  BY HeaderFits
<1>2. least \in Nat \ {0}
  BY ArenaAssumption DEF Larger
<1> HIDE DEF least
<1>3. r \in Region /\ RegionSound(r) /\ r.used = head /\ r.size = whole
  BY <1>2, NewRegionSound
<1>4. n \in Nat /\ whole \in Nat
  BY <1>1, <1>2, RoundBounds
<1> HIDE DEF r, n, head
<1>5. n + head > whole
  <2> SUFFICES ASSUME ~(n + head > whole) PROVE FALSE
    OBVIOUS
  <2>1. r.used + n <= r.size /\ r.size \in Nat /\ r.used \in Nat /\ r.committed \in {PageSize, r.size}
    BY <1>1, <1>3, <1>4 DEF RegionSound, Region
  <2>2. ~(r.used + n <= r.committed)
    BY <2>1 DEF Fits, r, n, least
  <2>3. r.committed = PageSize
    BY <2>1, <2>2
  <2>4. CommitLength(r, n) <= r.size - PageSize
    <3>1. RoundUp(8 * n, PageSize) \in Nat
      <4>1. 8 * n \in Nat
        BY <1>4
      <4> QED BY <1>1, <4>1, RoundBounds
    <3> QED BY <1>1, <2>1, <2>3, <3>1 DEF CommitLength, Smaller
  <2>5. CommitLength(r, n) \in Nat
    BY <1>3, <1>4, <2>1, <2>2, CommitCovers
  <2>6. r.used + CommitLength(r, n) <= r.size
    BY <1>1, <1>3, <2>1, <2>4, <2>5
  <2> QED BY <2>1, <2>6 DEF Fits, r, n, least
<1>6. PICK j, k \in Int : n = j * Granule /\ whole = k * Granule
  <2>1. PICK j \in Nat : n = j * Granule
    BY <1>1, RoundFacts DEF n
  <2>2. PICK q \in Nat : whole = q * PageSize
    BY <1>1, <1>2, RoundFacts
  <2>3. PICK p \in Int : PageSize = p * Granule
    BY PageIsGranules
  <2>4. whole = (q * p) * Granule
    BY <1>1, <2>2, <2>3
  <2> QED BY <2>1, <2>4
<1>7. HeaderSize > whole - n
  <2> SUFFICES ASSUME HeaderSize <= whole - n PROVE FALSE
    BY <1>1, <1>4
  <2>1. whole - n = (k - j) * Granule
    BY <1>1, <1>4, <1>6
  <2>2. head <= (k - j) * Granule
    BY <1>1, <2>1, RoundLeast DEF head
  <2> QED BY <1>1, <1>4, <1>5, <2>1, <2>2
<1> QED BY <1>1, <1>4, <1>7 DEF n, least

LEMMA FailKeeps ==
    ASSUME NEW a, ArenaInv(a), NEW size \in Nat,
           RoundUp(size, Granule) + HeaderSize > RoundUp(Larger(size, MinRegionSize), PageSize)
    PROVE  ArenaInv(Fail(a, size))
<1> DEFINE t == Fail(a, size)
<1>1. a \in ArenaState
  BY DEF ArenaInv
<1>2. t = [a EXCEPT !.null = a.null \union {size}]
  BY <1>1 DEF Fail, ArenaState
<1> HIDE DEF t
<1>3. /\ t.regions = a.regions /\ t.next = a.next /\ t.blocks = a.blocks
      /\ t.snapshots = a.snapshots /\ t.null = a.null \union {size} /\ t.refused = a.refused
  BY <1>1, <1>2 DEF ArenaState
<1>4. t \in ArenaState
  BY <1>1, <1>2 DEF ArenaState
<1>5. NullsExplained(t)
  BY <1>3 DEF ArenaInv, NullsExplained
<1>6. /\ RegionsSound(t) /\ IdsGrow(t) /\ BlocksLie(t) /\ BlocksApart(t)
  BY <1>3 DEF ArenaInv, RegionsSound, IdsGrow, BlocksLie, BlocksApart
<1>7. SnapshotsFit(t)
  BY <1>3 DEF ArenaInv, SnapshotsFit, SnapshotFits
<1>8. ChainKept(t)
  BY <1>3 DEF ArenaInv, ChainKept, Remembered
<1> QED BY <1>4, <1>5, <1>6, <1>7, <1>8 DEF ArenaInv, t

LEMMA RefuseKeeps ==
    ASSUME NEW a, ArenaInv(a)
    PROVE  ArenaInv(Refuse(a)) /\ Refuse(a).refused /\ Refuse(a).snapshots = a.snapshots
<1> DEFINE t == Refuse(a)
<1>1. a \in ArenaState
  BY DEF ArenaInv
<1>2. t = [a EXCEPT !.regions = <<>>, !.refused = TRUE]
  BY DEF Refuse
<1> HIDE DEF t
<1>3. /\ t.regions = <<>> /\ t.next = a.next /\ t.blocks = a.blocks
      /\ t.snapshots = a.snapshots /\ t.null = a.null /\ t.refused = TRUE
  BY <1>1, <1>2 DEF ArenaState
<1>4. t \in ArenaState
  <2>1. <<>> \in Seq(Region)
    OBVIOUS
  <2> QED BY <1>1, <1>2, <2>1 DEF ArenaState
<1>5. /\ RegionsSound(t) /\ IdsGrow(t) /\ BlocksLie(t) /\ BlocksApart(t)
      /\ NullsExplained(t) /\ ChainKept(t)
  BY <1>3 DEF ArenaInv, RegionsSound, IdsGrow, BlocksLie, BlocksApart, NullsExplained, ChainKept
<1>6. SnapshotsFit(t)
  BY <1>3 DEF ArenaInv, SnapshotsFit, SnapshotFits
<1> QED BY <1>3, <1>4, <1>5, <1>6 DEF ArenaInv, t

(* Whatever the system refuses, allocate() keeps the invariant.            *)
LEMMA AllocateKeeps ==
    ASSUME NEW a, ArenaInv(a), NEW size \in Nat, NEW commits \in BOOLEAN, NEW reserves \in BOOLEAN
    PROVE  ArenaInv(Allocate(a, size, commits, reserves))
<1> DEFINE n    == RoundUp(size, Granule)
           more == Grow(a, size)
<1>1. n \in Nat
  BY HeaderFits, RoundBounds
<1>2. ArenaInv(more) /\ Chained(more)
      /\ Current(more) = NewRegion(a.next, Larger(size, MinRegionSize), a.preCommit)
  BY GrowKeeps
<1>3. a.next \in Nat /\ a.preCommit \in BOOLEAN
  BY OtherTypes DEF ArenaInv
<1> HIDE DEF n, more
<1>4. CASE Chained(a) /\ Fits(Current(a), n, commits)
  <2>1. ArenaInv(TakeFrom(a, n))
    BY <1>1, <1>4, TakeFromKeeps DEF Chained
  <2> QED BY <1>4, <2>1 DEF Allocate, n
<1>5. CASE ~(Chained(a) /\ Fits(Current(a), n, commits)) /\ ~reserves
  <2>1. Allocate(a, size, commits, reserves) = Refuse(a)
    BY <1>5 DEF Allocate, n
  <2> QED BY <2>1, RefuseKeeps
<1>6. CASE ~(Chained(a) /\ Fits(Current(a), n, commits)) /\ reserves
  <2>1. Allocate(a, size, commits, reserves) = Retry(more, size, n, commits)
    BY <1>6 DEF Allocate, n, more
  <2>2. CASE Fits(Current(more), n, commits)
    <3>1. ArenaInv(TakeFrom(more, n))
      BY <1>1, <1>2, <2>2, TakeFromKeeps DEF Chained
    <3> QED BY <2>1, <2>2, <3>1 DEF Retry
  <2>3. CASE ~Fits(Current(more), n, commits) /\ commits
    <3>1. RoundUp(size, Granule) + HeaderSize > RoundUp(Larger(size, MinRegionSize), PageSize)
      BY <1>2, <1>3, <2>3, NoRoom DEF n
    <3>2. ArenaInv(Fail(more, size))
      BY <1>2, <3>1, FailKeeps
    <3> QED BY <2>1, <2>3, <3>2 DEF Retry
  <2>4. CASE ~Fits(Current(more), n, commits) /\ ~commits
    BY <1>2, <2>1, <2>4 DEF Retry
  <2> QED BY <2>2, <2>3, <2>4
<1> QED BY <1>4, <1>5, <1>6

-----------------------------------------------------------------------------
(* Snapshots                                                               *)

LEMMA TakeSnapshotKeeps ==
    ASSUME NEW a, ArenaInv(a)
    PROVE  ArenaInv(TakeSnapshot(a))
<1> DEFINE t     == TakeSnapshot(a)
           chain == [k \in DOMAIN a.regions |-> <<a.regions[k].id, a.regions[k].used>>]
           point == [head |-> IF Chained(a) THEN Current(a).id ELSE 0,
                     used |-> IF Chained(a) THEN Current(a).used ELSE 0, chain |-> chain]
           last  == Len(a.regions)
           this  == Len(a.snapshots) + 1
<1>1. a \in ArenaState
  BY DEF ArenaInv
<1>2. /\ a.regions \in Seq(Region) /\ last \in Nat /\ DOMAIN a.regions = 1 .. last
      /\ a.snapshots \in Seq(Snapshot) /\ Len(a.snapshots) \in Nat
      /\ DOMAIN a.snapshots = 1 .. Len(a.snapshots)
  BY <1>1, RegionTypes, OtherTypes
<1>3. Chained(a) => last \in DOMAIN a.regions /\ Current(a) = a.regions[last]
  BY <1>2 DEF Chained, Current
<1>4. ~Chained(a) => last = 0
  BY <1>2 DEF Chained
<1>5. t = [a EXCEPT !.snapshots = Append(a.snapshots, point)]
  BY <1>1 DEF TakeSnapshot, ArenaState
<1>6. chain \in Seq(Nat \X Nat) /\ Len(chain) = last
      /\ \A k \in DOMAIN a.regions : chain[k] = <<a.regions[k].id, a.regions[k].used>>
  <2>1. \A k \in DOMAIN a.regions : <<a.regions[k].id, a.regions[k].used>> \in Nat \X Nat
    BY <1>1, RegionTypes
  <2> QED BY <1>2, <2>1
<1>7. /\ Chained(a) => point.head = a.regions[last].id /\ point.used = a.regions[last].used
      /\ ~Chained(a) => point.head = 0 /\ point.used = 0
      /\ point.chain = chain
  BY <1>3
<1>8. point \in Snapshot
  <2>1. (IF Chained(a) THEN Current(a).id ELSE 0) \in Nat
    BY <1>1, <1>3, RegionTypes
  <2>2. (IF Chained(a) THEN Current(a).used ELSE 0) \in Nat
    BY <1>1, <1>3, RegionTypes
  <2> QED BY <1>6, <2>1, <2>2 DEF Snapshot
<1> HIDE DEF t, point, chain
<1>9. /\ t.regions = a.regions /\ t.next = a.next /\ t.blocks = a.blocks
      /\ t.snapshots = Append(a.snapshots, point) /\ t.null = a.null /\ t.refused = a.refused
  BY <1>1, <1>5 DEF ArenaState
<1>10. /\ DOMAIN t.snapshots = 1 .. this /\ t.snapshots[this] = point
       /\ \A i \in DOMAIN a.snapshots : i \in 1 .. this /\ t.snapshots[i] = a.snapshots[i]
       /\ \A i \in 1 .. this : i = this \/ i \in DOMAIN a.snapshots
  BY <1>2, <1>8, <1>9
<1>11. t \in ArenaState
  <2>1. Append(a.snapshots, point) \in Seq(Snapshot)
    BY <1>2, <1>8
  <2> QED BY <1>1, <1>5, <2>1 DEF ArenaState
<1>12. RegionsSound(t) /\ IdsGrow(t) /\ BlocksLie(t) /\ BlocksApart(t) /\ NullsExplained(t)
  BY <1>9 DEF ArenaInv, RegionsSound, IdsGrow, BlocksLie, BlocksApart, NullsExplained
<1>13. SnapshotsFit(t)
  <2>1. ASSUME NEW i \in DOMAIN a.snapshots
        PROVE  SnapshotFits(t, i)
    <3>1. SnapshotFits(a, i)
      BY DEF ArenaInv, SnapshotsFit
    <3> QED BY <1>9, <1>10, <3>1 DEF SnapshotFits
  <2>2. CASE Chained(a)
    <3>1. point.head < a.next
      <4>1. point.head \in 1 .. (a.next - 1)
        BY <1>3, <1>7, <2>2 DEF ArenaInv, IdsGrow
      <4> QED BY <1>1, <4>1, OtherTypes
    <3>2. ASSUME NEW k \in DOMAIN a.regions, a.regions[k].id = point.head
          PROVE  HeaderSize <= point.used /\ point.used <= a.regions[k].size
      <4>1. k = last
        BY <1>1, <1>3, <1>7, <2>2, <3>2, IdsDiffer DEF ArenaInv
      <4>2. RegionSound(a.regions[last])
        BY <1>3, <2>2 DEF ArenaInv, RegionsSound
      <4> QED BY <1>7, <2>2, <4>1, <4>2 DEF RegionSound
    <3>3. ASSUME NEW b \in a.blocks, b.region = point.head
          PROVE  b.from + b.size <= point.used
      <4>1. LiesIn(b, a.regions[last])
        BY <1>3, <1>7, <2>2, <3>3 DEF ArenaInv, BlocksLie
      <4> QED BY <1>7, <2>2, <4>1 DEF LiesIn
    <3>4. SnapshotFits(t, this)
      BY <1>9, <1>10, <3>1, <3>2, <3>3 DEF SnapshotFits
    <3> QED BY <1>10, <2>1, <3>4 DEF SnapshotsFit
  <2>3. CASE ~Chained(a)
    <3>1. point.head < a.next
      BY <1>1, <1>7, <2>3 DEF ArenaState
    <3>2. \A b \in a.blocks : b.region # point.head
      BY <1>1, <1>7, <2>3, OtherTypes DEF MemoryBlock
    <3>3. DOMAIN a.regions = {}
      BY <1>2, <1>4, <2>3
    <3>4. SnapshotFits(t, this)
      BY <1>9, <1>10, <3>1, <3>2, <3>3 DEF SnapshotFits
    <3> QED BY <1>10, <2>1, <3>4 DEF SnapshotsFit
  <2> QED BY <2>2, <2>3
<1>14. ChainKept(t)
  <2> SUFFICES ASSUME ~a.refused
               PROVE  /\ a.regions # <<>>
                      /\ \A b \in a.blocks : \E k \in DOMAIN a.regions : a.regions[k].id = b.region
                      /\ \A i \in DOMAIN t.snapshots : Remembered(t, i)
                      /\ \A i, j \in DOMAIN t.snapshots :
                             i < j => Len(t.snapshots[i].chain) <= Len(t.snapshots[j].chain)
    BY <1>9 DEF ChainKept
  <2>0. ChainKept(a)
    BY DEF ArenaInv
  <2>1. Chained(a) /\ last \in DOMAIN a.regions
    BY <1>3, <2>0 DEF ChainKept, Chained
  <2>2. \A b \in a.blocks : \E k \in DOMAIN a.regions : a.regions[k].id = b.region
    BY <2>0 DEF ChainKept
  <2>3. ASSUME NEW i \in DOMAIN a.snapshots
        PROVE  Remembered(t, i)
    <3>1. Remembered(a, i)
      BY <2>0 DEF ChainKept
    <3> QED BY <1>9, <1>10, <3>1 DEF Remembered
  <2>4. Remembered(t, this)
    <3>1. Len(t.snapshots[this].chain) = last /\ t.snapshots[this] = point
      BY <1>6, <1>7, <1>10
    <3>2. \A k \in 1 .. (last - 1) : k \in DOMAIN a.regions
      BY <1>2
    <3>3. \A k \in 1 .. (last - 1) : point.chain[k] = <<a.regions[k].id, a.regions[k].used>>
      BY <1>6, <1>7, <3>2
    <3>4. point.chain[last] = <<point.head, point.used>>
      BY <1>6, <1>7, <2>1
    <3> QED BY <1>2, <1>7, <1>9, <2>1, <2>2, <3>1, <3>3, <3>4 DEF Remembered
  <2>5. ASSUME NEW i \in DOMAIN t.snapshots, NEW j \in DOMAIN t.snapshots, i < j
        PROVE  Len(t.snapshots[i].chain) <= Len(t.snapshots[j].chain)
    <3>1. i \in DOMAIN a.snapshots
      BY <1>2, <1>10, <2>5
    <3>2. CASE j = this
      <4>1. Remembered(a, i)
        BY <2>0, <3>1 DEF ChainKept
      <4>2. Len(a.snapshots[i].chain) \in 1 .. last
        BY <1>2, <4>1 DEF Remembered
      <4>3. t.snapshots[i] = a.snapshots[i] /\ Len(t.snapshots[j].chain) = last
        BY <1>6, <1>7, <1>10, <3>1, <3>2
      <4> QED BY <1>2, <4>2, <4>3
    <3>3. CASE j \in DOMAIN a.snapshots
      BY <1>10, <2>0, <2>5, <3>1, <3>3 DEF ChainKept
    <3> QED BY <1>10, <3>2, <3>3
  <2> QED BY <1>10, <2>1, <2>2, <2>3, <2>4, <2>5 DEF Chained
<1> QED BY <1>11, <1>12, <1>13, <1>14 DEF ArenaInv, t

(* The regions that restore() keeps: those down to the snapshot's, which   *)
(* is filled as it was; none, if the snapshot's has been lost.             *)
LEMMA RestoreParts ==
    ASSUME NEW a, ArenaInv(a), a.snapshots # <<>>
    PROVE  LET t     == Restore(a)
               n     == Len(a.snapshots)
               point == a.snapshots[n]
           IN  /\ t \in ArenaState
               /\ t.snapshots = SubSeq(a.snapshots, 1, n - 1)
               /\ t.blocks = {b \in a.blocks : b.depth < n}
               /\ t.next = a.next /\ t.null = a.null /\ t.refused = a.refused
               /\ \E m \in 0 .. Len(a.regions) :
                      /\ DOMAIN t.regions = 1 .. m /\ Len(t.regions) = m
                      /\ m # 0 => /\ a.regions[m].id = point.head
                                  /\ t.regions[m] = [a.regions[m] EXCEPT !.used = point.used]
                      /\ m = 0 => \A k \in DOMAIN a.regions : a.regions[k].id # point.head
                      /\ \A k \in 1 .. (m - 1) : t.regions[k] = a.regions[k]
<1> DEFINE t     == Restore(a)
           n     == Len(a.snapshots)
           point == a.snapshots[n]
           kept  == {k \in DOMAIN a.regions : \E j \in k .. Len(a.regions) : a.regions[j].id = point.head}
           Kept(k) == IF a.regions[k].id = point.head
                      THEN [a.regions[k] EXCEPT !.used = point.used] ELSE a.regions[k]
           chain == [k \in kept |-> Kept(k)]
<1>1. a \in ArenaState
  BY DEF ArenaInv
<1>2. /\ Len(a.regions) \in Nat /\ DOMAIN a.regions = 1 .. Len(a.regions)
      /\ a.snapshots \in Seq(Snapshot) /\ n \in Nat /\ n \in DOMAIN a.snapshots
      /\ \A k \in DOMAIN a.regions : a.regions[k] \in Region
  BY <1>1, RegionTypes, OtherTypes
<1>3. point.used \in Nat
  BY <1>1, <1>2, OtherTypes
<1>4. t = [a EXCEPT !.regions = chain, !.snapshots = SubSeq(a.snapshots, 1, n - 1),
                    !.blocks = {b \in a.blocks : b.depth < n}]
  BY <1>1 DEF Restore, ArenaState
<1>5. \E m \in 0 .. Len(a.regions) :
          /\ kept = 1 .. m
          /\ m # 0 => a.regions[m].id = point.head
          /\ m = 0 => \A k \in DOMAIN a.regions : a.regions[k].id # point.head
  <2>1. CASE \E m \in DOMAIN a.regions : a.regions[m].id = point.head
    <3>1. PICK m \in DOMAIN a.regions : a.regions[m].id = point.head
      BY <2>1
    <3>2. \A j \in DOMAIN a.regions : a.regions[j].id = point.head => j = m
      BY <1>1, <3>1, IdsDiffer DEF ArenaInv
    <3>3. \A k \in DOMAIN a.regions : \A j \in k .. Len(a.regions) : j \in DOMAIN a.regions
      BY <1>2
    <3>4. \A k \in DOMAIN a.regions : k \in kept <=> k <= m
      BY <1>2, <3>1, <3>2, <3>3
    <3>5. kept = 1 .. m
      BY <1>2, <3>1, <3>4
    <3>6. m \in 0 .. Len(a.regions) /\ m # 0
      BY <1>2, <3>1
    <3> QED BY <3>1, <3>5, <3>6
  <2>2. CASE ~\E m \in DOMAIN a.regions : a.regions[m].id = point.head
    <3>1. \A k \in DOMAIN a.regions : \A j \in k .. Len(a.regions) : j \in DOMAIN a.regions
      BY <1>2
    <3>2. kept = {}
      BY <2>2, <3>1
    <3>3. 0 \in 0 .. Len(a.regions) /\ 1 .. 0 = {}
      BY <1>2
    <3> QED BY <2>2, <3>2, <3>3
  <2> QED BY <2>1, <2>2
<1>6. PICK m \in 0 .. Len(a.regions) :
          /\ kept = 1 .. m
          /\ m # 0 => a.regions[m].id = point.head
          /\ m = 0 => \A k \in DOMAIN a.regions : a.regions[k].id # point.head
  BY <1>5
<1> HIDE DEF t, kept, point, n
<1>7. m \in Nat /\ \A k \in 1 .. m : k \in DOMAIN a.regions
  BY <1>2, <1>6
<1>8. \A k \in 1 .. m : Kept(k) \in Region
  BY <1>2, <1>3, <1>7 DEF Region
<1> HIDE DEF Kept
<1>9. chain = [k \in 1 .. m |-> Kept(k)] /\ chain \in Seq(Region) /\ Len(chain) = m
  BY <1>6, <1>7, <1>8
<1>10. \A k \in 1 .. (m - 1) : chain[k] = a.regions[k]
  <2> SUFFICES ASSUME NEW k \in 1 .. (m - 1)
               PROVE  chain[k] = a.regions[k]
    OBVIOUS
  <2>1. k \in 1 .. m /\ m \in 1 .. m /\ k # m /\ m # 0
    BY <1>7
  <2>2. a.regions[k].id # point.head
    BY <1>1, <1>6, <1>7, <2>1, IdsDiffer DEF ArenaInv
  <2> QED BY <1>9, <2>1, <2>2 DEF Kept
<1>11. m # 0 => chain[m] = [a.regions[m] EXCEPT !.used = point.used]
  BY <1>6, <1>7, <1>9 DEF Kept
<1>12. SubSeq(a.snapshots, 1, n - 1) \in Seq(Snapshot)
  BY <1>2 DEF n
<1>13. {b \in a.blocks : b.depth < n} \in SUBSET MemoryBlock
  BY <1>1 DEF ArenaState
<1> HIDE DEF chain
<1>14. t \in ArenaState
  BY <1>1, <1>4, <1>9, <1>12, <1>13 DEF ArenaState
<1>15. /\ t.regions = chain /\ t.snapshots = SubSeq(a.snapshots, 1, n - 1)
       /\ t.blocks = {b \in a.blocks : b.depth < n}
       /\ t.next = a.next /\ t.null = a.null /\ t.refused = a.refused
  BY <1>1, <1>4 DEF ArenaState
<1>16. /\ DOMAIN t.regions = 1 .. m /\ Len(t.regions) = m
       /\ m # 0 => /\ a.regions[m].id = point.head
                   /\ t.regions[m] = [a.regions[m] EXCEPT !.used = point.used]
       /\ m = 0 => \A k \in DOMAIN a.regions : a.regions[k].id # point.head
       /\ \A k \in 1 .. (m - 1) : t.regions[k] = a.regions[k]
  BY <1>6, <1>9, <1>10, <1>11, <1>15
<1> QED BY <1>14, <1>15, <1>16 DEF t, n, point

(* Popping a frame keeps the invariant and, as long as no region has been  *)
(* refused, gives the arena back as the frame found it.                    *)
LEMMA RestoreKeeps ==
    ASSUME NEW a, ArenaInv(a), a.snapshots # <<>>
    PROVE  LET t == Restore(a)
           IN  /\ ArenaInv(t)
               /\ ~a.refused =>
                      [k \in DOMAIN t.regions |-> <<t.regions[k].id, t.regions[k].used>>]
                          = LastOf(a.snapshots).chain
<1> DEFINE t     == Restore(a)
           n     == Len(a.snapshots)
           point == a.snapshots[n]
           chain == [k \in DOMAIN t.regions |-> <<t.regions[k].id, t.regions[k].used>>]
<1>1. a \in ArenaState /\ t \in ArenaState
  BY RestoreParts DEF ArenaInv
<1>2. PICK m \in 0 .. Len(a.regions) :
          /\ DOMAIN t.regions = 1 .. m /\ Len(t.regions) = m
          /\ m # 0 => /\ a.regions[m].id = point.head
                      /\ t.regions[m] = [a.regions[m] EXCEPT !.used = point.used]
          /\ m = 0 => \A k \in DOMAIN a.regions : a.regions[k].id # point.head
          /\ \A k \in 1 .. (m - 1) : t.regions[k] = a.regions[k]
  BY RestoreParts
<1>3. /\ t.snapshots = SubSeq(a.snapshots, 1, n - 1)
      /\ t.blocks = {b \in a.blocks : b.depth < n}
      /\ t.next = a.next /\ t.null = a.null /\ t.refused = a.refused
  BY RestoreParts
<1>4. /\ DOMAIN a.regions = 1 .. Len(a.regions) /\ Len(a.regions) \in Nat
      /\ \A k \in DOMAIN a.regions : a.regions[k] \in Region
      /\ a.snapshots \in Seq(Snapshot) /\ n \in Nat /\ DOMAIN a.snapshots = 1 .. n /\ n \in 1 .. n
  BY <1>1, RegionTypes, OtherTypes
<1> HIDE DEF t
<1>5. /\ DOMAIN t.snapshots = 1 .. (n - 1)
      /\ \A i \in 1 .. (n - 1) : /\ i \in DOMAIN a.snapshots /\ i < n
                                 /\ t.snapshots[i] = a.snapshots[i]
  BY <1>3, <1>4
<1>6. \A k \in 1 .. m : k \in DOMAIN a.regions /\ (k = m \/ k \in 1 .. (m - 1))
  BY <1>2, <1>4
<1>7. m # 0 => m \in 1 .. m /\ a.regions[m] \in Region
  BY <1>2, <1>4
<1>8. \A k \in 1 .. m :
          /\ t.regions[k].id = a.regions[k].id /\ t.regions[k].size = a.regions[k].size
          /\ t.regions[k].committed = a.regions[k].committed /\ t.regions[k].open = a.regions[k].open
  <2> SUFFICES ASSUME NEW k \in 1 .. m
               PROVE  /\ t.regions[k].id = a.regions[k].id /\ t.regions[k].size = a.regions[k].size
                      /\ t.regions[k].committed = a.regions[k].committed
                      /\ t.regions[k].open = a.regions[k].open
    OBVIOUS
  <2>1. CASE k = m
    <3>1. m # 0
      BY <2>1
    <3> QED BY <1>2, <1>7, <2>1, <3>1 DEF Region
  <2>2. CASE k \in 1 .. (m - 1)
    BY <1>2, <2>2
  <2> QED BY <1>6, <2>1, <2>2
<1>9. m # 0 => t.regions[m].used = point.used
  BY <1>2, <1>7 DEF Region
<1>10. SnapshotFits(a, n)
  BY <1>4 DEF ArenaInv, SnapshotsFit
<1>11. RegionsSound(t)
  <2> SUFFICES ASSUME NEW k \in 1 .. m
               PROVE  RegionSound(t.regions[k])
    BY <1>2 DEF RegionsSound
  <2>1. RegionSound(a.regions[k])
    BY <1>6 DEF ArenaInv, RegionsSound
  <2>2. CASE k = m
    <3>1. m # 0
      BY <2>2
    <3>2. HeaderSize <= point.used /\ point.used <= a.regions[m].size
      BY <1>2, <1>6, <1>10, <2>2, <3>1 DEF SnapshotFits
    <3> QED BY <1>8, <1>9, <2>1, <2>2, <3>1, <3>2 DEF RegionSound
  <2>3. CASE k \in 1 .. (m - 1)
    BY <1>2, <2>1, <2>3
  <2> QED BY <1>6, <2>2, <2>3
<1>12. IdsGrow(t)
  BY <1>2, <1>3, <1>6, <1>8 DEF ArenaInv, IdsGrow
<1>13. BlocksLie(t)
  <2> SUFFICES ASSUME NEW b \in a.blocks, b.depth < n
               PROVE  /\ b.region < a.next
                      /\ \A k \in 1 .. m : t.regions[k].id = b.region => LiesIn(b, t.regions[k])
    BY <1>2, <1>3 DEF BlocksLie
  <2>1. b.region < a.next
    BY DEF ArenaInv, BlocksLie
  <2>2. ASSUME NEW k \in 1 .. m, t.regions[k].id = b.region
        PROVE  LiesIn(b, t.regions[k])
    <3>1. LiesIn(b, a.regions[k])
      BY <1>6, <1>8, <2>2 DEF ArenaInv, BlocksLie
    <3>2. CASE k = m
      <4>1. m # 0
        BY <3>2
      <4>2. b.region = point.head
        BY <1>2, <1>8, <2>2, <3>2, <4>1
      <4>3. b.from + b.size <= point.used
        BY <1>10, <4>2 DEF SnapshotFits
      <4> QED BY <1>8, <1>9, <3>1, <3>2, <4>1, <4>3 DEF LiesIn
    <3>3. CASE k \in 1 .. (m - 1)
      BY <1>2, <3>1, <3>3
    <3> QED BY <1>6, <3>2, <3>3
  <2> QED BY <2>1, <2>2
<1>14. BlocksApart(t) /\ NullsExplained(t)
  BY <1>3 DEF ArenaInv, BlocksApart, NullsExplained
<1>15. SnapshotsFit(t)
  <2> SUFFICES ASSUME NEW i \in 1 .. (n - 1)
               PROVE  SnapshotFits(t, i)
    BY <1>5 DEF SnapshotsFit
  <2>1. SnapshotFits(a, i)
    BY <1>5 DEF ArenaInv, SnapshotsFit
  <2> QED BY <1>2, <1>3, <1>5, <1>6, <1>8, <2>1 DEF SnapshotFits
<1>16. ~a.refused => /\ ChainKept(a) /\ Remembered(a, n)
                     /\ m = Len(point.chain) /\ m # 0
  <2> SUFFICES ASSUME ~a.refused
               PROVE  /\ ChainKept(a) /\ Remembered(a, n)
                      /\ m = Len(point.chain) /\ m # 0
    OBVIOUS
  <2>1. ChainKept(a) /\ Remembered(a, n)
    BY <1>4 DEF ArenaInv, ChainKept
  <2>2. Len(point.chain) \in DOMAIN a.regions /\ a.regions[Len(point.chain)].id = point.head
    BY <2>1 DEF Remembered
  <2>3. m # 0
    BY <1>2, <2>2
  <2>4. m \in DOMAIN a.regions /\ a.regions[m].id = point.head
    BY <1>2, <1>6, <1>7, <2>3
  <2> QED BY <1>1, <2>1, <2>2, <2>3, <2>4, IdsDiffer DEF ArenaInv
<1>17. ChainKept(t)
  <2> SUFFICES ASSUME ~a.refused
               PROVE  /\ t.regions # <<>>
                      /\ \A b \in t.blocks : \E k \in DOMAIN t.regions : t.regions[k].id = b.region
                      /\ \A i \in DOMAIN t.snapshots : Remembered(t, i)
                      /\ \A i, j \in DOMAIN t.snapshots :
                             i < j => Len(t.snapshots[i].chain) <= Len(t.snapshots[j].chain)
    BY <1>3 DEF ChainKept
  <2>1. t.regions # <<>>
    BY <1>2, <1>16
  <2>2. \A b \in t.blocks : \E k \in DOMAIN t.regions : t.regions[k].id = b.region
    <3>1. \A b \in a.blocks : b.depth < n => \E k \in 1 .. m : a.regions[k].id = b.region
      BY <1>16 DEF Remembered
    <3> QED BY <1>2, <1>3, <1>8, <3>1
  <2>3. ASSUME NEW i \in 1 .. (n - 1)
        PROVE  Remembered(t, i)
    <3> DEFINE p == a.snapshots[i]
               l == Len(p.chain)
    <3>1. i \in DOMAIN a.snapshots /\ n \in DOMAIN a.snapshots /\ i < n /\ t.snapshots[i] = p
      BY <1>4, <1>5
    <3>2. Remembered(a, i) /\ l <= m
      BY <1>16, <3>1 DEF ChainKept
    <3>3. l \in 1 .. m
      BY <1>2, <1>4, <3>2 DEF Remembered
    <3>4. \A k \in 1 .. l : k \in 1 .. m
      BY <1>2, <3>3
    <3>5. \A k \in 1 .. (l - 1) : k \in 1 .. (m - 1)
      BY <1>2, <3>3
    <3>6. /\ a.regions[l].id = p.head /\ p.chain[l] = <<p.head, p.used>>
          /\ \A k \in 1 .. (l - 1) : p.chain[k] = <<a.regions[k].id, a.regions[k].used>>
          /\ \A b \in a.blocks : b.depth < i => \E k \in 1 .. l : a.regions[k].id = b.region
      BY <3>2 DEF Remembered
    <3> HIDE DEF p
    <3> HIDE DEF l
    <3>7. t.regions[l].id = p.head
      BY <1>8, <3>3, <3>6
    <3>8. \A k \in 1 .. (l - 1) : p.chain[k] = <<t.regions[k].id, t.regions[k].used>>
      BY <1>2, <3>5, <3>6
    <3>9. \A b \in t.blocks : b.depth < i => \E k \in 1 .. l : t.regions[k].id = b.region
      BY <1>3, <1>8, <3>4, <3>6
    <3> QED BY <1>2, <3>1, <3>3, <3>6, <3>7, <3>8, <3>9 DEF Remembered, l
  <2>4. \A i, j \in 1 .. (n - 1) :
            i < j => Len(t.snapshots[i].chain) <= Len(t.snapshots[j].chain)
    BY <1>5, <1>16 DEF ChainKept
  <2> QED BY <1>5, <2>1, <2>2, <2>3, <2>4
<1>18. ASSUME ~a.refused
       PROVE  chain = LastOf(a.snapshots).chain
  <2>1. LastOf(a.snapshots) = point
    BY DEF LastOf
  <2>2. point.chain \in Seq(Nat \X Nat)
    BY <1>1, <1>4, OtherTypes
  <2>3. DOMAIN point.chain = 1 .. m
    BY <1>16, <1>18, <2>2
  <2>4. /\ point.chain[m] = <<point.head, point.used>>
        /\ \A k \in 1 .. (m - 1) : point.chain[k] = <<a.regions[k].id, a.regions[k].used>>
    BY <1>16, <1>18 DEF Remembered
  <2>5. \A k \in 1 .. m : point.chain[k] = <<t.regions[k].id, t.regions[k].used>>
    BY <1>2, <1>6, <1>8, <1>9, <1>16, <1>18, <2>4
  <2>6. point.chain = [k \in 1 .. m |-> point.chain[k]]
    BY <2>2, <2>3
  <2> HIDE DEF point
  <2>7. [k \in 1 .. m |-> point.chain[k]] = [k \in 1 .. m |-> <<t.regions[k].id, t.regions[k].used>>]
    BY <2>5
  <2> QED BY <1>2, <2>1, <2>6, <2>7
<1> QED BY <1>1, <1>11, <1>12, <1>13, <1>14, <1>15, <1>17, <1>18 DEF ArenaInv, t

-----------------------------------------------------------------------------
(* The specification                                                       *)

LEMMA NewArenaKeeps ==
    ASSUME NEW preCommit \in BOOLEAN
    PROVE  ArenaInv(NewArena(preCommit))
<1> DEFINE a == NewArena(preCommit)
           r == NewRegion(1, MinRegionSize, preCommit)
<1>1. MinRegionSize \in Nat \ {0}
  BY ArenaAssumption
<1>2. r \in Region /\ RegionSound(r) /\ r.id = 1
  BY <1>1, NewRegionSound
<1>3. a = [preCommit |-> preCommit, regions |-> <<r>>, next |-> 2, snapshots |-> <<>>,
           blocks |-> {}, null |-> {}, refused |-> FALSE]
  BY DEF NewArena
<1> HIDE DEF a, r
<1>4. <<r>> \in Seq(Region) /\ DOMAIN <<r>> = {1} /\ <<r>>[1] = r /\ <<r>> # <<>>
  BY <1>2
<1>5. <<>> \in Seq(Snapshot) /\ DOMAIN <<>> = {}
  OBVIOUS
<1>6. a \in ArenaState
  BY <1>3, <1>4, <1>5 DEF ArenaState
<1>7. RegionsSound(a) /\ IdsGrow(a)
  BY <1>2, <1>3, <1>4 DEF RegionsSound, IdsGrow
<1>8. BlocksLie(a) /\ BlocksApart(a) /\ NullsExplained(a)
  BY <1>3 DEF BlocksLie, BlocksApart, NullsExplained
<1>9. SnapshotsFit(a)
  BY <1>3, <1>5 DEF SnapshotsFit
<1>10. ChainKept(a)
  BY <1>3, <1>4, <1>5 DEF ChainKept
<1> QED BY <1>6, <1>7, <1>8, <1>9, <1>10 DEF ArenaInv, a

(* What the specification keeps: in a behaviour about arenas the invariant *)
(* of the arena.                                                           *)
ArenaIInv == problem.kind = "arena" => ArenaInv(arena)

LEMMA InitSound == AllInit => ArenaIInv
<1> SUFFICES ASSUME AllInit, problem.kind = "arena"
             PROVE  ArenaInv(arena)
  BY DEF ArenaIInv
<1>1. \A p \in Problem : p.kind # "arena"
  BY DEF Problem
<1>2. PICK preCommit \in BOOLEAN : arena = NewArena(preCommit)
  BY <1>1 DEF AllInit
<1> QED BY <1>2, NewArenaKeeps

LEMMA NextSound == ArenaIInv /\ [AllNext]_<<vars, problem, arena>> => ArenaIInv'
<1> SUFFICES ASSUME ArenaIInv, [AllNext]_<<vars, problem, arena>>
             PROVE  ArenaIInv'
  OBVIOUS
<1>1. CASE UNCHANGED <<problem, arena>>
  BY <1>1 DEF ArenaIInv
<1>2. CASE ArenaNext
  <2>1. problem.kind = "arena" /\ UNCHANGED problem /\ ArenaInv(arena)
    BY <1>2 DEF ArenaNext, ArenaIInv
  <2>2. CASE AllocateSome
    <3>1. PICK size \in Requests, commits \in BOOLEAN, reserves \in BOOLEAN :
              arena' = Allocate(arena, size, commits, reserves)
      BY <2>2 DEF AllocateSome
    <3>2. size \in Nat
      BY RequestsAssumption
    <3> QED BY <2>1, <3>1, <3>2, AllocateKeeps DEF ArenaIInv
  <2>3. CASE PushSnapshot
    BY <2>1, <2>3, TakeSnapshotKeeps DEF PushSnapshot, ArenaIInv
  <2>4. CASE PopSnapshot
    BY <2>1, <2>4, RestoreKeeps DEF PopSnapshot, ArenaIInv
  <2> QED BY <1>2, <2>2, <2>3, <2>4 DEF ArenaNext
<1> QED BY <1>1, <1>2 DEF AllNext

THEOREM ArenaInvariance == AllSpec => []ArenaIInv
<1> QED BY InitSound, NextSound, PTL DEF AllSpec

THEOREM ArenaIsSound == AllSpec => []ArenaSound
<1>1. ArenaIInv => ArenaSound
  <2> SUFFICES ASSUME ArenaInv(arena)
               PROVE  /\ ~arena.refused =>
                           \A b \in arena.blocks :
                               \E k \in DOMAIN arena.regions : LiesIn(b, arena.regions[k])
                      /\ BlocksApart(arena)
                      /\ NullsExplained(arena)
    BY DEF ArenaIInv, ArenaSound, BlocksApart, NullsExplained
  <2>1. ASSUME ~arena.refused, NEW b \in arena.blocks
        PROVE  \E k \in DOMAIN arena.regions : LiesIn(b, arena.regions[k])
    BY <2>1 DEF ArenaInv, ChainKept, BlocksLie
  <2> QED BY <2>1 DEF ArenaInv
<1> QED BY <1>1, ArenaInvariance, PTL

(* Only a pop takes a snapshot away.                                       *)
LEMMA OnlyPopForgets ==
    ASSUME NEW a, ArenaInv(a)
    PROVE  /\ Len(TakeSnapshot(a).snapshots) > Len(a.snapshots)
           /\ \A size \in Nat : \A commits, reserves \in BOOLEAN :
                  Allocate(a, size, commits, reserves).snapshots = a.snapshots
<1>1. a \in ArenaState /\ a.snapshots \in Seq(Snapshot)
  BY DEF ArenaInv, ArenaState
<1>2. Len(TakeSnapshot(a).snapshots) > Len(a.snapshots)
  BY <1>1 DEF TakeSnapshot, ArenaState
<1>3. ASSUME NEW size \in Nat, NEW commits \in BOOLEAN, NEW reserves \in BOOLEAN
      PROVE  Allocate(a, size, commits, reserves).snapshots = a.snapshots
  <2>1. ASSUME NEW b, ArenaInv(b), NEW n \in Nat
        PROVE  b.regions # <<>> => TakeFrom(b, n).snapshots = b.snapshots
    <3>1. b \in ArenaState
      BY <2>1 DEF ArenaInv
    <3> SUFFICES ASSUME b.regions # <<>>
                 PROVE  TakeFrom(b, n).snapshots = b.snapshots
      OBVIOUS
    <3> DEFINE regions == [b.regions EXCEPT ![Len(b.regions)] = Bump(Current(b), n)]
               blocks  == b.blocks \union {Block(Current(b), n, Len(b.snapshots))}
    <3>2. TakeFrom(b, n) = [b EXCEPT !.regions = regions, !.blocks = blocks]
      BY <3>1, TakeFromParts
    <3> HIDE DEF regions, blocks
    <3> QED BY <3>1, <3>2 DEF ArenaState
  <2>2. ArenaInv(Grow(a, size)) /\ Chained(Grow(a, size)) /\ Grow(a, size).snapshots = a.snapshots
    BY <1>1, GrowKeeps DEF Grow, ArenaState
  <2>3. RoundUp(size, Granule) \in Nat
    BY HeaderFits, RoundBounds
  <2>4. \A b : ArenaInv(b) => Fail(b, size).snapshots = b.snapshots
    BY DEF Fail, ArenaInv, ArenaState
  <2>5. Retry(Grow(a, size), size, RoundUp(size, Granule), commits).snapshots = a.snapshots
    BY <2>1, <2>2, <2>3, <2>4 DEF Retry, Chained
  <2> QED BY <2>1, <2>3, <2>5, RefuseKeeps DEF Allocate, Chained
<1> QED BY <1>2, <1>3

THEOREM PopsRestore == AllSpec => RestoreUndoes
<1> DEFINE Undone == problem.kind = "arena" /\ ~arena.refused
                     /\ Len(arena'.snapshots) < Len(arena.snapshots) =>
              [k \in DOMAIN arena'.regions |-> <<arena'.regions[k].id, arena'.regions[k].used>>]
                  = LastOf(arena.snapshots).chain
<1>1. ArenaIInv /\ [AllNext]_<<vars, problem, arena>> => [Undone]_<<vars, problem, arena>>
  <2> SUFFICES ASSUME ArenaIInv, AllNext, problem.kind = "arena", ~arena.refused,
                      Len(arena'.snapshots) < Len(arena.snapshots)
               PROVE  [k \in DOMAIN arena'.regions |-> <<arena'.regions[k].id, arena'.regions[k].used>>]
                          = LastOf(arena.snapshots).chain
    OBVIOUS
  <2>1. ArenaInv(arena) /\ Len(arena.snapshots) \in Nat
    BY OtherTypes DEF ArenaIInv, ArenaInv
  <2>2. arena'.snapshots # arena.snapshots /\ arena' # arena /\ arena' # TakeSnapshot(arena)
    BY <2>1, OnlyPopForgets, TakeSnapshotKeeps, OtherTypes DEF ArenaInv
  <2>3. ~AllocateSome
    <3> SUFFICES ASSUME AllocateSome PROVE FALSE
      OBVIOUS
    <3>1. PICK size \in Requests, commits \in BOOLEAN, reserves \in BOOLEAN :
              arena' = Allocate(arena, size, commits, reserves)
      BY DEF AllocateSome
    <3>2. size \in Nat
      BY RequestsAssumption
    <3> QED BY <2>1, <2>2, <3>1, <3>2, OnlyPopForgets
  <2>4. PopSnapshot
    BY <2>2, <2>3 DEF AllNext, ArenaNext, PushSnapshot
  <2> QED BY <2>1, <2>4, RestoreKeeps DEF PopSnapshot
<1> QED BY <1>1, ArenaInvariance, PTL DEF AllSpec, RestoreUndoes

-----------------------------------------------------------------------------
(* The command line: values and options pair off, the loop that reads them *)
(* keeps what it has read so far right, and comes to the end.              *)

(* The first argument is no value.                                         *)
LEMMA FirstIsNoValue == \A argv : ~IsValue(argv, 1)
<1>1. 1 .. (1 - 1) = {}
  OBVIOUS
<1> QED BY <1>1 DEF IsValue

(* Whether an argument is a value depends on the one in front of it.       *)
LEMMA ValuesPairOff ==
    ASSUME NEW argv, NEW k \in Nat \ {0}
    PROVE  IsValue(argv, k + 1) <=> Hungry(argv[k]) /\ ~IsValue(argv, k)
<1>1. ASSUME IsValue(argv, k + 1)
      PROVE  Hungry(argv[k]) /\ ~IsValue(argv, k)
  <2>1. PICK n \in 1 .. k : /\ n % 2 = 1
                            /\ \A j \in (k + 1 - n) .. k : Hungry(argv[j])
                            /\ k + 1 - n = 1 \/ ~Hungry(argv[k - n])
    <3>1. (k + 1) - 1 = k /\ \A n \in 1 .. k : (k + 1) - n - 1 = k - n
      OBVIOUS
    <3> QED BY <1>1, <3>1 DEF IsValue
  <2>2. Hungry(argv[k])
    BY <2>1
  <2>3. ASSUME IsValue(argv, k)
        PROVE  FALSE
    <3>1. PICK m \in 1 .. (k - 1) : /\ m % 2 = 1
                                    /\ \A j \in (k - m) .. (k - 1) : Hungry(argv[j])
                                    /\ k - m = 1 \/ ~Hungry(argv[k - m - 1])
      BY <2>3 DEF IsValue
    <3>2. m # n - 1
      BY <2>1, <3>1
    <3>3. CASE m < n - 1
      <4>1. k - m - 1 \in (k + 1 - n) .. k /\ k - m # 1
        BY <2>1, <3>1, <3>3
      <4> QED BY <2>1, <3>1, <4>1
    <3>4. CASE m > n - 1
      <4>1. k - n \in (k - m) .. (k - 1) /\ k + 1 - n # 1
        BY <2>1, <3>1, <3>4
      <4> QED BY <2>1, <3>1, <4>1
    <3> QED BY <2>1, <3>1, <3>2, <3>3, <3>4
  <2> QED BY <2>2, <2>3
<1>2. ASSUME Hungry(argv[k]), ~IsValue(argv, k)
      PROVE  IsValue(argv, k + 1)
  <2> DEFINE T == {m \in 1 .. k : \A j \in m .. k : Hungry(argv[j])}
  <2>1. T \subseteq Nat /\ k \in T
    <3>1. \A j \in k .. k : j = k
      OBVIOUS
    <3> QED BY <1>2, <3>1
  <2>2. PICK m \in T : \A n \in T : m <= n
    <3> HIDE DEF T
    <3> QED BY <2>1, LeastNatural
  <2>3. m \in 1 .. k /\ \A j \in m .. k : Hungry(argv[j])
    OBVIOUS
  <2>4. m = 1 \/ ~Hungry(argv[m - 1])
    <3> SUFFICES ASSUME m # 1, Hungry(argv[m - 1]) PROVE FALSE
      OBVIOUS
    <3>1. m - 1 \in 1 .. k /\ \A j \in (m - 1) .. k : j = m - 1 \/ j \in m .. k
      BY <2>3
    <3>2. m - 1 \in T
      BY <2>3, <3>1
    <3> QED BY <2>2, <2>3, <3>2
  <2> HIDE DEF T
  <2>5. CASE (k + 1 - m) % 2 = 1
    <3> DEFINE n == k + 1 - m
    <3>1. n \in 1 .. ((k + 1) - 1) /\ (k + 1) - n = m /\ (k + 1) - n - 1 = m - 1 /\ (k + 1) - 1 = k
      BY <2>3
    <3>2. /\ n % 2 = 1
          /\ \A j \in ((k + 1) - n) .. ((k + 1) - 1) : Hungry(argv[j])
          /\ (k + 1) - n = 1 \/ ~Hungry(argv[(k + 1) - n - 1])
      BY <2>3, <2>4, <2>5, <3>1
    <3> HIDE DEF n
    <3> QED BY <3>1, <3>2 DEF IsValue
  <2>6. CASE (k + 1 - m) % 2 # 1
    <3> DEFINE n == k - m
    <3>1. n % 2 = 1 /\ n \in 1 .. (k - 1)
      BY <2>3, <2>6
    <3>2. k - n = m /\ k - n - 1 = m - 1
      BY <2>3
    <3>3. \A j \in (k - n) .. (k - 1) : j \in m .. k
      BY <2>3
    <3>4. /\ \A j \in (k - n) .. (k - 1) : Hungry(argv[j])
          /\ k - n = 1 \/ ~Hungry(argv[k - n - 1])
      BY <2>3, <2>4, <3>2, <3>3
    <3> HIDE DEF n
    <3>5. IsValue(argv, k)
      BY <3>1, <3>4 DEF IsValue
    <3> QED BY <1>2, <3>5
  <2> QED BY <2>5, <2>6
<1> QED BY <1>1, <1>2

(* The recursion that stands for the loop over the arguments.              *)
ReadNext(argv, o) ==
    IF o.status # "ok" \/ o.at > Len(argv) THEN o ELSE ParseArgument(argv, o)

LEMMA ParseLoop ==
    ASSUME NEW argv, Len(argv) \in Nat
    PROVE  \E g : /\ ParseCommandLine(argv) = g[Len(argv)]
                  /\ g[0] = NoOptions
                  /\ \A n \in 0 .. (Len(argv) - 1) : g[n + 1] = ReadNext(argv, g[n])
<1> DEFINE L == Len(argv)
           Upto(m, g) == g = [n \in 0 .. m |-> IF n = 0 THEN NoOptions
                                               ELSE ReadNext(argv, g[n - 1])]
           S == {m \in Nat : \E g : Upto(m, g)}
<1>1. 0 \in S
  <2>1. Upto(0, [n \in 0 .. 0 |-> NoOptions])
    OBVIOUS
  <2> QED BY <2>1
<1>2. ASSUME NEW m \in Nat, m \in S
      PROVE  m + 1 \in S
  <2>1. PICK h : Upto(m, h)
    BY <1>2
  <2> DEFINE g == [n \in 0 .. (m + 1) |-> IF n = 0 THEN NoOptions ELSE ReadNext(argv, h[n - 1])]
  <2>2. \A n \in 0 .. m : n \in 0 .. (m + 1) /\ g[n] = h[n]
    BY <2>1
  <2>3. \A n \in 0 .. (m + 1) : n # 0 => n - 1 \in 0 .. m
    OBVIOUS
  <2>4. g = [n \in 0 .. (m + 1) |-> IF n = 0 THEN NoOptions ELSE ReadNext(argv, g[n - 1])]
    <3>1. \A n \in 0 .. (m + 1) : n # 0 => g[n - 1] = h[n - 1]
      BY <2>2, <2>3
    <3> DEFINE G == g
    <3>2. \A n \in 0 .. (m + 1) : n # 0 => G[n - 1] = h[n - 1]
      BY <3>1
    <3> HIDE DEF G
    <3>3. g = [n \in 0 .. (m + 1) |-> IF n = 0 THEN NoOptions ELSE ReadNext(argv, G[n - 1])]
      BY <3>2
    <3> QED BY <3>3 DEF G
  <2> HIDE DEF g
  <2>5. Upto(m + 1, g)
    BY <2>4
  <2> QED BY <2>5
<1>3. Nat \subseteq S
  <2> HIDE DEF S
  <2> QED BY <1>1, <1>2, Induction
<1> DEFINE g == CHOOSE h : Upto(L, h)
<1>4. Upto(L, g)
  <2> HIDE DEF Upto
  <2> QED BY <1>3
<1>5. ParseCommandLine(argv) = g[L]
  BY DEF ParseCommandLine, ReadNext
<1> HIDE DEF g
<1>6. g[0] = NoOptions
  BY <1>4
<1>7. ASSUME NEW n \in 0 .. (L - 1)
      PROVE  g[n + 1] = ReadNext(argv, g[n])
  <2>1. n + 1 \in 0 .. L /\ n + 1 # 0 /\ (n + 1) - 1 = n
    OBVIOUS
  <2> QED BY <1>4, <2>1
<1> QED BY <1>5, <1>6, <1>7

-----------------------------------------------------------------------------
(* The options read so far.                                                *)
IsOptions(o) ==
    /\ o = [config |-> o.config, module |-> o.module, taken |-> o.taken,
            programArgs |-> o.programArgs, flags |-> o.flags,
            programArgsMode |-> o.programArgsMode, at |-> o.at, status |-> o.status]
    /\ o.status \in {"ok", "failed", "thrown"} /\ o.programArgsMode \in BOOLEAN

SettingsBefore(argv, key, at) == {k \in Settings(argv, key) : k < at}

ConfigRead(argv, o) ==
    \A key \in Key :
        IF SettingsBefore(argv, key, o.at) = {} THEN key \notin DOMAIN o.config
        ELSE /\ key \in DOMAIN o.config
             /\ o.config[key] = ParseValue(key, ValueOf(argv, Max(SettingsBefore(argv, key, o.at))))

WordsBefore(argv, at) == {argv[k] : k \in {j \in OptionsOf(argv) : j < at /\ argv[j].form = "word"}}

WordRead(argv, o) == WordsBefore(argv, o.at) = {o.module} \ {NoValue}

(* Where the loop is: at an argument that is no value, in front of the end *)
(* of the options or behind it.                                            *)
PlaceRight(argv, o) ==
    /\ o.at \in 1 .. (Len(argv) + 1)
    /\ ~o.programArgsMode => /\ o.at <= EndOfOptions(argv)
                             /\ o.at <= Len(argv) => ~IsValue(argv, o.at)
                             /\ o.programArgs = <<>>
    /\ o.programArgsMode => /\ EndOfOptions(argv) < o.at
                            /\ o.programArgs = SubSeq(argv, EndOfOptions(argv) + 1, o.at - 1)

ReadRight(argv, o) ==
    /\ IsOptions(o)
    /\ o.status = "ok" => PlaceRight(argv, o) /\ ConfigRead(argv, o) /\ WordRead(argv, o)

LEMMA EndFacts ==
    ASSUME NEW argv \in Seq(Argument)
    PROVE  /\ EndOfOptions(argv) \in 1 .. (Len(argv) + 1)
           /\ EndOfOptions(argv) <= Len(argv) =>
                  EndOfOptions(argv) \in Separators(argv)
           /\ \A k \in Separators(argv) : EndOfOptions(argv) <= k
           /\ Separators(argv) \subseteq 1 .. Len(argv)
<1>1. Separators(argv) \subseteq 1 .. Len(argv) /\ Len(argv) \in Nat
  BY DEF Separators
<1>2. CASE Separators(argv) = {}
  <2>1. EndOfOptions(argv) = Len(argv) + 1
    BY <1>2 DEF EndOfOptions
  <2> QED BY <1>1, <1>2, <2>1
<1>3. CASE Separators(argv) # {}
  <2>1. EndOfOptions(argv) = Min(Separators(argv))
    BY <1>3 DEF EndOfOptions
  <2>2. Separators(argv) \subseteq Nat
    BY <1>1
  <2>3. /\ EndOfOptions(argv) \in Separators(argv)
        /\ \A n \in Separators(argv) : EndOfOptions(argv) <= n
    BY <1>3, <2>1, <2>2, MinExists
  <2> QED BY <1>1, <2>3
<1> QED BY <1>2, <1>3

(* An argument the loop reads as an option is one, unless it is the -- at  *)
(* the end of the options; and the next the loop comes to is no value.     *)
LEMMA OptionHere ==
    ASSUME NEW argv \in Seq(Argument), NEW o, PlaceRight(argv, o), ~o.programArgsMode,
           o.at <= Len(argv), argv[o.at] # Separator
    PROVE  /\ o.at \in OptionsOf(argv) /\ o.at < EndOfOptions(argv)
           /\ ~Hungry(argv[o.at]) /\ o.at + 1 <= Len(argv) => ~IsValue(argv, o.at + 1)
           /\ Hungry(argv[o.at]) =>
                  /\ o.at + 1 \notin OptionsOf(argv)
                  /\ o.at + 1 <= Len(argv) => o.at + 2 <= EndOfOptions(argv)
                  /\ o.at + 2 <= Len(argv) => ~IsValue(argv, o.at + 2)
<1> DEFINE at == o.at
<1>1. at \in 1 .. Len(argv) /\ Len(argv) \in Nat /\ at <= EndOfOptions(argv) /\ ~IsValue(argv, at)
  BY DEF PlaceRight
<1>2. at \notin Separators(argv)
  BY DEF Separators
<1>3. EndOfOptions(argv) \in 1 .. (Len(argv) + 1) /\ at # EndOfOptions(argv)
  BY <1>1, <1>2, EndFacts
<1> HIDE DEF at
<1>4. at < EndOfOptions(argv) /\ at \in 1 .. (EndOfOptions(argv) - 1)
  BY <1>1, <1>3
<1>5. at \in OptionsOf(argv)
  BY <1>1, <1>4 DEF OptionsOf
<1>6. at \in Nat \ {0} /\ at + 1 \in Nat \ {0} /\ (at + 1) + 1 = at + 2
  BY <1>1
<1>7. ~Hungry(argv[at]) => ~IsValue(argv, at + 1)
  BY <1>6, ValuesPairOff
<1>8. ASSUME Hungry(argv[at])
      PROVE  /\ at + 1 \notin OptionsOf(argv)
             /\ at + 1 <= Len(argv) => at + 2 <= EndOfOptions(argv)
             /\ ~IsValue(argv, at + 2)
  <2>1. IsValue(argv, at + 1)
    BY <1>1, <1>6, <1>8, ValuesPairOff
  <2>2. ~IsValue(argv, at + 2)
    BY <1>6, <2>1, ValuesPairOff
  <2>3. at + 1 \notin OptionsOf(argv) /\ at + 1 \notin Separators(argv)
    BY <2>1 DEF OptionsOf, Separators
  <2>4. at + 1 <= Len(argv) => at + 1 # EndOfOptions(argv)
    BY <2>3, EndFacts
  <2> QED BY <1>1, <1>3, <1>4, <2>2, <2>3, <2>4
<1> QED BY <1>4, <1>5, <1>7, <1>8 DEF at

(* What is read stays as it is when no option is passed.                   *)
LEMMA NothingSet ==
    ASSUME NEW argv \in Seq(Argument), NEW o, NEW p, ConfigRead(argv, o), p.config = o.config,
           \A key \in Key : SettingsBefore(argv, key, p.at) = SettingsBefore(argv, key, o.at)
    PROVE  ConfigRead(argv, p)
<1> QED BY DEF ConfigRead

(* The options between two places of the loop.                             *)
LEMMA SettingsGrow ==
    ASSUME NEW argv \in Seq(Argument), NEW at \in Nat, NEW to \in Nat, at < to,
           \A k \in OptionsOf(argv) : k >= at /\ k < to => k = at
    PROVE  \A key : SettingsBefore(argv, key, to) = SettingsBefore(argv, key, at)
                                           \union (Settings(argv, key) \intersect {at})
<1> SUFFICES ASSUME NEW key
             PROVE  SettingsBefore(argv, key, to) = SettingsBefore(argv, key, at)
                                           \union (Settings(argv, key) \intersect {at})
  OBVIOUS
<1>1. Settings(argv, key) \subseteq OptionsOf(argv) /\ OptionsOf(argv) \subseteq Int
  <2>1. OptionsOf(argv) \subseteq Int
    BY EndFacts DEF OptionsOf
  <2> QED BY <2>1 DEF Settings
<1>2. ASSUME NEW k \in Settings(argv, key)
      PROVE  k < to <=> k < at \/ k = at
  <2>1. k \in Int /\ (k >= at /\ k < to => k = at)
    BY <1>1
  <2> QED BY <2>1
<1> QED BY <1>2 DEF SettingsBefore

LEMMA OneSet ==
    ASSUME NEW argv \in Seq(Argument), NEW o, NEW p, ConfigRead(argv, o),
           NEW key \in Key, o.at \in Nat, p.at \in Nat, o.at < p.at,
           o.at \in Settings(argv, key), argv[o.at].key = key,
           \A k \in OptionsOf(argv) : k >= o.at /\ k < p.at => k = o.at,
           p.config = With(o.config, key, ParseValue(key, ValueOf(argv, o.at)))
    PROVE  ConfigRead(argv, p)
<1> DEFINE at    == o.at
           to    == p.at
           value == ParseValue(key, ValueOf(argv, o.at))
<1>0. /\ at \in Nat /\ to \in Nat /\ at < to
      /\ \A k \in OptionsOf(argv) : k >= at /\ k < to => k = at
  OBVIOUS
<1>1. /\ DOMAIN p.config = {key} \union DOMAIN o.config
      /\ p.config[key] = value
      /\ \A x \in DOMAIN o.config : x # key => p.config[x] = o.config[x]
  BY DEF With
<1> HIDE DEF value, at, to
<1>2. ASSUME NEW x \in Key, x # key
      PROVE  SettingsBefore(argv, x, p.at) = SettingsBefore(argv, x, o.at)
  <2>1. o.at \notin Settings(argv, x)
    BY <1>2 DEF Settings
  <2>2. SettingsBefore(argv, x, to) = SettingsBefore(argv, x, at)
                                           \union (Settings(argv, x) \intersect {at})
    BY <1>0, SettingsGrow
  <2> QED BY <2>1, <2>2 DEF at, to
<1>3. /\ SettingsBefore(argv, key, p.at) # {}
      /\ Max(SettingsBefore(argv, key, p.at)) = o.at
  <2> DEFINE T == SettingsBefore(argv, key, p.at)
  <2>1. T = SettingsBefore(argv, key, o.at) \union {o.at}
    <3>1. SettingsBefore(argv, key, to) = SettingsBefore(argv, key, at)
                                           \union (Settings(argv, key) \intersect {at})
      BY <1>0, SettingsGrow
    <3> QED BY <3>1 DEF at, to
  <2>2. \A n \in SettingsBefore(argv, key, o.at) : n \in Int /\ n < o.at
    BY EndFacts DEF SettingsBefore, Settings, OptionsOf
  <2> HIDE DEF T
  <2>3. T \subseteq Int /\ o.at \in T /\ \A n \in T : n <= o.at
    BY <2>1, <2>2
  <2>4. Max(T) = o.at
    BY <2>3, MaxIs
  <2> QED BY <2>3, <2>4 DEF T
<1>4. ASSUME NEW x \in Key
      PROVE  IF SettingsBefore(argv, x, p.at) = {} THEN x \notin DOMAIN p.config
             ELSE /\ x \in DOMAIN p.config
                  /\ p.config[x] = ParseValue(x, ValueOf(argv, Max(SettingsBefore(argv, x, p.at))))
  <2>1. CASE x = key
    BY <1>1, <1>3, <2>1 DEF value
  <2>2. CASE x # key
    <3>1. SettingsBefore(argv, x, p.at) = SettingsBefore(argv, x, o.at)
      BY <1>2, <2>2
    <3>2. IF SettingsBefore(argv, x, o.at) = {} THEN x \notin DOMAIN o.config
          ELSE /\ x \in DOMAIN o.config
               /\ o.config[x] = ParseValue(x, ValueOf(argv, Max(SettingsBefore(argv, x, o.at))))
      BY DEF ConfigRead
    <3> QED BY <1>1, <2>2, <3>1, <3>2
  <2> QED BY <2>1, <2>2
<1> QED BY <1>4 DEF ConfigRead

LEMMA WordsGrow ==
    ASSUME NEW argv \in Seq(Argument), NEW at \in Nat, NEW to \in Nat, at < to,
           \A k \in OptionsOf(argv) : k >= at /\ k < to => k = at
    PROVE  WordsBefore(argv, to) = WordsBefore(argv, at)
               \union (IF at \in OptionsOf(argv) /\ argv[at].form = "word" THEN {argv[at]} ELSE {})
<1>1. \A k \in OptionsOf(argv) : k \in Int
  BY EndFacts DEF OptionsOf
<1>2. ASSUME NEW k \in OptionsOf(argv)
      PROVE  k < to <=> k < at \/ k = at
  BY <1>1
<1> QED BY <1>2 DEF WordsBefore

LEMMA ArgumentForms ==
    ASSUME NEW arg \in Argument
    PROVE  /\ arg.form \in {"word", "key", "flag", "separator"}
           /\ arg.form = "separator" <=> arg = Separator
           /\ arg # NoValue
           /\ arg.form \in {"word", "separator"} => ~Hungry(arg)
<1>1. Separator.form = "separator" /\ NoValue.form = "none"
  BY DEF Separator, NoValue
<1>2. \/ arg.form = "word" \/ arg.form = "key" \/ arg.form = "flag" \/ arg = Separator
  BY DEF Argument, Text
<1> QED BY <1>1, <1>2 DEF Hungry

(* The loop passes an argument, and its value.                             *)
LEMMA Passed ==
    ASSUME NEW argv \in Seq(Argument), NEW o, NEW p, PlaceRight(argv, o), ~o.programArgsMode,
           o.at <= Len(argv), argv[o.at] # Separator,
           p.programArgsMode = o.programArgsMode, p.programArgs = o.programArgs,
           \/ p.at = o.at + 1 /\ (~Hungry(argv[o.at]) \/ o.at = Len(argv))
           \/ p.at = o.at + 2 /\ Hungry(argv[o.at]) /\ o.at < Len(argv)
    PROVE  /\ PlaceRight(argv, p)
           /\ o.at \in Nat /\ p.at \in Nat /\ o.at < p.at
           /\ o.at \in OptionsOf(argv)
           /\ \A k \in OptionsOf(argv) : k >= o.at /\ k < p.at => k = o.at
<1> DEFINE at == o.at
           to == p.at
<1>1. /\ at \in 1 .. Len(argv) /\ Len(argv) \in Nat /\ EndOfOptions(argv) \in 1 .. (Len(argv) + 1)
      /\ \A k \in OptionsOf(argv) : k \in Int
  BY EndFacts DEF PlaceRight, OptionsOf
<1>2. /\ at \in OptionsOf(argv) /\ at < EndOfOptions(argv)
      /\ ~Hungry(argv[at]) /\ at + 1 <= Len(argv) => ~IsValue(argv, at + 1)
      /\ Hungry(argv[at]) =>
             /\ at + 1 \notin OptionsOf(argv)
             /\ at + 1 <= Len(argv) => at + 2 <= EndOfOptions(argv)
             /\ at + 2 <= Len(argv) => ~IsValue(argv, at + 2)
  BY OptionHere
<1>3. /\ to = at + 1 \/ to = at + 2
      /\ to = at + 1 => ~Hungry(argv[at]) \/ at = Len(argv)
      /\ to = at + 2 => Hungry(argv[at]) /\ at < Len(argv)
  BY <1>1
<1> HIDE DEF at, to
<1>4. at \in Nat /\ to \in Nat /\ at < to /\ to \in 1 .. (Len(argv) + 1)
  BY <1>1, <1>3
<1>5. to <= EndOfOptions(argv) /\ (to <= Len(argv) => ~IsValue(argv, to))
  BY <1>1, <1>2, <1>3
<1>6. \A k \in OptionsOf(argv) : k >= at /\ k < to => k = at
  <2>1. \A k \in Int : k >= at /\ k < to => k = at \/ (to = at + 2 /\ k = at + 1)
    BY <1>1, <1>3
  <2> QED BY <1>1, <1>2, <1>3, <2>1
<1>7. PlaceRight(argv, p)
  BY <1>4, <1>5 DEF PlaceRight, to
<1> QED BY <1>2, <1>4, <1>6, <1>7 DEF at, to

(* An argument that is no setting and no word leaves what is read.         *)
LEMMA PassedOver ==
    ASSUME NEW argv \in Seq(Argument), NEW o, NEW p, ReadRight(argv, o), o.status = "ok",
           ~o.programArgsMode, o.at <= Len(argv), argv[o.at] # Separator, IsOptions(p),
           p.programArgsMode = o.programArgsMode, p.programArgs = o.programArgs,
           p.config = o.config, p.module = o.module,
           \/ p.at = o.at + 1 /\ (~Hungry(argv[o.at]) \/ o.at = Len(argv))
           \/ p.at = o.at + 2 /\ Hungry(argv[o.at]) /\ o.at < Len(argv),
           \A key \in Key : o.at \notin Settings(argv, key),
           argv[o.at].form # "word"
    PROVE  ReadRight(argv, p) /\ p.at > o.at
<1> DEFINE at == o.at
           to == p.at
<1>1. /\ PlaceRight(argv, p)
      /\ at \in Nat /\ to \in Nat /\ at < to
      /\ \A k \in OptionsOf(argv) : k >= at /\ k < to => k = at
  BY Passed DEF ReadRight
<1> HIDE DEF at, to
<1>4. /\ at \in Nat /\ to \in Nat /\ at < to
      /\ \A k \in OptionsOf(argv) : k >= at /\ k < to => k = at
  BY <1>1
<1>2. ConfigRead(argv, p)
  <2>1. \A key \in Key : SettingsBefore(argv, key, to) = SettingsBefore(argv, key, at)
    <3>1. \A key : SettingsBefore(argv, key, to) = SettingsBefore(argv, key, at)
                                           \union (Settings(argv, key) \intersect {at})
      BY <1>4, SettingsGrow
    <3> SUFFICES ASSUME NEW key \in Key
                 PROVE  SettingsBefore(argv, key, to) = SettingsBefore(argv, key, at)
      OBVIOUS
    <3>2. at \notin Settings(argv, key)
      BY DEF at
    <3> QED BY <3>1, <3>2
  <2> QED BY <2>1, NothingSet DEF ReadRight, at, to
<1>3. WordRead(argv, p)
  <2>1. WordsBefore(argv, to) = WordsBefore(argv, at)
            \union (IF at \in OptionsOf(argv) /\ argv[at].form = "word" THEN {argv[at]} ELSE {})
    BY <1>4, WordsGrow
  <2>2. argv[at].form # "word"
    BY DEF at
  <2>3. WordsBefore(argv, to) = WordsBefore(argv, at)
    BY <2>1, <2>2
  <2> QED BY <2>3 DEF ReadRight, WordRead, at, to
<1> QED BY <1>1, <1>2, <1>3 DEF ReadRight, at, to

(* A setting is read.                                                      *)
LEMMA PassedSetting ==
    ASSUME NEW argv \in Seq(Argument), NEW o, NEW p, ReadRight(argv, o), o.status = "ok",
           ~o.programArgsMode, o.at <= Len(argv), argv[o.at] # Separator, IsOptions(p),
           p.programArgsMode = o.programArgsMode, p.programArgs = o.programArgs,
           p.module = o.module,
           NEW key \in Key, argv[o.at].form = "key", argv[o.at].key = key,
           p.config = With(o.config, key, ParseValue(key, ValueOf(argv, o.at))),
           \/ p.at = o.at + 1 /\ ~Hungry(argv[o.at])
           \/ p.at = o.at + 2 /\ Hungry(argv[o.at]) /\ o.at < Len(argv)
    PROVE  ReadRight(argv, p) /\ p.at > o.at
<1> DEFINE at == o.at
           to == p.at
<1>1. /\ PlaceRight(argv, p)
      /\ at \in Nat /\ to \in Nat /\ at < to /\ at \in OptionsOf(argv)
      /\ \A k \in OptionsOf(argv) : k >= at /\ k < to => k = at
  BY Passed DEF ReadRight
<1>2. at \in Settings(argv, key)
  BY <1>1 DEF Settings
<1>3. ConfigRead(argv, p)
  BY <1>1, <1>2, OneSet DEF ReadRight
<1> HIDE DEF at, to
<1>4. /\ at \in Nat /\ to \in Nat /\ at < to
      /\ \A k \in OptionsOf(argv) : k >= at /\ k < to => k = at
  BY <1>1
<1>5. WordRead(argv, p)
  <2>1. WordsBefore(argv, to) = WordsBefore(argv, at)
            \union (IF at \in OptionsOf(argv) /\ argv[at].form = "word" THEN {argv[at]} ELSE {})
    BY <1>4, WordsGrow
  <2>2. argv[at].form # "word"
    BY DEF at
  <2>3. WordsBefore(argv, to) = WordsBefore(argv, at)
    BY <2>1, <2>2
  <2> QED BY <2>3 DEF ReadRight, WordRead, at, to
<1> QED BY <1>1, <1>3, <1>5 DEF ReadRight, at, to

(* The word is read.                                                       *)
LEMMA PassedWord ==
    ASSUME NEW argv \in Seq(Argument), NEW o, NEW p, ReadRight(argv, o), o.status = "ok",
           ~o.programArgsMode, o.at <= Len(argv), argv[o.at].form = "word",
           o.module = NoValue, IsOptions(p),
           p.programArgsMode = o.programArgsMode, p.programArgs = o.programArgs,
           p.config = o.config, p.module = argv[o.at], p.at = o.at + 1
    PROVE  ReadRight(argv, p) /\ p.at > o.at
<1> DEFINE at == o.at
           to == p.at
<1>0. at \in 1 .. Len(argv) /\ argv[at] \in Argument
  BY DEF ReadRight, PlaceRight
<1>1. argv[at] # Separator /\ ~Hungry(argv[at]) /\ argv[at] # NoValue /\ argv[at].form # "key"
  BY <1>0, ArgumentForms
<1>2. /\ PlaceRight(argv, p)
      /\ at \in Nat /\ to \in Nat /\ at < to /\ at \in OptionsOf(argv)
      /\ \A k \in OptionsOf(argv) : k >= at /\ k < to => k = at
  BY <1>1, Passed DEF ReadRight
<1> HIDE DEF at, to
<1>3. /\ at \in Nat /\ to \in Nat /\ at < to
      /\ \A k \in OptionsOf(argv) : k >= at /\ k < to => k = at
  BY <1>2
<1>4. ConfigRead(argv, p)
  <2>1. \A key \in Key : SettingsBefore(argv, key, to) = SettingsBefore(argv, key, at)
    <3>1. \A key : SettingsBefore(argv, key, to) = SettingsBefore(argv, key, at)
                                           \union (Settings(argv, key) \intersect {at})
      BY <1>3, SettingsGrow
    <3> SUFFICES ASSUME NEW key \in Key
                 PROVE  SettingsBefore(argv, key, to) = SettingsBefore(argv, key, at)
      OBVIOUS
    <3>2. at \notin Settings(argv, key)
      BY <1>1 DEF Settings
    <3> QED BY <3>1, <3>2
  <2> QED BY <2>1, NothingSet DEF ReadRight, at, to
<1>5. WordRead(argv, p)
  <2>1. WordsBefore(argv, to) = WordsBefore(argv, at)
            \union (IF at \in OptionsOf(argv) /\ argv[at].form = "word" THEN {argv[at]} ELSE {})
    BY <1>3, WordsGrow
  <2>2. argv[at].form = "word"
    BY DEF at
  <2>3. WordsBefore(argv, at) = {o.module} \ {NoValue}
    BY DEF ReadRight, WordRead, at
  <2>4. WordsBefore(argv, to) = {argv[at]}
    BY <1>2, <2>1, <2>2, <2>3
  <2> QED BY <1>1, <2>4 DEF WordRead, at, to
<1> QED BY <1>2, <1>4, <1>5 DEF ReadRight, at, to

(* The end of the options is read.                                         *)
LEMMA PassedSeparator ==
    ASSUME NEW argv \in Seq(Argument), NEW o, NEW p, ReadRight(argv, o), o.status = "ok",
           ~o.programArgsMode, o.at <= Len(argv), argv[o.at] = Separator, IsOptions(p),
           p.programArgsMode, p.programArgs = o.programArgs,
           p.config = o.config, p.module = o.module, p.at = o.at + 1
    PROVE  ReadRight(argv, p) /\ p.at > o.at
<1> DEFINE at == o.at
           to == p.at
<1>1. /\ at \in 1 .. Len(argv) /\ Len(argv) \in Nat /\ at <= EndOfOptions(argv)
      /\ ~IsValue(argv, at) /\ o.programArgs = <<>>
  BY DEF ReadRight, PlaceRight
<1>2. EndOfOptions(argv) = at
  <2>1. at \in Separators(argv)
    BY <1>1 DEF Separators
  <2>2. EndOfOptions(argv) <= at /\ EndOfOptions(argv) \in Nat
    BY <2>1, EndFacts
  <2> QED BY <1>1, <2>2
<1>3. PlaceRight(argv, p)
  <2>1. SubSeq(argv, at + 1, at) = <<>>
    BY <1>1
  <2> QED BY <1>1, <1>2, <2>1 DEF PlaceRight
<1>4. \A k \in OptionsOf(argv) : k \in Int /\ k < at /\ k < to
  BY <1>1, <1>2 DEF OptionsOf
<1> HIDE DEF at, to
<1>5. ConfigRead(argv, p)
  <2>1. \A key \in Key : SettingsBefore(argv, key, to) = SettingsBefore(argv, key, at)
    BY <1>4 DEF SettingsBefore, Settings
  <2> QED BY <2>1, NothingSet DEF ReadRight, at, to
<1>6. WordRead(argv, p)
  <2>1. WordsBefore(argv, to) = WordsBefore(argv, at)
    BY <1>4 DEF WordsBefore
  <2> QED BY <2>1 DEF ReadRight, WordRead, at, to
<1> QED BY <1>1, <1>3, <1>5, <1>6 DEF ReadRight, at, to

(* An argument for the program is read.                                    *)
LEMMA PassedToProgram ==
    ASSUME NEW argv \in Seq(Argument), NEW o, NEW p, ReadRight(argv, o), o.status = "ok",
           o.programArgsMode, o.at <= Len(argv), IsOptions(p),
           p.programArgsMode, p.programArgs = Append(o.programArgs, argv[o.at]),
           p.config = o.config, p.module = o.module, p.at = o.at + 1
    PROVE  ReadRight(argv, p) /\ p.at > o.at
<1> DEFINE at == o.at
           to == p.at
           e  == EndOfOptions(argv)
<1>1. o.programArgs = SubSeq(argv, e + 1, at - 1)
  BY DEF ReadRight, PlaceRight
<1>2. at \in 1 .. Len(argv) /\ Len(argv) \in Nat /\ e < at /\ to = at + 1
  BY DEF ReadRight, PlaceRight
<1>3. e \in Nat \ {0}
  BY EndFacts
<1>4. \A k \in OptionsOf(argv) : k \in Int /\ k < e
  BY <1>3 DEF OptionsOf
<1> HIDE DEF e
<1>5. \A k \in OptionsOf(argv) : k \in Int /\ k < at /\ k < to
  BY <1>2, <1>3, <1>4
<1>6. p.programArgs = SubSeq(argv, e + 1, to - 1)
  <2>1. Append(SubSeq(argv, e + 1, at - 1), argv[at]) = SubSeq(argv, e + 1, at)
    <3>1. at - 1 \in Nat /\ e + 1 <= (at - 1) + 1 /\ at - 1 < Len(argv) /\ (at - 1) + 1 = at
      BY <1>2, <1>3
    <3> DEFINE n == at - 1
    <3>2. n \in Nat /\ e + 1 \in Nat /\ 1 <= e + 1 /\ e + 1 <= n + 1 /\ n < Len(argv) /\ n + 1 = at
      BY <3>1, <1>3
    <3> HIDE DEF n
    <3>3. SubSeq(argv, e + 1, n + 1) = Append(SubSeq(argv, e + 1, n), argv[n + 1])
      BY <3>2, SubSeqGrows
    <3> QED BY <3>2, <3>3 DEF n
  <2>2. to - 1 = at
    <3> at \in Nat /\ to = at + 1
      BY <1>2
    <3> QED OBVIOUS
  <2> QED BY <1>1, <2>1, <2>2
<1>7. PlaceRight(argv, p)
  <2>1. to \in 1 .. (Len(argv) + 1) /\ e < to /\ p.programArgsMode
    BY <1>2, <1>3
  <2> QED BY <1>6, <2>1 DEF PlaceRight, e
<1> HIDE DEF at, to
<1>8. ConfigRead(argv, p)
  <2>1. \A key \in Key : SettingsBefore(argv, key, to) = SettingsBefore(argv, key, at)
    BY <1>5 DEF SettingsBefore, Settings
  <2> QED BY <2>1, NothingSet DEF ReadRight, at, to
<1>9. WordRead(argv, p)
  <2>1. WordsBefore(argv, to) = WordsBefore(argv, at)
    BY <1>5 DEF WordsBefore
  <2> QED BY <2>1 DEF ReadRight, WordRead, at, to
<1> QED BY <1>2, <1>7, <1>8, <1>9 DEF ReadRight, at, to

-----------------------------------------------------------------------------
(* Options whose status is no longer "ok".                                 *)
LEMMA GivenUp ==
    ASSUME NEW argv, NEW o, IsOptions(o), NEW p, NEW n,
           p = Failed(o) \/ p = Skip([o EXCEPT !.status = "thrown"], n)
    PROVE  IsOptions(p) /\ p.status # "ok"
<1>1. CASE p = Failed(o)
  BY <1>1 DEF Failed, IsOptions
<1>2. CASE p = Skip([o EXCEPT !.status = "thrown"], n)
  BY <1>2 DEF Skip, IsOptions
<1> QED BY <1>1, <1>2

LEMMA SkipFields ==
    ASSUME NEW o, IsOptions(o), NEW n
    PROVE  LET p == Skip(o, n)
           IN  /\ IsOptions(p) /\ p.config = o.config /\ p.module = o.module
               /\ p.programArgsMode = o.programArgsMode /\ p.programArgs = o.programArgs
               /\ p.at = o.at + n /\ p.status = o.status
<1> QED BY DEF Skip, IsOptions

(* A key that is known, with its value.                                    *)
LEMMA OptionApplied ==
    ASSUME NEW argv \in Seq(Argument), NEW o, ReadRight(argv, o), o.status = "ok",
           ~o.programArgsMode, o.at <= Len(argv), argv[o.at] # Separator,
           argv[o.at].form = "key", argv[o.at].key \in Key,
           NEW n, NEW p,
           \/ n = 1 /\ ~Hungry(argv[o.at])
           \/ n = 2 /\ Hungry(argv[o.at]) /\ o.at < Len(argv),
           p = Skip(ApplyConfigOption(o, argv[o.at].key, ValueOf(argv, o.at)), n)
    PROVE  ReadRight(argv, p) /\ (p.status = "ok" => p.at > o.at)
<1> DEFINE key == argv[o.at].key
           text == ValueOf(argv, o.at)
           q == ApplyConfigOption(o, key, text)
<1>0. IsOptions(o)
  BY DEF ReadRight
<1>1. CASE Throws(OptionTypes[key], text)
  <2>1. p = Skip([o EXCEPT !.status = "thrown"], n)
    BY <1>1 DEF ApplyConfigOption
  <2>2. IsOptions(p) /\ p.status # "ok"
    BY <1>0, <2>1, GivenUp
  <2> QED BY <2>2 DEF ReadRight
<1>2. CASE ~Throws(OptionTypes[key], text)
  <2> DEFINE config == With(o.config, key, ParseValue(key, text))
  <2>1. q = [o EXCEPT !.config = config]
    BY <1>2 DEF ApplyConfigOption
  <2> HIDE DEF config, key, text
  <2>2. /\ IsOptions(q) /\ q.config = config /\ q.module = o.module
        /\ q.programArgsMode = o.programArgsMode /\ q.programArgs = o.programArgs
        /\ q.at = o.at /\ q.status = o.status
    <3> HIDE DEF q
    <3> QED BY <1>0, <2>1 DEF IsOptions
  <2>3. p = Skip(q, n)
    BY DEF key, text
  <2> HIDE DEF q
  <2>4. /\ IsOptions(p) /\ p.config = config /\ p.module = o.module
        /\ p.programArgsMode = o.programArgsMode /\ p.programArgs = o.programArgs
        /\ p.at = o.at + n
    BY <2>2, <2>3, SkipFields
  <2>5. \/ p.at = o.at + 1 /\ ~Hungry(argv[o.at])
        \/ p.at = o.at + 2 /\ Hungry(argv[o.at]) /\ o.at < Len(argv)
    <3>1. CASE n = 1 /\ ~Hungry(argv[o.at])
      BY <2>4, <3>1
    <3>2. CASE n = 2 /\ Hungry(argv[o.at]) /\ o.at < Len(argv)
      BY <2>4, <3>2
    <3> QED BY <3>1, <3>2
  <2>6. p.config = With(o.config, key, ParseValue(key, ValueOf(argv, o.at))) /\ key \in Key
        /\ argv[o.at].key = key
    BY <2>4 DEF config, key, text
  <2>7. ReadRight(argv, p) /\ p.at > o.at
    BY <2>4, <2>5, <2>6, PassedSetting
  <2> QED BY <2>7
<1> QED BY <1>1, <1>2

LEMMA KeyKeeps ==
    ASSUME NEW argv \in Seq(Argument), NEW o, ReadRight(argv, o), o.status = "ok",
           ~o.programArgsMode, o.at <= Len(argv), argv[o.at].form = "key"
    PROVE  LET p == ParseKey(argv, o, argv[o.at])
           IN  ReadRight(argv, p) /\ (p.status = "ok" => p.at > o.at)
<1> DEFINE arg == argv[o.at]
           p   == ParseKey(argv, o, arg)
<1>0. /\ IsOptions(o) /\ o.at \in 1 .. Len(argv) /\ arg \in Argument /\ Len(argv) \in Nat
      /\ arg # Separator /\ arg.form # "word"
  <2>1. IsOptions(o) /\ o.at \in 1 .. Len(argv) /\ arg \in Argument /\ Len(argv) \in Nat
    BY DEF ReadRight, PlaceRight
  <2> QED BY <2>1, ArgumentForms
<1>1. CASE arg.key \notin Key
  <2>1. p = Skip(o, 1)
    BY <1>1 DEF ParseKey
  <2>2. ~Hungry(arg)
    BY <1>1 DEF Hungry
  <2>3. \A key \in Key : o.at \notin Settings(argv, key)
    BY <1>1 DEF Settings
  <2> HIDE DEF p
  <2>4. /\ IsOptions(p) /\ p.config = o.config /\ p.module = o.module
        /\ p.programArgsMode = o.programArgsMode /\ p.programArgs = o.programArgs
        /\ p.at = o.at + 1 /\ ~Hungry(argv[o.at])
    BY <1>0, <2>1, <2>2, SkipFields
  <2>5. ReadRight(argv, p) /\ p.at > o.at
    BY <1>0, <2>3, <2>4, PassedOver
  <2> QED BY <2>5 DEF p
<1>2. CASE arg.key \in Key /\ arg.value # NoValue
  <2>1. ~Hungry(arg)
    BY <1>2 DEF Hungry
  <2>2. ValueOf(argv, o.at) = arg.value
    BY <2>1 DEF ValueOf
  <2>3. p = Skip(ApplyConfigOption(o, arg.key, ValueOf(argv, o.at)), 1)
    BY <1>2, <2>2 DEF ParseKey, ParseAssigned
  <2> HIDE DEF p
  <2>4. ReadRight(argv, p) /\ (p.status = "ok" => p.at > o.at)
    BY <1>0, <1>2, <2>1, <2>3, OptionApplied
  <2> QED BY <2>4 DEF p
<1>3. CASE arg.key \in Key /\ arg.value = NoValue /\ ~TakesNext(arg.key)
  <2>1. ~Hungry(arg)
    BY <1>3 DEF Hungry, TakesNext
  <2>2. ValueOf(argv, o.at) = NoValue
    BY <1>3, <2>1 DEF ValueOf
  <2>3. p = Skip(ApplyConfigOption(o, arg.key, ValueOf(argv, o.at)), 1)
    BY <1>3, <2>2 DEF ParseKey
  <2> HIDE DEF p
  <2>4. ReadRight(argv, p) /\ (p.status = "ok" => p.at > o.at)
    BY <1>0, <1>3, <2>1, <2>3, OptionApplied
  <2> QED BY <2>4 DEF p
<1>4. CASE arg.key \in Key /\ arg.value = NoValue /\ TakesNext(arg.key)
  <2>1. Hungry(arg)
    BY <1>4 DEF Hungry, TakesNext
  <2>2. p = IF HasNext(argv, o) THEN Skip(ApplyConfigOption(o, arg.key, argv[o.at + 1]), 2)
            ELSE Skip(o, 1)
    BY <1>4 DEF ParseKey
  <2> HIDE DEF p
  <2>3. CASE o.at < Len(argv)
    <3>1. p = Skip(ApplyConfigOption(o, arg.key, ValueOf(argv, o.at)), 2)
      BY <2>1, <2>2, <2>3 DEF HasNext, ValueOf
    <3>2. ReadRight(argv, p) /\ (p.status = "ok" => p.at > o.at)
      BY <1>0, <1>4, <2>1, <2>3, <3>1, OptionApplied
    <3> QED BY <3>2 DEF p
  <2>4. CASE ~(o.at < Len(argv))
    <3>1. p = Skip(o, 1) /\ o.at = Len(argv)
      BY <1>0, <2>2, <2>4 DEF HasNext
    <3>2. \A key \in Key : o.at \notin Settings(argv, key)
      BY <2>1, <2>4 DEF Settings
    <3>3. /\ IsOptions(p) /\ p.config = o.config /\ p.module = o.module
          /\ p.programArgsMode = o.programArgsMode /\ p.programArgs = o.programArgs
          /\ p.at = o.at + 1
      BY <1>0, <3>1, SkipFields
    <3>4. ReadRight(argv, p) /\ p.at > o.at
      BY <1>0, <3>1, <3>2, <3>3, PassedOver
    <3> QED BY <3>4 DEF p
  <2> QED BY <2>3, <2>4
<1> QED BY <1>1, <1>2, <1>3, <1>4

LEMMA FlagKeeps ==
    ASSUME NEW argv \in Seq(Argument), NEW o, ReadRight(argv, o), o.status = "ok",
           ~o.programArgsMode, o.at <= Len(argv), argv[o.at].form = "flag"
    PROVE  LET p == ParseFlag(argv, o, argv[o.at])
           IN  ReadRight(argv, p) /\ (p.status = "ok" => p.at > o.at)
<1> DEFINE arg == argv[o.at]
           p   == ParseFlag(argv, o, arg)
<1>0. /\ IsOptions(o) /\ o.at \in 1 .. Len(argv) /\ arg \in Argument /\ Len(argv) \in Nat
      /\ arg # Separator /\ arg.form # "word"
  <2>1. IsOptions(o) /\ o.at \in 1 .. Len(argv) /\ arg \in Argument /\ Len(argv) \in Nat
    BY DEF ReadRight, PlaceRight
  <2> QED BY <2>1, ArgumentForms
<1>1. \A key \in Key : o.at \notin Settings(argv, key)
  BY DEF Settings
<1>2. CASE arg.name \notin FlagsWithValue
  <2> DEFINE flags == o.flags \union {arg.name}
             q     == [o EXCEPT !.flags = flags]
  <2>1. p = Skip(q, 1)
    BY <1>2 DEF ParseFlag
  <2>2. ~Hungry(arg)
    BY <1>2 DEF Hungry
  <2>3. /\ IsOptions(q) /\ q.config = o.config /\ q.module = o.module
        /\ q.programArgsMode = o.programArgsMode /\ q.programArgs = o.programArgs
        /\ q.at = o.at
    <3> HIDE DEF flags
    <3> QED BY <1>0 DEF IsOptions
  <2> HIDE DEF p, q
  <2>4. /\ IsOptions(p) /\ p.config = o.config /\ p.module = o.module
        /\ p.programArgsMode = o.programArgsMode /\ p.programArgs = o.programArgs
        /\ p.at = o.at + 1 /\ ~Hungry(argv[o.at])
    BY <2>1, <2>2, <2>3, SkipFields
  <2>5. ReadRight(argv, p) /\ p.at > o.at
    BY <1>0, <1>1, <2>4, PassedOver
  <2> QED BY <2>5 DEF p
<1>3. CASE arg.name \in FlagsWithValue /\ ~HasNext(argv, o)
  <2>1. p = Failed(o)
    BY <1>3 DEF ParseFlag
  <2>2. IsOptions(p) /\ p.status # "ok"
    BY <1>0, <2>1, GivenUp
  <2> QED BY <2>2 DEF ReadRight
<1>4. CASE arg.name \in FlagsWithValue /\ HasNext(argv, o)
  <2> DEFINE taken == Append(o.taken, <<arg.name, argv[o.at + 1]>>)
             q     == [o EXCEPT !.taken = taken]
  <2>1. p = Skip(q, 2)
    BY <1>4 DEF ParseFlag
  <2>2. Hungry(arg) /\ o.at < Len(argv)
    BY <1>4 DEF Hungry, HasNext
  <2>3. /\ IsOptions(q) /\ q.config = o.config /\ q.module = o.module
        /\ q.programArgsMode = o.programArgsMode /\ q.programArgs = o.programArgs
        /\ q.at = o.at
    <3> HIDE DEF taken
    <3> QED BY <1>0 DEF IsOptions
  <2> HIDE DEF p, q
  <2>4. /\ IsOptions(p) /\ p.config = o.config /\ p.module = o.module
        /\ p.programArgsMode = o.programArgsMode /\ p.programArgs = o.programArgs
        /\ p.at = o.at + 2 /\ Hungry(argv[o.at]) /\ o.at < Len(argv)
    BY <2>1, <2>2, <2>3, SkipFields
  <2>5. ReadRight(argv, p) /\ p.at > o.at
    BY <1>0, <1>1, <2>4, PassedOver
  <2> QED BY <2>5 DEF p
<1> QED BY <1>2, <1>3, <1>4

(* One turn of the loop.                                                   *)
LEMMA ArgumentKeeps ==
    ASSUME NEW argv \in Seq(Argument), NEW o, ReadRight(argv, o), o.status = "ok",
           o.at <= Len(argv)
    PROVE  LET p == ParseArgument(argv, o)
           IN  ReadRight(argv, p) /\ (p.status = "ok" => p.at > o.at)
<1> DEFINE arg == argv[o.at]
           p   == ParseArgument(argv, o)
<1>0. /\ IsOptions(o) /\ o.at \in 1 .. Len(argv) /\ arg \in Argument /\ Len(argv) \in Nat
      /\ o.programArgsMode \in BOOLEAN
  BY DEF ReadRight, PlaceRight, IsOptions
<1>1. /\ arg.form \in {"word", "key", "flag", "separator"}
      /\ arg.form = "separator" => arg = Separator
  BY <1>0, ArgumentForms
<1>2. CASE o.programArgsMode
  <2> DEFINE more == Append(o.programArgs, arg)
             q    == [o EXCEPT !.programArgs = more]
  <2>1. p = Skip(q, 1)
    BY <1>2 DEF ParseArgument
  <2>2. /\ IsOptions(q) /\ q.config = o.config /\ q.module = o.module
        /\ q.programArgsMode = o.programArgsMode /\ q.programArgs = more
        /\ q.at = o.at
    <3> HIDE DEF more
    <3> QED BY <1>0 DEF IsOptions
  <2> HIDE DEF p, q
  <2>3. /\ IsOptions(p) /\ p.config = o.config /\ p.module = o.module
        /\ p.programArgsMode = o.programArgsMode /\ p.programArgs = more
        /\ p.at = o.at + 1
    <3> HIDE DEF more
    <3> QED BY <2>1, <2>2, SkipFields
  <2>4. ReadRight(argv, p) /\ p.at > o.at
    <3>1. p.programArgsMode /\ p.programArgs = Append(o.programArgs, argv[o.at])
      BY <1>2, <2>3
    <3> QED BY <1>2, <2>3, <3>1, PassedToProgram
  <2> QED BY <2>4 DEF p
<1>3. CASE ~o.programArgsMode /\ arg.form = "separator"
  <2> DEFINE yes == TRUE
             q   == [o EXCEPT !.programArgsMode = yes]
  <2>1. p = Skip(q, 1)
    BY <1>3 DEF ParseArgument
  <2>2. /\ IsOptions(q) /\ q.config = o.config /\ q.module = o.module
        /\ q.programArgsMode = yes /\ q.programArgs = o.programArgs
        /\ q.at = o.at
    <3>1. yes \in BOOLEAN
      OBVIOUS
    <3> HIDE DEF yes
    <3> QED BY <1>0, <3>1 DEF IsOptions
  <2> HIDE DEF p, q
  <2>3. /\ IsOptions(p) /\ p.config = o.config /\ p.module = o.module
        /\ p.programArgsMode = yes /\ p.programArgs = o.programArgs
        /\ p.at = o.at + 1
    <3> HIDE DEF yes
    <3> QED BY <2>1, <2>2, SkipFields
  <2>4. ReadRight(argv, p) /\ p.at > o.at
    <3>1. p.programArgsMode
      BY <2>3
    <3> QED BY <1>1, <1>3, <2>3, <3>1, PassedSeparator
  <2> QED BY <2>4 DEF p
<1>4. CASE ~o.programArgsMode /\ arg.form = "key"
  <2>1. p = ParseKey(argv, o, arg)
    BY <1>4 DEF ParseArgument
  <2> QED BY <1>4, <2>1, KeyKeeps
<1>5. CASE ~o.programArgsMode /\ arg.form = "flag"
  <2>1. p = ParseFlag(argv, o, arg)
    BY <1>5 DEF ParseArgument
  <2> QED BY <1>5, <2>1, FlagKeeps
<1>6. CASE ~o.programArgsMode /\ arg.form = "word" /\ o.module # NoValue
  <2>1. p = Failed(o)
    BY <1>6 DEF ParseArgument
  <2>2. IsOptions(p) /\ p.status # "ok"
    BY <1>0, <2>1, GivenUp
  <2> QED BY <2>2 DEF ReadRight
<1>7. CASE ~o.programArgsMode /\ arg.form = "word" /\ o.module = NoValue
  <2> DEFINE q == [o EXCEPT !.module = arg]
  <2>1. p = Skip(q, 1)
    BY <1>7 DEF ParseArgument
  <2> HIDE DEF arg
  <2>2. /\ IsOptions(q) /\ q.config = o.config /\ q.module = arg
        /\ q.programArgsMode = o.programArgsMode /\ q.programArgs = o.programArgs
        /\ q.at = o.at
    BY <1>0 DEF IsOptions
  <2> HIDE DEF p, q
  <2>3. /\ IsOptions(p) /\ p.config = o.config /\ p.module = argv[o.at]
        /\ p.programArgsMode = o.programArgsMode /\ p.programArgs = o.programArgs
        /\ p.at = o.at + 1
    BY <2>1, <2>2, SkipFields DEF arg
  <2>4. ReadRight(argv, p) /\ p.at > o.at
    BY <1>7, <2>3, PassedWord DEF arg
  <2> QED BY <2>4 DEF p
<1> QED BY <1>0, <1>1, <1>2, <1>3, <1>4, <1>5, <1>6, <1>7

LEMMA NothingRead == \A argv \in Seq(Argument) : ReadRight(argv, NoOptions)
<1> SUFFICES ASSUME NEW argv \in Seq(Argument)
             PROVE  ReadRight(argv, NoOptions)
  OBVIOUS
<1>1. /\ IsOptions(NoOptions) /\ NoOptions.at = 1 /\ NoOptions.programArgsMode = FALSE
      /\ NoOptions.programArgs = <<>> /\ NoOptions.config = <<>> /\ NoOptions.module = NoValue
  BY DEF IsOptions, NoOptions
<1>2. PlaceRight(argv, NoOptions)
  <2>1. EndOfOptions(argv) \in 1 .. (Len(argv) + 1) /\ Len(argv) \in Nat
    BY EndFacts
  <2>2. ~IsValue(argv, 1)
    BY FirstIsNoValue
  <2> QED BY <1>1, <2>1, <2>2 DEF PlaceRight
<1>3. \A k \in OptionsOf(argv) : ~(k < 1)
  BY EndFacts DEF OptionsOf
<1>4. ConfigRead(argv, NoOptions)
  <2>1. \A key : SettingsBefore(argv, key, 1) = {}
    BY <1>3 DEF SettingsBefore, Settings
  <2>2. \A key : key \notin DOMAIN NoOptions.config
    BY <1>1
  <2> QED BY <1>1, <2>1, <2>2 DEF ConfigRead
<1>5. WordRead(argv, NoOptions)
  <2>1. WordsBefore(argv, 1) = {}
    BY <1>3 DEF WordsBefore
  <2> QED BY <1>1, <2>1 DEF WordRead
<1> QED BY <1>1, <1>2, <1>4, <1>5 DEF ReadRight

(* What ParseCommandLine() returns, it read right, and to the end.         *)
LEMMA AllRead ==
    ASSUME NEW argv \in Seq(Argument)
    PROVE  LET o == ParseCommandLine(argv)
           IN  ReadRight(argv, o) /\ (o.status = "ok" => o.at = Len(argv) + 1)
<1>0. Len(argv) \in Nat
  OBVIOUS
<1>1. PICK g : /\ ParseCommandLine(argv) = g[Len(argv)]
               /\ g[0] = NoOptions
               /\ \A n \in 0 .. (Len(argv) - 1) : g[n + 1] = ReadNext(argv, g[n])
  BY <1>0, ParseLoop
<1> DEFINE Right(n) == ReadRight(argv, g[n]) /\ (g[n].status = "ok" => g[n].at > n)
           S == {n \in Nat : n <= Len(argv) => Right(n)}
<1>2. 0 \in S
  <2>1. ReadRight(argv, g[0]) /\ g[0].at = 1
    <3>1. NoOptions.at = 1
      BY DEF NoOptions
    <3>2. ReadRight(argv, NoOptions)
      BY NothingRead
    <3> QED BY <1>1, <3>1, <3>2
  <2> QED BY <2>1
<1>3. ASSUME NEW n \in Nat, n \in S
      PROVE  n + 1 \in S
  <2> SUFFICES ASSUME n + 1 <= Len(argv) PROVE Right(n + 1)
    OBVIOUS
  <2>1. n \in 0 .. (Len(argv) - 1) /\ n <= Len(argv)
    BY <1>0
  <2>2. Right(n) /\ g[n + 1] = ReadNext(argv, g[n])
    BY <1>1, <1>3, <2>1
  <2>3. CASE g[n].status # "ok"
    <3>1. g[n + 1] = g[n]
      BY <2>2, <2>3 DEF ReadNext
    <3> QED BY <2>2, <2>3, <3>1
  <2>4. CASE g[n].status = "ok" /\ g[n].at > Len(argv)
    <3>1. g[n + 1] = g[n]
      BY <2>2, <2>4 DEF ReadNext
    <3>2. g[n].at \in 1 .. (Len(argv) + 1)
      BY <2>2, <2>4 DEF ReadRight, PlaceRight
    <3> QED BY <1>0, <2>1, <2>2, <2>4, <3>1, <3>2
  <2>5. CASE g[n].status = "ok" /\ ~(g[n].at > Len(argv))
    <3>1. g[n].at \in 1 .. (Len(argv) + 1) /\ g[n].at <= Len(argv)
      BY <1>0, <2>2, <2>5 DEF ReadRight, PlaceRight
    <3>2. g[n + 1] = ParseArgument(argv, g[n])
      BY <2>2, <2>5 DEF ReadNext
    <3>3. ReadRight(argv, g[n + 1]) /\ (g[n + 1].status = "ok" => g[n + 1].at > g[n].at)
      BY <2>2, <2>5, <3>1, <3>2, ArgumentKeeps
    <3>4. g[n + 1].status = "ok" => g[n + 1].at \in Int
      BY <3>3 DEF ReadRight, PlaceRight
    <3> QED BY <2>2, <2>5, <3>1, <3>3, <3>4
  <2> QED BY <2>3, <2>4, <2>5
<1> HIDE DEF S, Right
<1>4. Nat \subseteq S
  BY <1>2, <1>3, Induction
<1>5. Right(Len(argv))
  BY <1>0, <1>4 DEF S
<1> DEFINE o == ParseCommandLine(argv)
<1>6. ReadRight(argv, o) /\ (o.status = "ok" => o.at > Len(argv))
  BY <1>1, <1>5 DEF Right
<1>7. o.status = "ok" => o.at \in 1 .. (Len(argv) + 1)
  BY <1>6 DEF ReadRight, PlaceRight
<1> QED BY <1>0, <1>6, <1>7

LEMMA AllOptionsRead ==
    ASSUME NEW argv \in Seq(Argument), ParseCommandLine(argv).status = "ok"
    PROVE  OptionsRead(argv, ParseCommandLine(argv))
<1> DEFINE o == ParseCommandLine(argv)
           L == Len(argv)
           e == EndOfOptions(argv)
<1>1. /\ PlaceRight(argv, o) /\ ConfigRead(argv, o) /\ WordRead(argv, o)
      /\ o.at = L + 1 /\ o.programArgsMode \in BOOLEAN
  BY AllRead DEF ReadRight, IsOptions
<1>2. L \in Nat /\ e \in 1 .. (L + 1)
  BY EndFacts
<1> HIDE DEF o
<1>3. o.programArgs = SubSeq(argv, e + 1, L)
  <2>1. CASE o.programArgsMode
    <3>1. o.programArgs = SubSeq(argv, e + 1, o.at - 1) /\ o.at - 1 = L
      BY <1>1, <1>2, <2>1 DEF PlaceRight
    <3> QED BY <3>1
  <2>2. CASE ~o.programArgsMode
    <3>1. o.programArgs = <<>> /\ o.at <= e
      BY <2>2, <1>1 DEF PlaceRight
    <3>2. e = L + 1
      BY <1>1, <1>2, <3>1
    <3>3. SubSeq(argv, (L + 1) + 1, L) = <<>>
      BY <1>2
    <3> HIDE DEF e
    <3> QED BY <3>1, <3>2, <3>3
  <2> QED BY <1>1, <2>1, <2>2
<1>4. \A k \in OptionsOf(argv) : k < L + 1
  BY <1>2 DEF OptionsOf
<1> HIDE DEF L, e
<1>5. \A key \in Key : SettingsBefore(argv, key, o.at) = Settings(argv, key)
  BY <1>1, <1>4 DEF SettingsBefore, Settings
<1>6. WordsBefore(argv, o.at) = {argv[k] : k \in {j \in OptionsOf(argv) : argv[j].form = "word"}}
  BY <1>1, <1>4 DEF WordsBefore
<1>7. \A key \in Key :
         IF Settings(argv, key) = {} THEN key \notin DOMAIN o.config
         ELSE key \in DOMAIN o.config
              /\ o.config[key] = ParseValue(key, ValueOf(argv, Max(Settings(argv, key))))
  BY <1>1, <1>5 DEF ConfigRead
<1>8. {argv[k] : k \in {j \in OptionsOf(argv) : argv[j].form = "word"}} = {o.module} \ {NoValue}
  BY <1>1, <1>6 DEF WordRead
<1> QED BY <1>3, <1>7, <1>8 DEF OptionsRead, L, e, o

(* The program is run with its module.                                     *)
LEMMA RunsModule ==
    ASSUME NEW argv \in Seq(Argument), NEW world, Main(argv, world).ran
    PROVE  LET o == ParseCommandLine(argv)
           IN  o.status = "ok" /\ \E k \in OptionsOf(argv) : argv[k] = o.module
<1> DEFINE o == ParseCommandLine(argv)
<1>1. Exit(0, FALSE).ran = FALSE /\ Exit(1, FALSE).ran = FALSE /\ Exit(Aborted, FALSE).ran = FALSE
  BY DEF Exit
<1>2. Finish(o, world).ran
  BY <1>1 DEF Main
<1>3. o.status \in {"ok", "failed", "thrown"}
  BY AllRead DEF ReadRight, IsOptions
<1> HIDE DEF o
<1>4. o.status = "ok" /\ o.module # NoValue
  BY <1>1, <1>2, <1>3 DEF Finish
<1>5. WordRead(argv, o)
  BY <1>4, AllRead DEF ReadRight, o
<1>6. o.module \in WordsBefore(argv, o.at)
  BY <1>4, <1>5 DEF WordRead
<1> QED BY <1>4, <1>6 DEF WordsBefore, o

-----------------------------------------------------------------------------
(* The input of a computation stays what it is.                            *)
ProblemInv ==
    /\ problem.kind = "command" => problem.argv \in CommandLines
    /\ problem.kind = "module" => problem.declared \in Modules
    /\ problem.kind = "code" => problem.code \in Codes
    /\ problem.kind = "word" => problem.word \in Words
    /\ problem.kind = "float" => problem.float \in Floats

LEMMA ProblemStarts == AllInit => ProblemInv
<1> SUFFICES ASSUME AllInit PROVE ProblemInv
  OBVIOUS
<1>1. CASE problem \in Problem
  <2>1. problem.kind = "command" => problem \in [kind : {"command"}, argv : CommandLines]
    BY <1>1 DEF Problem
  <2>2. problem.kind = "module" => problem \in [kind : {"module"}, declared : Modules]
    BY <1>1 DEF Problem
  <2>3. problem.kind = "code" => problem \in [kind : {"code"}, code : Codes]
    BY <1>1 DEF Problem
  <2>4. problem.kind = "word" => problem \in [kind : {"word"}, word : Words]
    BY <1>1 DEF Problem
  <2>5. problem.kind = "float" => problem \in [kind : {"float"}, float : Floats]
    BY <1>1 DEF Problem
  <2> QED BY <2>1, <2>2, <2>3, <2>4, <2>5 DEF ProblemInv
<1>2. CASE problem = [kind |-> "levels"] \/ problem = [kind |-> "arena"]
  BY <1>2 DEF ProblemInv
<1> QED BY <1>1, <1>2 DEF AllInit

LEMMA ProblemStays == [AllNext]_<<vars, problem, arena>> => UNCHANGED problem
<1> QED BY DEF AllNext, ArenaNext

(* Every command line, of any length and of any arguments, is read as it   *)
(* is meant.                                                               *)
THEOREM CommandLinesAreRead == AllSpec => []OptionsReachConfig
<1>1. ProblemInv /\ UNCHANGED problem => ProblemInv'
  BY DEF ProblemInv
<1>2. ProblemInv => OptionsReachConfig
  <2> SUFFICES ASSUME ProblemInv, problem.kind = "command"
               PROVE  OptionsReachConfig
    BY DEF OptionsReachConfig
  <2> DEFINE argv == problem.argv
             o    == ParseCommandLine(argv)
  <2>1. argv \in Seq(Argument)
    BY CommandLinesAssumption DEF ProblemInv
  <2>2. o.status = "ok" => OptionsRead(argv, o)
    BY <2>1, AllOptionsRead
  <2>3. Main(argv, World).ran => o.status = "ok" /\ \E k \in OptionsOf(argv) : argv[k] = o.module
    BY <2>1, RunsModule
  <2> HIDE DEF o
  <2> QED BY <2>2, <2>3 DEF OptionsReachConfig, o
<1> QED BY <1>1, <1>2, ProblemStarts, ProblemStays, PTL DEF AllSpec

-----------------------------------------------------------------------------
(* Classes                                                                 *)


(* The recursions that stand for the loop over the classes, and for the    *)
(* walk up the superclasses.                                               *)
LEMMA LinkLoop ==
    ASSUME NEW declared, Len(declared) \in Nat
    PROVE  \E g : /\ LinkClasses(declared) = g[Len(declared)]
                  /\ g[0] = Start(declared)
                  /\ \A n \in 1 .. Len(declared) : g[n] = LinkClass(declared, g[n - 1], n)
<1> DEFINE L == Len(declared)
           Upto(m, g) == g = [n \in 0 .. m |-> IF n = 0 THEN Start(declared)
                                               ELSE LinkClass(declared, g[n - 1], n)]
           S == {m \in Nat : \E g : Upto(m, g)}
<1>1. 0 \in S
  <2>1. Upto(0, [n \in 0 .. 0 |-> Start(declared)])
    OBVIOUS
  <2> QED BY <2>1
<1>2. ASSUME NEW m \in Nat, m \in S
      PROVE  m + 1 \in S
  <2>1. PICK h : Upto(m, h)
    BY <1>2
  <2> DEFINE g == [n \in 0 .. (m + 1) |-> IF n = 0 THEN Start(declared)
                                          ELSE LinkClass(declared, h[n - 1], n)]
  <2>2. \A n \in 0 .. m : n \in 0 .. (m + 1) /\ g[n] = h[n]
    BY <2>1
  <2>3. \A n \in 0 .. (m + 1) : n # 0 => n - 1 \in 0 .. m
    OBVIOUS
  <2>4. g = [n \in 0 .. (m + 1) |-> IF n = 0 THEN Start(declared)
                                    ELSE LinkClass(declared, g[n - 1], n)]
    <3>1. \A n \in 0 .. (m + 1) : n # 0 => g[n - 1] = h[n - 1]
      BY <2>2, <2>3
    <3> DEFINE G == g
    <3>2. \A n \in 0 .. (m + 1) : n # 0 => G[n - 1] = h[n - 1]
      BY <3>1
    <3> HIDE DEF G
    <3>3. g = [n \in 0 .. (m + 1) |-> IF n = 0 THEN Start(declared)
                                      ELSE LinkClass(declared, G[n - 1], n)]
      BY <3>2
    <3> QED BY <3>3 DEF G
  <2> HIDE DEF g
  <2>5. Upto(m + 1, g)
    BY <2>4
  <2> QED BY <2>5
<1>3. Nat \subseteq S
  <2> HIDE DEF S
  <2> QED BY <1>1, <1>2, Induction
<1> DEFINE g == CHOOSE h : Upto(L, h)
<1>4. Upto(L, g)
  <2> HIDE DEF Upto
  <2> QED BY <1>3
<1>5. LinkClasses(declared) = g[L]
  BY DEF LinkClasses
<1> HIDE DEF g
<1>6. g[0] = Start(declared)
  BY <1>4
<1>7. ASSUME NEW n \in 1 .. L
      PROVE  g[n] = LinkClass(declared, g[n - 1], n)
  <2>1. n \in 0 .. L /\ n # 0
    OBVIOUS
  <2> QED BY <1>4, <2>1
<1> QED BY <1>5, <1>6, <1>7

WalkUp(declared, c) == IF declared[c[Len(c)]].super = 0 THEN c
                       ELSE Append(c, declared[c[Len(c)]].super)

LEMMA ChainLoop ==
    ASSUME NEW declared, NEW i, Len(declared) \in Nat
    PROVE  \E g : /\ Chain(declared, i) = g[Len(declared)]
                  /\ g[0] = <<i>>
                  /\ \A n \in 1 .. Len(declared) : g[n] = WalkUp(declared, g[n - 1])
<1> DEFINE L == Len(declared)
           Upto(m, g) == g = [n \in 0 .. m |-> IF n = 0 THEN <<i>> ELSE WalkUp(declared, g[n - 1])]
           S == {m \in Nat : \E g : Upto(m, g)}
<1> DEFINE h0 == CHOOSE h : Upto(L, h)
<1>5. Chain(declared, i) = h0[L]
  BY DEF Chain, WalkUp
<1>1. 0 \in S
  <2>1. Upto(0, [n \in 0 .. 0 |-> <<i>>])
    OBVIOUS
  <2> QED BY <2>1
<1>2. ASSUME NEW m \in Nat, m \in S
      PROVE  m + 1 \in S
  <2>1. PICK h : Upto(m, h)
    BY <1>2
  <2> DEFINE g == [n \in 0 .. (m + 1) |-> IF n = 0 THEN <<i>> ELSE WalkUp(declared, h[n - 1])]
  <2>2. \A n \in 0 .. m : n \in 0 .. (m + 1) /\ g[n] = h[n]
    BY <2>1
  <2>3. \A n \in 0 .. (m + 1) : n # 0 => n - 1 \in 0 .. m
    OBVIOUS
  <2>4. g = [n \in 0 .. (m + 1) |-> IF n = 0 THEN <<i>> ELSE WalkUp(declared, g[n - 1])]
    <3>1. \A n \in 0 .. (m + 1) : n # 0 => g[n - 1] = h[n - 1]
      BY <2>2, <2>3
    <3> DEFINE G == g
    <3>2. \A n \in 0 .. (m + 1) : n # 0 => G[n - 1] = h[n - 1]
      BY <3>1
    <3> HIDE DEF G
    <3>3. g = [n \in 0 .. (m + 1) |-> IF n = 0 THEN <<i>> ELSE WalkUp(declared, G[n - 1])]
      BY <3>2
    <3> QED BY <3>3 DEF G
  <2> HIDE DEF g
  <2>5. Upto(m + 1, g)
    BY <2>4
  <2> QED BY <2>5
<1>3. Nat \subseteq S
  <2> HIDE DEF S
  <2> QED BY <1>1, <1>2, Induction
<1>4. Upto(L, h0)
  <2> HIDE DEF Upto
  <2> QED BY <1>3
<1> DEFINE g == h0
<1> HIDE DEF h0
<1>6. g[0] = <<i>>
  BY <1>4
<1>7. ASSUME NEW n \in 1 .. L
      PROVE  g[n] = WalkUp(declared, g[n - 1])
  <2>1. n \in 0 .. L /\ n # 0
    OBVIOUS
  <2> QED BY <1>4, <2>1
<1> HIDE DEF g
<1> QED BY <1>5, <1>6, <1>7 DEF g

LEMMA ClassFacts ==
    ASSUME NEW declared, declared \in Declarations(Len(declared)), NEW i \in DOMAIN declared
    PROVE  /\ Len(declared) \in Nat /\ DOMAIN declared = 1 .. Len(declared)
           /\ declared[i].super \in 0 .. Len(declared)
           /\ declared[i].fields \in Seq(Type) /\ declared[i].methods \in Seq(STRING)
<1> DEFINE R == [super : 0 .. Len(declared), fields : Seq(Type), methods : Seq(STRING)]
<1>1. declared \in Seq(R)
  BY DEF Declarations
<1> HIDE DEF R
<1>2. Len(declared) \in Nat /\ DOMAIN declared = 1 .. Len(declared)
  BY <1>1
<1>3. declared[i] \in R
  BY <1>1
<1> QED BY <1>2, <1>3 DEF R

(* The superclasses of a class, up to the first that has none.             *)
IsLine(declared, c) ==
    /\ c \in Seq(1 .. Len(declared)) /\ Len(c) # 0
    /\ \A k \in 1 .. (Len(c) - 1) :
           declared[c[k]].super # 0 /\ c[k + 1] = declared[c[k]].super

LEMMA LineGrows ==
    ASSUME NEW declared, declared \in Declarations(Len(declared)), NEW c, IsLine(declared, c),
           declared[c[Len(c)]].super # 0
    PROVE  LET d == Append(c, declared[c[Len(c)]].super)
           IN  IsLine(declared, d) /\ Len(d) = Len(c) + 1 /\ d[1] = c[1]
<1> DEFINE x == declared[c[Len(c)]].super
           d == Append(c, x)
           n == Len(c)
<1>1. c \in Seq(1 .. Len(declared)) /\ n \in Nat \ {0} /\ c[n] \in 1 .. Len(declared)
  BY DEF IsLine
<1>2. x \in 1 .. Len(declared)
  <2>1. c[n] \in DOMAIN declared
    BY <1>1 DEF Declarations
  <2>2. x \in 0 .. Len(declared) /\ Len(declared) \in Nat
    BY <2>1, ClassFacts
  <2> QED BY <2>2
<1> DEFINE y == x
<1>3. x = y /\ y = declared[c[n]].super /\ y # 0
  OBVIOUS
<1> HIDE DEF y
<1>4. /\ d \in Seq(1 .. Len(declared)) /\ Len(d) = n + 1
      /\ \A k \in 1 .. n : d[k] = c[k]
      /\ d[n + 1] = y
  <2>1. y \in 1 .. Len(declared) /\ d = Append(c, y)
    BY <1>2, <1>3
  <2> HIDE DEF d
  <2> QED BY <1>1, <2>1
<1> HIDE DEF d
<1>5. ASSUME NEW k \in 1 .. n
      PROVE  declared[d[k]].super # 0 /\ d[k + 1] = declared[d[k]].super
  <2>1. CASE k = n
    BY <1>1, <1>3, <1>4, <2>1
  <2>2. CASE k < n
    <3>1. k \in 1 .. (n - 1) /\ k + 1 \in 1 .. n
      BY <1>1, <2>2
    <3>2. declared[c[k]].super # 0 /\ c[k + 1] = declared[c[k]].super
      BY <3>1 DEF IsLine
    <3> QED BY <1>4, <3>1, <3>2
  <2> QED BY <1>1, <2>1, <2>2
<1>6. (n + 1) - 1 = n /\ n + 1 # 0 /\ 1 \in 1 .. n
  BY <1>1
<1>7. IsLine(declared, d)
  BY <1>4, <1>5, <1>6 DEF IsLine
<1> QED BY <1>4, <1>6, <1>7 DEF d

LEMMA ChainIsLine ==
    ASSUME NEW declared, declared \in Declarations(Len(declared)), NEW i \in DOMAIN declared,
           InOrder(declared, i)
    PROVE  LET c == Chain(declared, i)
           IN  /\ IsLine(declared, c) /\ c[1] = i /\ Len(c) \in Nat \ {0}
               /\ \A k \in 1 .. Len(c) : c[k] \in 1 .. i /\ declared[c[k]].super < c[k]
               /\ declared[c[Len(c)]].super = 0
<1> DEFINE L == Len(declared)
<1>1. L \in Nat /\ i \in 1 .. L
  BY ClassFacts
<1>2. PICK g : /\ Chain(declared, i) = g[L]
               /\ g[0] = <<i>>
               /\ \A n \in 1 .. L : g[n] = WalkUp(declared, g[n - 1])
  BY <1>1, ChainLoop
<1> DEFINE Good(c, n) == /\ IsLine(declared, c) /\ c[1] = i
                         /\ declared[c[Len(c)]].super = 0 \/ Len(c) = n + 1
           S == {n \in Nat : n <= L => Good(g[n], n)}
<1>3. 0 \in S
  <2>1. Good(<<i>>, 0)
    BY <1>1 DEF IsLine
  <2> HIDE DEF Good
  <2> QED BY <1>2, <2>1
<1>4. ASSUME NEW n \in Nat, n \in S
      PROVE  n + 1 \in S
  <2> SUFFICES ASSUME n + 1 <= L PROVE Good(g[n + 1], n + 1)
    OBVIOUS
  <2> DEFINE c == g[n]
             d == g[n + 1]
  <2>1. n <= L /\ n + 1 \in 1 .. L /\ (n + 1) - 1 = n
    BY <1>1
  <2>2. Good(c, n)
    BY <1>4, <2>1
  <2>3. d = IF declared[c[Len(c)]].super = 0 THEN c ELSE Append(c, declared[c[Len(c)]].super)
    BY <1>2, <2>1 DEF WalkUp
  <2> HIDE DEF c, d
  <2>4. Good(d, n + 1)
    <3>1. CASE declared[c[Len(c)]].super = 0
      BY <2>2, <2>3, <3>1
    <3>2. CASE declared[c[Len(c)]].super # 0
      <4>1. d = Append(c, declared[c[Len(c)]].super)
        BY <2>3, <3>2
      <4>2. IsLine(declared, d) /\ Len(d) = Len(c) + 1 /\ d[1] = c[1]
        BY <2>2, <3>2, <4>1, LineGrows
      <4> QED BY <2>2, <3>2, <4>2
    <3> QED BY <3>1, <3>2
  <2> QED BY <2>4 DEF d
<1> HIDE DEF S, Good
<1>5. Nat \subseteq S
  BY <1>3, <1>4, Induction
<1> DEFINE c == Chain(declared, i)
           m == Len(c)
<1>6. IsLine(declared, c) /\ c[1] = i /\ (declared[c[m]].super = 0 \/ m = L + 1)
  <2>1. Good(g[L], L)
    BY <1>1, <1>5 DEF S
  <2> QED BY <1>2, <2>1 DEF Good
<1> HIDE DEF c
<1>7. c \in Seq(1 .. L) /\ m \in Nat \ {0}
  BY <1>6 DEF IsLine
<1>8. ASSUME NEW k \in 1 .. m
      PROVE  declared[c[k]].super < c[k]
  <2>1. c[k] \in Range(c)
    BY <1>7 DEF Range
  <2> QED BY <2>1 DEF InOrder, c
<1>9. \A k \in 1 .. m : c[k] <= i + 1 - k
  <2> DEFINE T == {k \in Nat : k + 1 <= m => c[k + 1] <= i - k}
  <2>1. 0 \in T
    BY <1>1, <1>6
  <2>2. ASSUME NEW k \in Nat, k \in T PROVE k + 1 \in T
    <3> SUFFICES ASSUME (k + 1) + 1 <= m PROVE c[(k + 1) + 1] <= i - (k + 1)
      OBVIOUS
    <3>1. k + 1 \in 1 .. (m - 1) /\ k + 1 \in 1 .. m /\ (k + 1) + 1 \in 1 .. m
      BY <1>7
    <3>2. c[(k + 1) + 1] = declared[c[k + 1]].super
      BY <1>6, <3>1 DEF IsLine
    <3>3. c[(k + 1) + 1] < c[k + 1] /\ c[k + 1] \in Int /\ c[(k + 1) + 1] \in Int
      BY <1>7, <1>8, <3>1, <3>2
    <3>4. c[k + 1] <= i - k
      BY <2>2, <3>1
    <3> QED BY <1>1, <3>3, <3>4
  <2> HIDE DEF T
  <2>3. Nat \subseteq T
    BY <2>1, <2>2, Induction
  <2> SUFFICES ASSUME NEW k \in 1 .. m PROVE c[k] <= i + 1 - k
    OBVIOUS
  <2>4. k - 1 \in T /\ (k - 1) + 1 = k /\ i - (k - 1) = i + 1 - k
    BY <1>1, <1>7, <2>3
  <2> QED BY <2>4 DEF T
<1>10. declared[c[m]].super = 0
  <2> SUFFICES ASSUME m = L + 1 PROVE FALSE
    BY <1>6
  <2>1. m \in 1 .. m
    BY <1>7
  <2>2. c[m] <= i + 1 - m /\ c[m] \in 1 .. L
    BY <1>7, <1>9, <2>1
  <2> QED BY <1>1, <2>2
<1>11. \A k \in 1 .. m : c[k] \in 1 .. i
  <2> SUFFICES ASSUME NEW k \in 1 .. m PROVE c[k] \in 1 .. i
    OBVIOUS
  <2>1. c[k] \in 1 .. L /\ c[k] <= i + 1 - k
    BY <1>7, <1>9
  <2> QED BY <1>1, <2>1
<1> QED BY <1>6, <1>7, <1>8, <1>10, <1>11 DEF c

(* Allocations leave the classes.                                          *)
IsModule(l) ==
    /\ l = [memory |-> l.memory, used |-> l.used, crashed |-> l.crashed, classes |-> l.classes]
    /\ l.crashed \in BOOLEAN

LEMMA PutKeeps ==
    ASSUME NEW l, IsModule(l), NEW at, NEW words
    PROVE  LET p == Put(l, at, words)
           IN  IsModule(p) /\ p.used = l.used /\ p.crashed = l.crashed /\ p.classes = l.classes
<1> DEFINE memory == [a \in DOMAIN l.memory \union at .. (at + Len(words) - 1) |->
                         IF a >= at /\ a < at + Len(words) THEN words[a - at + 1] ELSE l.memory[a]]
<1>1. Put(l, at, words) = [l EXCEPT !.memory = memory]
  BY DEF Put
<1> HIDE DEF memory
<1> QED BY <1>1 DEF IsModule

LEMMA ReserveKeeps ==
    ASSUME NEW l, IsModule(l), NEW words
    PROVE  LET p == Reserve(l, words)
           IN  IsModule(p) /\ p.memory = l.memory /\ p.crashed = l.crashed /\ p.classes = l.classes
               /\ p.used = l.used + AlignUp(words, 2)
<1> DEFINE used == l.used + AlignUp(words, 2)
<1>1. Reserve(l, words) = [l EXCEPT !.used = used]
  BY DEF Reserve
<1> HIDE DEF used
<1>2. LET p == Reserve(l, words)
      IN  IsModule(p) /\ p.memory = l.memory /\ p.crashed = l.crashed /\ p.classes = l.classes
          /\ p.used = used
  BY <1>1 DEF IsModule
<1> QED BY <1>2 DEF used

LEMMA FilledKeeps ==
    ASSUME NEW l, IsModule(l), NEW words
    PROVE  LET p == Filled(l, words)
           IN  IsModule(p) /\ p.crashed = l.crashed /\ p.classes = l.classes
<1> DEFINE q == Put(l, l.used, [k \in 1 .. words |-> Address])
<1>1. IsModule(q) /\ q.crashed = l.crashed /\ q.classes = l.classes
  BY PutKeeps
<1>2. Filled(l, words) = Reserve(q, words)
  BY DEF Filled
<1> HIDE DEF q
<1> QED BY <1>1, <1>2, ReserveKeeps

LEMMA PutRegionsKeeps ==
    ASSUME NEW l, IsModule(l), NEW class
    PROVE  LET p == PutRegions(l, class)
           IN  IsModule(p) /\ p.crashed = l.crashed /\ p.classes = l.classes
<1> DEFINE inherited == IF class.super = 0 THEN <<>> ELSE RegionWords(l, Super(l, class).regions)
           own == IF References(class) = {} THEN <<>>
                  ELSE <<Base(l, class), Cardinality(References(class))>>
           room == IF class.super = 0 THEN Len(own) ELSE Len(inherited)
           words == inherited \o own
           at == Regions(l, class).at
           q == Put(l, at, words)
<1>1. PutRegions(l, class) = Reserve(q, room)
  BY DEF PutRegions
<1> HIDE DEF room, words, at
<1>2. IsModule(q) /\ q.crashed = l.crashed /\ q.classes = l.classes
  BY PutKeeps
<1> HIDE DEF q
<1> QED BY <1>1, <1>2, ReserveKeeps

(* One class is linked.                                                    *)
Made(declared, l, i) ==
    Filled(Filled(l, 3 * Len(declared[i].fields)), 3 * Len(declared[i].methods))

LinkedClass(declared, l, i) ==
    LET class == declared[i]
        made  == Made(declared, l, i)
    IN  [linked |-> TRUE, size |-> MemorySize(made, class),
         offsets |-> Offsets(made, class), regions |-> Regions(made, class),
         vtable |-> Vtable(declared, made, i), slots |-> VtableIndexes(declared, made, i)]

LEMMA MadeKeeps ==
    ASSUME NEW declared, NEW i, NEW l, IsModule(l)
    PROVE  LET p == Made(declared, l, i)
           IN  IsModule(p) /\ p.crashed = l.crashed /\ p.classes = l.classes
<1> DEFINE q == Filled(l, 3 * Len(declared[i].fields))
<1>1. IsModule(q) /\ q.crashed = l.crashed /\ q.classes = l.classes
  BY FilledKeeps
<1>2. Made(declared, l, i) = Filled(q, 3 * Len(declared[i].methods))
  BY DEF Made
<1> HIDE DEF q
<1> QED BY <1>1, <1>2, FilledKeeps

(* Everything that is put into the arena for the class.                    *)
Stored(declared, l, i) ==
    Filled(PutRegions(Made(declared, l, i), declared[i]), Len(LinkedClass(declared, l, i).vtable))

(* The superclass was not without one of its methods, and only the class   *)
(* itself changes.                                                         *)
LinkedTo(declared, l, i, p) ==
    /\ IsModule(p)
    /\ ~p.crashed =>
          /\ ~l.crashed
          /\ declared[i].super # 0 => New(declared, l, i) = {}
          /\ p.classes = [k \in DOMAIN l.classes |->
                             IF k = i THEN LinkedClass(declared, l, i) ELSE l.classes[k]]
          /\ p.memory = Stored(declared, l, i).memory
          /\ p.used = Stored(declared, l, i).used

LEMMA ClassLinked ==
    ASSUME NEW declared, NEW l, IsModule(l), NEW i
    PROVE  LinkedTo(declared, l, i, LinkClass(declared, l, i))
<1> DEFINE class == declared[i]
           made  == Made(declared, l, i)
           crash == class.super # 0 /\ New(declared, l, i) # {}
           linked == LinkedClass(declared, l, i)
           q == Stored(declared, l, i)
           p == LinkClass(declared, l, i)
           classes == [k \in DOMAIN q.classes |-> IF k = i THEN linked ELSE q.classes[k]]
<1>1. p = IF l.crashed \/ crash THEN [l EXCEPT !.crashed = TRUE]
          ELSE [q EXCEPT !.classes = classes]
  BY DEF LinkClass, LinkedClass, Made, Stored
<1>2. IsModule(q) /\ q.crashed = l.crashed /\ q.classes = l.classes
  <2>1. IsModule(made) /\ made.crashed = l.crashed /\ made.classes = l.classes
    BY MadeKeeps
  <2> DEFINE r == PutRegions(made, class)
  <2>2. q = Filled(r, Len(linked.vtable))
    BY DEF Stored
  <2> HIDE DEF made
  <2>3. IsModule(r) /\ r.crashed = l.crashed /\ r.classes = l.classes
    BY <2>1, PutRegionsKeeps
  <2> HIDE DEF r, q, linked
  <2> QED BY <2>2, <2>3, FilledKeeps
<1> DEFINE yes == TRUE
<1>3. CASE l.crashed \/ crash
  <2>1. p = [l EXCEPT !.crashed = yes] /\ yes \in BOOLEAN
    BY <1>1, <1>3
  <2> HIDE DEF yes, p
  <2>2. p = [memory |-> l.memory, used |-> l.used, crashed |-> yes, classes |-> l.classes]
    BY <2>1 DEF IsModule
  <2>3. IsModule(p) /\ p.crashed = yes
    BY <2>1, <2>2 DEF IsModule
  <2>4. IsModule(p) /\ p.crashed
    BY <2>3 DEF yes
  <2>5. LinkedTo(declared, l, i, p)
    BY <2>4 DEF LinkedTo
  <2> QED BY <2>5 DEF p
<1>4. CASE ~(l.crashed \/ crash)
  <2>1. p = [q EXCEPT !.classes = classes]
    BY <1>1, <1>4
  <2>2. classes = [k \in DOMAIN l.classes |-> IF k = i THEN linked ELSE l.classes[k]]
    BY <1>2
  <2> HIDE DEF p, classes
  <2>3. IsModule(p) /\ p.classes = classes /\ p.memory = q.memory /\ p.used = q.used
    <3> HIDE DEF q
    <3> QED BY <1>2, <2>1 DEF IsModule
  <2>4. LinkedTo(declared, l, i, p)
    BY <1>4, <2>2, <2>3 DEF LinkedTo
  <2> QED BY <2>4 DEF p
<1> QED BY <1>3, <1>4

(* The tables of a class are made from those of its superclass.            *)
LEMMA TablesFromSuper ==
    ASSUME NEW declared, NEW i, NEW l, NEW m,
           declared[i].super # 0 =>
               l.classes[declared[i].super] = m.classes[declared[i].super]
    PROVE  /\ Vtable(declared, l, i) = Vtable(declared, m, i)
           /\ VtableIndexes(declared, l, i) = VtableIndexes(declared, m, i)
           /\ declared[i].super # 0 => New(declared, l, i) = New(declared, m, i)
<1>1. CASE declared[i].super = 0
  BY <1>1 DEF Vtable, VtableIndexes
<1>2. CASE declared[i].super # 0
  <2> DEFINE a == Super(l, declared[i]).vtable
             b == Super(m, declared[i]).vtable
  <2>1. a = b
    BY <1>2 DEF Super
  <2>2. New(declared, l, i) = {j \in DOMAIN declared[i].methods :
                                  SlotsNamed(declared, a, declared[i].methods[j]) = {}}
    BY DEF New
  <2>3. New(declared, m, i) = {j \in DOMAIN declared[i].methods :
                                  SlotsNamed(declared, b, declared[i].methods[j]) = {}}
    BY DEF New
  <2> DEFINE Mine(s, t) == {j \in DOMAIN declared[i].methods :
                               /\ declared[i].methods[j] = NameOf(declared, t[s])
                               /\ s = SlotOf(declared, t, declared[i].methods[j])}
             Over(t) == [s \in DOMAIN t |-> IF Mine(s, t) = {} THEN t[s]
                                            ELSE Entry(i, Max(Mine(s, t)))]
  <2>4. Vtable(declared, l, i) = Over(a) /\ Vtable(declared, m, i) = Over(b)
    BY <1>2 DEF Vtable, Override
  <2> DEFINE Index(t) == [j \in DOMAIN declared[i].methods |->
                             SlotOf(declared, t, declared[i].methods[j]) - 1]
  <2>5. VtableIndexes(declared, l, i) = Index(a) /\ VtableIndexes(declared, m, i) = Index(b)
    BY <1>2 DEF VtableIndexes
  <2> HIDE DEF a, b, Over, Index
  <2> QED BY <2>1, <2>2, <2>3, <2>4, <2>5
<1> QED BY <1>1, <1>2

(* The states of the module between its classes, when none of them crashes *)
(* the linker.  What a class is linked to, it stays.                       *)
IsTrace(declared, g) ==
    /\ g[Len(declared)] = LinkClasses(declared) /\ g[0] = Start(declared)
    /\ \A n \in 0 .. Len(declared) :
          IsModule(g[n]) /\ ~g[n].crashed /\ DOMAIN g[n].classes = 1 .. Len(declared)
    /\ \A n \in 1 .. Len(declared) : LinkedTo(declared, g[n - 1], n, g[n])
    /\ \A s \in 1 .. Len(declared) : \A n \in s .. Len(declared) :
          g[n].classes[s] = LinkClasses(declared).classes[s]

LEMMA TraceExists ==
    ASSUME NEW declared, declared \in Declarations(Len(declared)),
           ~LinkClasses(declared).crashed
    PROVE  \E g : IsTrace(declared, g)
<1> DEFINE L == Len(declared)
           l == LinkClasses(declared)
<1>1. L \in Nat /\ DOMAIN declared = 1 .. L
  BY DEF Declarations
<1>2. PICK g : /\ l = g[L]
               /\ g[0] = Start(declared)
               /\ \A n \in 1 .. L : g[n] = LinkClass(declared, g[n - 1], n)
  BY <1>1, LinkLoop
<1> HIDE DEF l
<1>0. ASSUME NEW n \in Nat, n + 1 <= L, IsModule(g[n])
      PROVE  LinkedTo(declared, g[n], n + 1, g[n + 1])
  <2>1. n + 1 \in 1 .. L /\ (n + 1) - 1 = n
    BY <1>0, <1>1
  <2>2. g[n + 1] = LinkClass(declared, g[n], n + 1)
    BY <1>2, <2>1
  <2>3. LinkedTo(declared, g[n], n + 1, LinkClass(declared, g[n], n + 1))
    BY <1>0, ClassLinked
  <2> QED BY <2>2, <2>3
<1>3. ASSUME NEW n \in Nat
      PROVE  n <= L => IsModule(g[n])
  <2> DEFINE S == {k \in Nat : k <= L => IsModule(g[k])}
  <2>1. 0 \in S
    <3> DEFINE no == FALSE
               start == [memory |-> <<>>, used |-> 0, crashed |-> no,
                         classes |-> [k \in DOMAIN declared |-> Unlinked]]
    <3>1. g[0] = start /\ no \in BOOLEAN
      BY <1>2 DEF Start
    <3> HIDE DEF no
    <3>2. IsModule(start)
      BY <3>1 DEF IsModule
    <3> HIDE DEF start
    <3> QED BY <3>1, <3>2
  <2>2. ASSUME NEW k \in Nat, k \in S PROVE k + 1 \in S
    <3> SUFFICES ASSUME k + 1 <= L PROVE IsModule(g[k + 1])
      OBVIOUS
    <3>1. k + 1 \in 1 .. L /\ (k + 1) - 1 = k /\ IsModule(g[k])
      BY <1>1, <2>2
    <3>2. LinkedTo(declared, g[k], k + 1, g[k + 1])
      BY <1>0, <3>1
    <3> QED BY <3>2 DEF LinkedTo
  <2> HIDE DEF S
  <2>3. n \in S
    BY <2>1, <2>2, Induction
  <2> QED BY <2>3 DEF S
<1>4. ASSUME NEW n \in Nat
      PROVE  n <= L => ~g[n].crashed
  <2> DEFINE S == {k \in Nat : k <= L => ~g[L - k].crashed}
  <2>1. 0 \in S
    BY <1>1, <1>2 DEF l
  <2>2. ASSUME NEW k \in Nat, k \in S PROVE k + 1 \in S
    <3> SUFFICES ASSUME k + 1 <= L PROVE ~g[L - (k + 1)].crashed
      OBVIOUS
    <3> DEFINE p == L - (k + 1)
    <3>1. p \in Nat /\ p + 1 \in 1 .. L /\ (p + 1) - 1 = p /\ p + 1 = L - k /\ p <= L
      BY <1>1
    <3>2. ~g[p + 1].crashed
      BY <1>1, <2>2, <3>1
    <3> HIDE DEF p
    <3>3. LinkedTo(declared, g[p], p + 1, g[p + 1])
      BY <1>0, <1>3, <3>1
    <3>4. ~g[p].crashed
      BY <3>2, <3>3 DEF LinkedTo
    <3> QED BY <3>4 DEF p
  <2> HIDE DEF S
  <2>3. Nat \subseteq S
    BY <2>1, <2>2, Induction
  <2> SUFFICES ASSUME n <= L PROVE ~g[n].crashed
    OBVIOUS
  <2>4. L - n \in S /\ L - n <= L /\ L - (L - n) = n
    BY <1>1, <2>3
  <2> QED BY <2>4 DEF S
<1>5. ASSUME NEW n \in Nat, n + 1 <= L
      PROVE  /\ g[n + 1].classes = [k \in DOMAIN g[n].classes |->
                                       IF k = n + 1 THEN LinkedClass(declared, g[n], n + 1)
                                       ELSE g[n].classes[k]]
             /\ declared[n + 1].super # 0 => New(declared, g[n], n + 1) = {}
             /\ IsModule(g[n])
  <2>1. n + 1 \in 1 .. L /\ (n + 1) - 1 = n /\ n <= L /\ n + 1 \in Nat
    BY <1>1, <1>5
  <2>2. IsModule(g[n]) /\ ~g[n + 1].crashed
    BY <1>3, <1>4, <1>5, <2>1
  <2>3. LinkedTo(declared, g[n], n + 1, g[n + 1])
    BY <1>0, <2>1, <2>2
  <2> QED BY <2>2, <2>3 DEF LinkedTo
<1>6. ASSUME NEW n \in Nat
      PROVE  n <= L => DOMAIN g[n].classes = 1 .. L
  <2> DEFINE S == {k \in Nat : k <= L => DOMAIN g[k].classes = 1 .. L}
  <2>1. 0 \in S
    BY <1>1, <1>2 DEF Start
  <2>2. ASSUME NEW k \in Nat, k \in S PROVE k + 1 \in S
    <3> SUFFICES ASSUME k + 1 <= L PROVE DOMAIN g[k + 1].classes = 1 .. L
      OBVIOUS
    <3>1. DOMAIN g[k].classes = 1 .. L
      BY <1>1, <2>2
    <3>2. DOMAIN g[k + 1].classes = DOMAIN g[k].classes
      BY <1>5
    <3> QED BY <3>1, <3>2
  <2> HIDE DEF S
  <2>3. n \in S
    BY <2>1, <2>2, Induction
  <2> QED BY <2>3 DEF S
<1>7. ASSUME NEW s \in 1 .. L, NEW n \in Nat
      PROVE  s + n <= L => g[s + n].classes[s] = g[s].classes[s]
  <2> DEFINE S == {k \in Nat : s + k <= L => g[s + k].classes[s] = g[s].classes[s]}
  <2>1. 0 \in S
    BY <1>1
  <2>2. ASSUME NEW k \in Nat, k \in S PROVE k + 1 \in S
    <3> SUFFICES ASSUME s + (k + 1) <= L PROVE g[s + (k + 1)].classes[s] = g[s].classes[s]
      OBVIOUS
    <3> DEFINE p == s + k
    <3>1. p \in Nat /\ p + 1 <= L /\ p <= L /\ p + 1 = s + (k + 1) /\ s # p + 1
      BY <1>1
    <3>2. g[p].classes[s] = g[s].classes[s]
      BY <2>2, <3>1
    <3> HIDE DEF p
    <3>3. s \in DOMAIN g[p].classes
      BY <1>6, <3>1
    <3>4. g[p + 1].classes[s] = g[p].classes[s]
      BY <1>5, <3>1, <3>3, ZenonT(30)
    <3> QED BY <3>1, <3>2, <3>4
  <2> HIDE DEF S
  <2>3. n \in S
    BY <2>1, <2>2, Induction
  <2> QED BY <2>3 DEF S
<1>8. \A s \in 1 .. L : \A n \in s .. L : g[n].classes[s] = l.classes[s]
  <2> SUFFICES ASSUME NEW s \in 1 .. L, NEW n \in s .. L
               PROVE  g[n].classes[s] = l.classes[s]
    OBVIOUS
  <2>1. n - s \in Nat /\ L - s \in Nat /\ s + (n - s) = n /\ s + (L - s) = L /\ n <= L /\ L <= L
    BY <1>1
  <2>2. g[n].classes[s] = g[s].classes[s]
    BY <1>7, <2>1
  <2>3. g[L].classes[s] = g[s].classes[s]
    BY <1>7, <2>1
  <2> QED BY <1>2, <2>2, <2>3
<1>9. \A n \in 0 .. L : IsModule(g[n]) /\ ~g[n].crashed /\ DOMAIN g[n].classes = 1 .. L
  BY <1>3, <1>4, <1>6
<1>10. ASSUME NEW n \in 1 .. L PROVE LinkedTo(declared, g[n - 1], n, g[n])
  <2>1. n - 1 \in Nat /\ (n - 1) + 1 = n /\ n <= L /\ n - 1 \in 0 .. L
    BY <1>1
  <2> QED BY <1>0, <1>9, <2>1
<1> HIDE DEF L
<1>11. IsTrace(declared, g)
  BY <1>2, <1>8, <1>9, <1>10 DEF IsTrace, L, l
<1> QED BY <1>11

(* In a linked module the tables of every class that stands behind its     *)
(* superclass are made from those the superclass ends up with.             *)
LEMMA TablesLinked ==
    ASSUME NEW declared, declared \in Declarations(Len(declared)),
           ~LinkClasses(declared).crashed,
           NEW i \in DOMAIN declared, declared[i].super < i
    PROVE  LET l == LinkClasses(declared)
           IN  /\ l.classes[i].vtable = Vtable(declared, l, i)
               /\ l.classes[i].slots = VtableIndexes(declared, l, i)
               /\ declared[i].super # 0 => New(declared, l, i) = {}
<1> DEFINE L == Len(declared)
           l == LinkClasses(declared)
<1>1. L \in Nat /\ i \in 1 .. L /\ declared[i].super \in 0 .. L
  BY ClassFacts
<1>2. PICK g : IsTrace(declared, g)
  BY TraceExists
<1> DEFINE h == g[i - 1]
           made == Made(declared, h, i)
<1>3. /\ i - 1 \in 0 .. L /\ i \in 0 .. L /\ i \in i .. L
      /\ declared[i].super # 0 => declared[i].super \in 1 .. L /\ i - 1 \in declared[i].super .. L
  BY <1>1
<1>4. /\ IsModule(h) /\ i \in DOMAIN h.classes /\ ~g[i].crashed
      /\ LinkedTo(declared, h, i, g[i]) /\ g[i].classes[i] = l.classes[i]
  BY <1>1, <1>2, <1>3 DEF IsTrace
<1>5. declared[i].super # 0 => h.classes[declared[i].super] = l.classes[declared[i].super]
  BY <1>2, <1>3 DEF IsTrace
<1> HIDE DEF h, l
<1>6. /\ made.classes = h.classes
      /\ declared[i].super # 0 => New(declared, h, i) = {}
      /\ l.classes[i] = LinkedClass(declared, h, i)
  BY <1>4, MadeKeeps DEF LinkedTo
<1>7. /\ l.classes[i].vtable = Vtable(declared, made, i)
      /\ l.classes[i].slots = VtableIndexes(declared, made, i)
  BY <1>6 DEF LinkedClass
<1> HIDE DEF made
<1>8. /\ Vtable(declared, made, i) = Vtable(declared, l, i)
      /\ VtableIndexes(declared, made, i) = VtableIndexes(declared, l, i)
      /\ declared[i].super # 0 => New(declared, h, i) = New(declared, l, i)
  BY <1>5, <1>6, TablesFromSuper
<1> QED BY <1>6, <1>7, <1>8 DEF l

(* Every class of a line has the slots of the last, each for its name; in  *)
(* the first of a name is a method of the nearest class of the line that   *)
(* declares the name.                                                      *)
FirstSlot(names, s) == \A r \in DOMAIN names : names[r] = names[s] => s <= r

Served(declared, l, c, k) ==
    LET vtable == l.classes[c[k]].vtable
        names  == declared[c[Len(c)]].methods
    IN  /\ DOMAIN vtable = DOMAIN names
        /\ \A s \in DOMAIN names :
              /\ NameOf(declared, vtable[s]) = names[s]
              /\ FirstSlot(names, s) =>
                    \E q \in k .. Len(c) :
                        /\ vtable[s].class = c[q] /\ Declares(declared, c[q], names[s])
                        /\ \A r \in k .. (q - 1) : ~Declares(declared, c[r], names[s])

LEMMA EntryNames ==
    ASSUME NEW declared, NEW i, NEW j
    PROVE  NameOf(declared, Entry(i, j)) = declared[i].methods[j] /\ Entry(i, j).class = i
BY DEF NameOf, Entry

LEMMA LineServed ==
    ASSUME NEW declared, declared \in Declarations(Len(declared)),
           ~LinkClasses(declared).crashed,
           NEW i \in DOMAIN declared, InOrder(declared, i)
    PROVE  \A k \in 1 .. Len(Chain(declared, i)) :
               Served(declared, LinkClasses(declared), Chain(declared, i), k)
<1> DEFINE l == LinkClasses(declared)
           c == Chain(declared, i)
           m == Len(c)
           names == declared[c[m]].methods
<1>1. /\ IsLine(declared, c) /\ m \in Nat \ {0}
      /\ \A k \in 1 .. m : c[k] \in 1 .. i /\ declared[c[k]].super < c[k]
      /\ declared[c[m]].super = 0
  BY ChainIsLine
<1>2. \A k \in 1 .. m : c[k] \in DOMAIN declared
  <2>1. i \in 1 .. Len(declared) /\ DOMAIN declared = 1 .. Len(declared) /\ Len(declared) \in Nat
    BY ClassFacts
  <2> QED BY <1>1, <2>1
<1>3. ASSUME NEW k \in 1 .. m
      PROVE  /\ l.classes[c[k]].vtable = Vtable(declared, l, c[k])
             /\ declared[c[k]].super # 0 => New(declared, l, c[k]) = {}
  BY <1>1, <1>2, TablesLinked
<1> HIDE DEF l, c
<1>4. Served(declared, l, c, m)
  <2> DEFINE vtable == l.classes[c[m]].vtable
  <2>1. vtable = [j \in DOMAIN names |-> Entry(c[m], j)]
    BY <1>1, <1>3 DEF Vtable
  <2> HIDE DEF vtable
  <2>2. DOMAIN vtable = DOMAIN names
    BY <2>1
  <2>3. ASSUME NEW s \in DOMAIN names
        PROVE  /\ NameOf(declared, vtable[s]) = names[s]
               /\ vtable[s].class = c[m] /\ Declares(declared, c[m], names[s])
    <3>1. vtable[s] = Entry(c[m], s)
      BY <2>1
    <3>2. names[s] \in Range(names)
      BY DEF Range
    <3> QED BY <3>1, <3>2, EntryNames DEF Declares
  <2>4. m \in m .. m /\ \A r \in m .. (m - 1) : FALSE
    BY <1>1
  <2>5. ASSUME NEW s \in DOMAIN names
        PROVE  \E q \in m .. m :
                   /\ vtable[s].class = c[q] /\ Declares(declared, c[q], names[s])
                   /\ \A r \in m .. (q - 1) : ~Declares(declared, c[r], names[s])
    BY <2>3, <2>4
  <2> QED BY <2>2, <2>3, <2>5 DEF Served, vtable
<1>5. DOMAIN names \subseteq Nat
  BY <1>1, <1>2, ClassFacts
<1>6. ASSUME NEW k \in 1 .. (m - 1), Served(declared, l, c, k + 1)
      PROVE  Served(declared, l, c, k)
  <2> DEFINE d == c[k]
             vtable == l.classes[d].vtable
             inherited == l.classes[c[k + 1]].vtable
             slots(name) == SlotsNamed(declared, inherited, name)
             mine(s) == {j \in DOMAIN declared[d].methods :
                            /\ declared[d].methods[j] = NameOf(declared, inherited[s])
                            /\ s = SlotOf(declared, inherited, declared[d].methods[j])}
  <2>1. /\ k \in 1 .. m /\ k \in k .. m /\ (k + 1) .. m \subseteq k .. m
        /\ \A r \in k .. (k - 1) : FALSE
    BY <1>1
  <2>2. declared[d].super # 0 /\ declared[d].super = c[k + 1]
    BY <1>1 DEF IsLine
  <2>3. vtable = [s \in DOMAIN inherited |-> IF mine(s) = {} THEN inherited[s]
                                             ELSE Entry(d, Max(mine(s)))]
    <3> DEFINE t == Super(l, declared[d]).vtable
               its(s) == {j \in DOMAIN declared[d].methods :
                             /\ declared[d].methods[j] = NameOf(declared, t[s])
                             /\ s = SlotOf(declared, t, declared[d].methods[j])}
    <3>1. vtable = [s \in DOMAIN t |-> IF its(s) = {} THEN t[s]
                                       ELSE Entry(d, Max(its(s)))]
      <4>1. vtable = Vtable(declared, l, d)
        BY <1>3, <2>1
      <4>2. Vtable(declared, l, d) = Override(declared, l, d)
        BY <2>2 DEF Vtable
      <4> QED BY <4>1, <4>2 DEF Override
    <3>2. t = inherited
      BY <2>2 DEF Super
    <3> HIDE DEF t, inherited, vtable
    <3> QED BY <3>1, <3>2
  <2>4. DOMAIN inherited = DOMAIN names
    BY <1>6 DEF Served
  <2>5. ASSUME NEW s \in DOMAIN names
        PROVE  /\ NameOf(declared, inherited[s]) = names[s]
               /\ FirstSlot(names, s) =>
                     \E q \in (k + 1) .. m :
                         /\ inherited[s].class = c[q] /\ Declares(declared, c[q], names[s])
                         /\ \A r \in (k + 1) .. (q - 1) : ~Declares(declared, c[r], names[s])
    BY <1>6 DEF Served
  <2> HIDE DEF vtable, inherited
  <2>6. ASSUME NEW s \in DOMAIN names
        PROVE  /\ NameOf(declared, vtable[s]) = names[s]
               /\ FirstSlot(names, s) =>
                     \E q \in k .. m :
                         /\ vtable[s].class = c[q] /\ Declares(declared, c[q], names[s])
                         /\ \A r \in k .. (q - 1) : ~Declares(declared, c[r], names[s])
    <3>0. /\ mine(s) # {} => Declares(declared, d, names[s])
          /\ FirstSlot(names, s) /\ Declares(declared, d, names[s]) => mine(s) # {}
      <4>1. Declares(declared, d, names[s])
              <=> \E j \in DOMAIN declared[d].methods : declared[d].methods[j] = names[s]
        BY DEF Declares, Range
      <4>2. slots(names[s]) = {r \in DOMAIN names : names[r] = names[s]}
        BY <2>4, <2>5 DEF SlotsNamed
      <4>3. FirstSlot(names, s) => SlotOf(declared, inherited, names[s]) = s
        <5>1. slots(names[s]) \subseteq Int /\ s \in slots(names[s])
          <6>1. DOMAIN names \subseteq Int
            BY <1>5
          <6> QED BY <4>2, <6>1
        <5>2. FirstSlot(names, s) => \A r \in slots(names[s]) : s <= r
          BY <4>2 DEF FirstSlot
        <5>3. SlotOf(declared, inherited, names[s]) = Min(slots(names[s]))
          BY DEF SlotOf
        <5> HIDE DEF slots
        <5> QED BY <5>1, <5>2, <5>3, MinIs
      <4> QED BY <2>5, <4>1, <4>3
    <3>1. CASE mine(s) = {}
      <4>1. vtable[s] = inherited[s]
        BY <2>3, <2>4, <3>1
      <4> SUFFICES ASSUME FirstSlot(names, s)
                   PROVE  \E q \in k .. m :
                             /\ vtable[s].class = c[q] /\ Declares(declared, c[q], names[s])
                             /\ \A r \in k .. (q - 1) : ~Declares(declared, c[r], names[s])
        BY <2>5, <4>1
      <4>2. PICK q \in (k + 1) .. m :
                     /\ inherited[s].class = c[q] /\ Declares(declared, c[q], names[s])
                     /\ \A r \in (k + 1) .. (q - 1) : ~Declares(declared, c[r], names[s])
        BY <2>5
      <4>3. ASSUME NEW r \in k .. (q - 1)
            PROVE  ~Declares(declared, c[r], names[s])
        <5>1. r = k \/ r \in (k + 1) .. (q - 1)
          BY <1>1
        <5> QED BY <3>0, <3>1, <4>2, <5>1
      <4>4. q \in k .. m
        BY <2>1
      <4> QED BY <2>5, <4>1, <4>2, <4>3, <4>4
    <3>2. CASE mine(s) # {}
      <4> DEFINE j == Max(mine(s))
      <4>1. vtable[s] = Entry(d, j) /\ j \in mine(s)
        <5>1. vtable[s] = Entry(d, j)
          BY <2>3, <2>4, <3>2
        <5>2. mine(s) \subseteq 1 .. Len(declared[d].methods) /\ Len(declared[d].methods) \in Nat
          BY <1>2, <2>1, ClassFacts
        <5>3. Max(mine(s)) \in mine(s)
          <6> HIDE DEF mine
          <6> QED BY <3>2, <5>2, MaxExists
        <5> QED BY <5>1, <5>3
      <4>2. declared[d].methods[j] = names[s]
        BY <2>5, <4>1
      <4> HIDE DEF j, mine
      <4>3. NameOf(declared, vtable[s]) = names[s] /\ vtable[s].class = d
        BY <4>1, <4>2, EntryNames
      <4> QED BY <2>1, <3>0, <3>2, <4>3
    <3> QED BY <3>1, <3>2
  <2>7. DOMAIN vtable = DOMAIN names
    BY <2>3, <2>4
  <2> HIDE DEF mine
  <2> QED BY <2>6, <2>7 DEF Served, vtable
<1>7. \A k \in 1 .. m : Served(declared, l, c, k)
  <2> DEFINE T == {n \in Nat : n < m => Served(declared, l, c, m - n)}
  <2>1. 0 \in T
    BY <1>1, <1>4
  <2>2. ASSUME NEW n \in Nat, n \in T PROVE n + 1 \in T
    <3> SUFFICES ASSUME n + 1 < m PROVE Served(declared, l, c, m - (n + 1))
      OBVIOUS
    <3> DEFINE p == m - (n + 1)
    <3>1. p \in 1 .. (m - 1) /\ p + 1 = m - n /\ n < m
      BY <1>1
    <3>2. Served(declared, l, c, p + 1)
      BY <2>2, <3>1
    <3> HIDE DEF p
    <3>3. Served(declared, l, c, p)
      BY <1>6, <3>1, <3>2
    <3> QED BY <3>3 DEF p
  <2> HIDE DEF T
  <2>3. Nat \subseteq T
    BY <2>1, <2>2, Induction
  <2> SUFFICES ASSUME NEW k \in 1 .. m PROVE Served(declared, l, c, k)
    OBVIOUS
  <2>4. m - k \in T /\ m - k < m /\ m - (m - k) = k
    BY <1>1, <2>3
  <2> QED BY <2>4 DEF T
<1> QED BY <1>7 DEF l, c

LEMMA CallServed ==
    ASSUME NEW declared, declared \in Declarations(Len(declared)),
           ~LinkClasses(declared).crashed,
           NEW i \in DOMAIN declared, InOrder(declared, i),
           NEW d, IsAssignableTo(declared, i, d),
           NEW j \in DOMAIN declared[d].methods, ~IndexNotSet(declared, d, j)
    PROVE  DispatchesRight(declared, LinkClasses(declared), i, d, j)
<1> DEFINE l == LinkClasses(declared)
           c == Chain(declared, i)
           m == Len(c)
           names == declared[c[m]].methods
           name == declared[d].methods[j]
<1>1. /\ IsLine(declared, c) /\ m \in Nat \ {0} /\ c[1] = i /\ DOMAIN c = 1 .. m
      /\ \A k \in 1 .. m : c[k] \in 1 .. i /\ declared[c[k]].super < c[k]
      /\ declared[c[m]].super = 0
  BY ChainIsLine DEF IsLine
<1>2. \A k \in 1 .. m : Served(declared, l, c, k)
  BY LineServed
<1>3. PICK k \in 1 .. m : d = c[k]
  BY <1>1 DEF IsAssignableTo, Range
<1>4. d \in DOMAIN declared
  <2>1. i \in 1 .. Len(declared) /\ DOMAIN declared = 1 .. Len(declared) /\ Len(declared) \in Nat
    BY ClassFacts
  <2> QED BY <1>1, <1>3, <2>1
<1>5. /\ l.classes[d].slots = VtableIndexes(declared, l, d)
      /\ declared[d].super # 0 => New(declared, l, d) = {}
  BY <1>1, <1>3, <1>4, TablesLinked
<1> HIDE DEF l, c
<1>6. \E s \in DOMAIN names : /\ names[s] = name /\ l.classes[d].slots[j] + 1 = s
                              /\ FirstSlot(names, s)
  <2>1. CASE declared[d].super = 0
    <3>1. k = m
      <4>1. ~(k \in 1 .. (m - 1))
        BY <1>1, <1>3, <2>1 DEF IsLine
      <4>2. m \in Nat /\ k \in 1 .. m
        BY <1>1
      <4> QED BY <4>1, <4>2
    <3>2. j = 1 /\ l.classes[d].slots[j] = 0
      BY <1>5, <2>1 DEF VtableIndexes, IndexNotSet
    <3>3. d = c[m] /\ j \in DOMAIN names /\ names[j] = name
      BY <1>3, <3>1
    <3>4. DOMAIN names = 1 .. Len(names)
      BY <1>4, <3>3, ClassFacts
    <3>5. FirstSlot(names, j)
      BY <3>2, <3>4 DEF FirstSlot
    <3> HIDE DEF names, name
    <3> QED BY <3>2, <3>3, <3>5
  <2>2. CASE declared[d].super # 0
    <3>1. k \in 1 .. (m - 1) /\ k + 1 \in 1 .. m
      BY <1>1, <1>3, <2>2
    <3>2. declared[d].super = c[k + 1]
      BY <1>1, <1>3, <3>1 DEF IsLine
    <3> DEFINE vtable == l.classes[c[k + 1]].vtable
               slots == SlotsNamed(declared, vtable, name)
               s == SlotOf(declared, vtable, name)
    <3>3. slots # {}
      BY <1>5, <2>2, <3>2 DEF New, Super
    <3>4. l.classes[d].slots[j] = s - 1
      BY <1>5, <2>2, <3>2 DEF VtableIndexes, Super
    <3>5. Served(declared, l, c, k + 1)
      BY <1>2, <3>1
    <3>6. slots = {r \in DOMAIN names : names[r] = name}
      BY <3>5 DEF Served, SlotsNamed
    <3>7. DOMAIN names \subseteq Nat
      <4>1. c[m] \in DOMAIN declared
        <5>1. i \in 1 .. Len(declared) /\ DOMAIN declared = 1 .. Len(declared) /\ Len(declared) \in Nat
          BY ClassFacts
        <5>2. c[m] \in 1 .. i
          BY <1>1
        <5> QED BY <5>1, <5>2
      <4>2. names \in Seq(STRING)
        BY <4>1, ClassFacts
      <4> HIDE DEF names
      <4> QED BY <4>2
    <3>8. s \in slots /\ \A r \in slots : s <= r
      <4>1. slots \subseteq Nat /\ s = Min(slots)
        BY <3>6, <3>7 DEF SlotOf
      <4> HIDE DEF slots, s
      <4> QED BY <3>3, <4>1, MinExists
    <3> HIDE DEF s, slots
    <3>9. s \in DOMAIN names /\ names[s] = name /\ FirstSlot(names, s) /\ s \in Nat
      BY <3>6, <3>7, <3>8 DEF FirstSlot
    <3> QED BY <3>4, <3>9
  <2> QED BY <2>1, <2>2
<1>7. PICK s \in DOMAIN names : /\ names[s] = name /\ l.classes[d].slots[j] + 1 = s
                               /\ FirstSlot(names, s)
  BY <1>6
<1> DEFINE entry == l.classes[i].vtable[s]
<1>8. DispatchMethod(l, i, d, j) = entry
  BY <1>7 DEF DispatchMethod
<1>9. /\ NameOf(declared, entry) = name
      /\ \E q \in 1 .. m : /\ entry.class = c[q] /\ Declares(declared, c[q], name)
                           /\ \A r \in 1 .. (q - 1) : ~Declares(declared, c[r], name)
  <2>1. Served(declared, l, c, 1)
    BY <1>1, <1>2
  <2> QED BY <1>1, <1>7, <2>1 DEF Served
<1>10. PICK q \in 1 .. m : /\ entry.class = c[q] /\ Declares(declared, c[q], name)
                           /\ \A r \in 1 .. (q - 1) : ~Declares(declared, c[r], name)
  BY <1>9
<1> HIDE DEF entry, name
<1> DEFINE S == {r \in DOMAIN c : Declares(declared, c[r], name)}
<1>11. q \in S /\ \A r \in S : q <= r
  <2>1. q \in S
    BY <1>1, <1>10
  <2>2. ASSUME NEW r \in S PROVE q <= r
    <3>1. r \in 1 .. m /\ ~(r \in 1 .. (q - 1))
      BY <1>1, <1>10
    <3> QED BY <1>1, <3>1
  <2> QED BY <2>1, <2>2
<1>12. Min(S) = q
  <2>1. S \subseteq Int
    BY <1>1
  <2> HIDE DEF S
  <2> QED BY <1>11, <2>1, MinIs
<1>13. entry.class = Nearest(declared, i, name)
  BY <1>10, <1>12 DEF Nearest, c
<1> QED BY <1>8, <1>9, <1>13 DEF DispatchesRight, l, name

(* In a module of any number of classes whose linking ends, a call of a    *)
(* method runs that of the nearest class that has one of the name.  This   *)
(* is said of the methods that were given an index: not of the second and  *)
(* later methods of a class without a superclass.  A module in which a     *)
(* subclass adds a method of a new name is not among them: its linking     *)
(* does not end.                                                           *)
THEOREM CallsFindOverride == AllSpec => []DispatchFindsOverride
<1>1. ProblemInv /\ UNCHANGED problem => ProblemInv'
  BY DEF ProblemInv
<1>2. ProblemInv => DispatchFindsOverride
  <2> SUFFICES ASSUME ProblemInv, problem.kind = "module"
               PROVE  DispatchFindsOverride
    BY DEF DispatchFindsOverride
  <2> DEFINE declared == problem.declared
             l == LinkClasses(declared)
  <2>1. declared \in Declarations(Len(declared))
    BY ModulesAssumption DEF ProblemInv
  <2>2. ASSUME ~l.crashed, NEW i \in DOMAIN declared, InOrder(declared, i),
               NEW d, IsAssignableTo(declared, i, d),
               NEW j \in DOMAIN declared[d].methods, ~IndexNotSet(declared, d, j)
        PROVE  DispatchesRight(declared, l, i, d, j)
    BY <2>1, <2>2, CallServed
  <2> HIDE DEF l
  <2>3. ~l.crashed =>
           \A i \in DOMAIN declared : InOrder(declared, i) =>
               \A d \in {k \in 1 .. i : IsAssignableTo(declared, i, k)} :
                   \A j \in DOMAIN declared[d].methods :
                       ~IndexNotSet(declared, d, j) => DispatchesRight(declared, l, i, d, j)
    BY <2>2
  <2> QED BY <2>3 DEF DispatchFindsOverride, l
<1> QED BY <1>1, <1>2, ProblemStarts, ProblemStays, PTL DEF AllSpec

-----------------------------------------------------------------------------
(* Where fields lie, and the lists of references                           *)

(* The types, in the order of their buckets: the wider first.              *)
SizeOfRank(k) == IF k <= 10 THEN 8 ELSE IF k <= 13 THEN 4 ELSE IF k <= 15 THEN 2 ELSE 1

LEMMA TypeRanks ==
    ASSUME NEW t \in Type
    PROVE  /\ Rank(t) \in 1 .. 17 /\ BucketOrder[Rank(t)] = t
           /\ Size(t) = SizeOfRank(Rank(t))
           /\ (Rank(t) = 1 <=> t = "Reference")
<1>1. \E k \in 1 .. 17 : BucketOrder[k] = t
  <2>1. \A k \in 1 .. 17 : \E j \in 1 .. 17 : BucketOrder[j] = Types[k]
    BY DEF BucketOrder, Types
  <2>2. PICK k \in 1 .. 17 : t = Types[k]
    BY DEF Type, Types
  <2> QED BY <2>1, <2>2
<1>2. DOMAIN BucketOrder = 1 .. 17
  BY DEF BucketOrder
<1>3. Rank(t) \in 1 .. 17 /\ BucketOrder[Rank(t)] = t
  BY <1>1, <1>2 DEF Rank
<1>4. \A k \in 1 .. 17 : /\ Size(BucketOrder[k]) = SizeOfRank(k)
                         /\ (k = 1 <=> BucketOrder[k] = "Reference")
  BY DEF BucketOrder, Size, SizeOfRank, GetPrimitiveSizeForType
<1> QED BY <1>3, <1>4

LEMMA SizesDivide ==
    ASSUME NEW t \in Type, NEW u \in Type, Rank(t) <= Rank(u)
    PROVE  /\ Size(t) \in {1, 2, 4, 8} /\ Size(u) \in {1, 2, 4, 8}
           /\ \E k \in Nat : Size(t) = k * Size(u)
           /\ \E k \in Nat : 8 = k * Size(u)
<1> DEFINE r == Rank(t)
           q == Rank(u)
<1>1. r \in 1 .. 17 /\ q \in 1 .. 17 /\ Size(t) = SizeOfRank(r) /\ Size(u) = SizeOfRank(q)
  BY TypeRanks
<1>2. r <= q
  OBVIOUS
<1> HIDE DEF r, q
<1>3. Size(t) \in {1, 2, 4, 8} /\ Size(u) \in {1, 2, 4, 8} /\ Size(u) <= Size(t)
  BY <1>1, <1>2 DEF SizeOfRank
<1>4. /\ 8 = 1 * 8 /\ 8 = 2 * 4 /\ 8 = 4 * 2 /\ 8 = 8 * 1 /\ 4 = 1 * 4 /\ 4 = 2 * 2 /\ 4 = 4 * 1
      /\ 2 = 1 * 2 /\ 2 = 2 * 1 /\ 1 = 1 * 1
  OBVIOUS
<1>5. \E k \in Nat : Size(t) = k * Size(u)
  BY <1>3, <1>4
<1>6. \E k \in Nat : 8 = k * Size(u)
  BY <1>3, <1>4
<1> QED BY <1>3, <1>5, <1>6

(* The bytes of some fields, as a sum of a function.                       *)
SizesOf(fields) == [k \in DOMAIN fields |-> Size(fields[k])]

LEMMA BytesAreTotal ==
    ASSUME NEW fields, NEW S, S \subseteq DOMAIN fields
    PROVE  BytesOf(fields, S) = Total(SizesOf(fields), S)
<1> DEFINE Sized(g) == [s \in SUBSET S |->
                          IF s = {} THEN 0
                          ELSE Size(fields[CHOOSE x \in s : TRUE]) + g[s \ {CHOOSE x \in s : TRUE}]]
<1>1. BytesOf(fields, S) = (CHOOSE g : g = Sized(g))[S]
  BY DEF BytesOf, MapThenSumSet, MapThenFoldSet
<1>2. ASSUME NEW g PROVE Sized(g) = Summing(SizesOf(fields), S, g)
  <2>1. ASSUME NEW s \in SUBSET S, s # {}
        PROVE  Size(fields[CHOOSE x \in s : TRUE]) = SizesOf(fields)[CHOOSE x \in s : TRUE]
    <3>1. (CHOOSE x \in s : TRUE) \in DOMAIN fields
      BY <2>1
    <3> QED BY <3>1 DEF SizesOf
  <2> QED BY <2>1 DEF Summing
<1> HIDE DEF Sized
<1>3. \A g : g = Sized(g) <=> g = Summing(SizesOf(fields), S, g)
  BY <1>2
<1> QED BY <1>1, <1>3 DEF Total

(* Where the fields of a class lie.                                        *)
LEMMA BeforeFacts ==
    ASSUME NEW fields \in Seq(Type), NEW j \in DOMAIN fields
    PROVE  /\ IsFiniteSet(DOMAIN fields) /\ DOMAIN fields \subseteq Nat
           /\ Before(fields, j) \subseteq DOMAIN fields /\ j \notin Before(fields, j)
           /\ \A k \in Before(fields, j) :
                 /\ Before(fields, k) \union {k} \subseteq Before(fields, j)
                 /\ Rank(fields[k]) <= Rank(fields[j])
           /\ \A k \in DOMAIN fields : k = j \/ k \in Before(fields, j) \/ j \in Before(fields, k)
<1>1. DOMAIN fields = 1 .. Len(fields) /\ Len(fields) \in Nat
  OBVIOUS
<1>2. IsFiniteSet(DOMAIN fields) /\ DOMAIN fields \subseteq Nat
  BY <1>1, FS_Interval
<1>3. \A k \in DOMAIN fields : fields[k] \in Type
  OBVIOUS
<1>4. \A k \in DOMAIN fields : Rank(fields[k]) \in Nat /\ BucketOrder[Rank(fields[k])] = fields[k]
  BY <1>3, TypeRanks
<1>5. \A k \in DOMAIN fields : \A m :
         m \in Before(fields, k) <=> /\ m \in DOMAIN fields
                                     /\ \/ Rank(fields[m]) < Rank(fields[k])
                                        \/ fields[m] = fields[k] /\ m < k
  BY DEF Before
<1>6. Before(fields, j) \subseteq DOMAIN fields /\ j \notin Before(fields, j)
  <2>1. Before(fields, j) \subseteq DOMAIN fields
    BY DEF Before
  <2>2. Rank(fields[j]) \in Nat /\ j \in Nat
    BY <1>2, <1>4
  <2>3. ~(Rank(fields[j]) < Rank(fields[j])) /\ ~(j < j)
    BY <2>2
  <2>4. j \notin Before(fields, j)
    BY <1>5, <2>3
  <2> QED BY <2>1, <2>4
<1>7. ASSUME NEW k \in Before(fields, j)
      PROVE  /\ Before(fields, k) \union {k} \subseteq Before(fields, j)
             /\ Rank(fields[k]) <= Rank(fields[j])
  <2>1. k \in DOMAIN fields
    BY <1>6
  <2>2. Rank(fields[k]) < Rank(fields[j]) \/ (fields[k] = fields[j] /\ k < j)
    BY <1>5
  <2>3. ASSUME NEW m \in Before(fields, k) PROVE m \in Before(fields, j)
    <3>1. m \in DOMAIN fields /\ (Rank(fields[m]) < Rank(fields[k]) \/ (fields[m] = fields[k] /\ m < k))
      BY <1>5, <2>1
    <3>2. m \in Nat /\ k \in Nat /\ j \in Nat
      BY <1>2, <2>1, <3>1
    <3>3. Rank(fields[m]) \in Nat /\ Rank(fields[k]) \in Nat /\ Rank(fields[j]) \in Nat
      BY <1>4, <2>1, <3>1
    <3>4. Rank(fields[m]) < Rank(fields[j]) \/ (fields[m] = fields[j] /\ m < j)
      BY <2>2, <3>1, <3>2, <3>3
    <3> QED BY <1>5, <3>1, <3>4
  <2> QED BY <1>4, <2>1, <2>2, <2>3
<1>8. ASSUME NEW k \in DOMAIN fields PROVE k = j \/ k \in Before(fields, j) \/ j \in Before(fields, k)
  <2>1. Rank(fields[k]) \in Nat /\ Rank(fields[j]) \in Nat /\ k \in Nat /\ j \in Nat
    BY <1>2, <1>4
  <2>2. Rank(fields[k]) = Rank(fields[j]) => fields[k] = fields[j]
    BY <1>4
  <2>3. \/ k = j
        \/ Rank(fields[k]) < Rank(fields[j])
        \/ Rank(fields[j]) < Rank(fields[k])
        \/ fields[k] = fields[j] /\ (k < j \/ j < k)
    BY <2>1, <2>2
  <2> QED BY <1>5, <2>3
<1> QED BY <1>2, <1>6, <1>7, <1>8

LEMMA SizesArePositive ==
    ASSUME NEW fields \in Seq(Type)
    PROVE  \A k \in DOMAIN fields : SizesOf(fields)[k] \in Nat /\ SizesOf(fields)[k] = Size(fields[k])
<1> SUFFICES ASSUME NEW k \in DOMAIN fields
             PROVE  SizesOf(fields)[k] \in Nat /\ SizesOf(fields)[k] = Size(fields[k])
  OBVIOUS
<1>1. fields[k] \in Type /\ Rank(fields[k]) <= Rank(fields[k])
  BY TypeRanks
<1>2. Size(fields[k]) \in {1, 2, 4, 8}
  BY <1>1, SizesDivide
<1> QED BY <1>2 DEF SizesOf

LEMMA FieldPlaces ==
    ASSUME NEW fields \in Seq(Type), NEW base \in Nat, \E q \in Nat : base = q * 8,
           NEW j \in DOMAIN fields
    PROVE  LET at(k) == base + BytesOf(fields, Before(fields, k))
               end   == base + BytesOf(fields, DOMAIN fields)
               size(k) == Size(fields[k])
           IN  /\ at(j) \in Nat /\ end \in Nat /\ size(j) \in {1, 2, 4, 8}
               /\ base <= at(j) /\ at(j) + size(j) <= end
               /\ \E q \in Nat : at(j) = q * size(j)
               /\ \A k \in Before(fields, j) : at(k) + size(k) <= at(j)
<1> DEFINE f == SizesOf(fields)
           D == DOMAIN fields
           B(k) == Before(fields, k)
           at(k) == base + Total(f, B(k))
           end   == base + Total(f, D)
<1>1. IsFiniteSet(D) /\ \A k \in D : f[k] \in Nat /\ f[k] \in Int /\ f[k] = Size(fields[k])
  BY BeforeFacts, SizesArePositive
<1>2. \A k \in D : B(k) \subseteq D /\ k \notin B(k)
  BY BeforeFacts
<1>3. \A S \in SUBSET D : IsFiniteSet(S) /\ Total(f, S) \in Nat
  <2> SUFFICES ASSUME NEW S \in SUBSET D PROVE IsFiniteSet(S) /\ Total(f, S) \in Nat
    OBVIOUS
  <2>1. IsFiniteSet(S)
    BY <1>1, FS_Subset
  <2>2. Total(f, S) \in Int
    BY <1>1, <2>1, SumIsInteger
  <2>3. 0 <= Total(f, S)
    BY <1>1, SumGrows
  <2> QED BY <2>1, <2>2, <2>3
<1>4. \A k \in D : BytesOf(fields, B(k)) = Total(f, B(k))
  BY <1>2, BytesAreTotal
<1>5. BytesOf(fields, D) = Total(f, D)
  BY BytesAreTotal
(* A field and those before it, within some more.                          *)
<1>6. ASSUME NEW k \in D, NEW S \in SUBSET D, B(k) \union {k} \subseteq S
      PROVE  Total(f, B(k)) + f[k] <= Total(f, S)
  <2>1. Total(f, B(k) \union {k}) = f[k] + Total(f, B(k))
    BY <1>1, <1>2, <1>3, SumWith
  <2>2. IsFiniteSet(S) /\ \A x \in S : f[x] \in Nat
    BY <1>1, <1>3
  <2>3. Total(f, B(k) \union {k}) <= Total(f, S)
    BY <1>6, <2>2, SumGrows
  <2>4. Total(f, B(k)) \in Nat /\ f[k] \in Nat
    BY <1>1, <1>2, <1>3
  <2> QED BY <2>1, <2>3, <2>4
<1>7. at(j) \in Nat /\ end \in Nat /\ base <= at(j) /\ at(j) + f[j] <= end
  <2>1. Total(f, B(j)) \in Nat /\ Total(f, D) \in Nat /\ f[j] \in Nat
    BY <1>1, <1>2, <1>3
  <2>2. Total(f, B(j)) + f[j] <= Total(f, D)
    BY <1>2, <1>6
  <2> QED BY <2>1, <2>2
<1>8. ASSUME NEW k \in B(j) PROVE at(k) + f[k] <= at(j)
  <2>1. k \in D /\ B(j) \in SUBSET D /\ B(k) \union {k} \subseteq B(j)
    BY <1>2, BeforeFacts
  <2>2. Total(f, B(k)) + f[k] <= Total(f, B(j))
    BY <1>6, <2>1
  <2>3. Total(f, B(j)) \in Nat /\ Total(f, B(k)) \in Nat /\ f[k] \in Nat
    BY <1>1, <1>2, <1>3, <2>1
  <2> QED BY <2>2, <2>3
<1>9. Size(fields[j]) \in {1, 2, 4, 8} /\ \E k \in Nat : 8 = k * Size(fields[j])
  <2>1. fields[j] \in Type /\ Rank(fields[j]) <= Rank(fields[j])
    BY TypeRanks
  <2> QED BY <2>1, SizesDivide
<1>10. \E q \in Nat : at(j) = q * Size(fields[j])
  <2> DEFINE d == Size(fields[j])
  <2>1. \A x \in B(j) : \E k \in Nat : f[x] = k * d
    <3> SUFFICES ASSUME NEW x \in B(j) PROVE \E k \in Nat : f[x] = k * d
      OBVIOUS
    <3>1. fields[x] \in Type /\ fields[j] \in Type /\ Rank(fields[x]) <= Rank(fields[j]) /\ x \in D
      BY <1>2, BeforeFacts
    <3>2. \E k \in Nat : Size(fields[x]) = k * Size(fields[j])
      BY <3>1, SizesDivide
    <3> QED BY <1>1, <3>1, <3>2
  <2>2. d \in Nat
    BY <1>9
  <2>3. PICK n \in Nat : 8 = n * d
    BY <1>9
  <2>4. PICK q \in Nat : base = q * 8
    OBVIOUS
  <2>5. IsFiniteSet(B(j))
    BY <1>2, <1>3
  <2> DEFINE S == B(j)
  <2> HIDE DEF d, f, S
  <2>6. PICK m \in Nat : Total(f, S) = m * d
    <3>1. \A x \in S : f[x] \in Multiples(d)
      BY <2>1 DEF S, Multiples
    <3>2. IsFiniteSet(S)
      BY <2>5 DEF S
    <3>3. Total(f, S) \in Multiples(d)
      BY <2>2, <3>1, <3>2, SumOfMultiples
    <3> QED BY <3>3 DEF Multiples
  <2>7. q * (n * d) + m * d = (q * n + m) * d /\ q * n + m \in Nat
    BY <2>2
  <2>8. at(j) = (q * n + m) * d
    <3>1. base = q * (n * d)
      BY <2>3, <2>4
    <3> QED BY <2>6, <2>7, <3>1 DEF S
  <2> QED BY <2>7, <2>8 DEF d
<1>11. f[j] = Size(fields[j]) /\ \A k \in B(j) : k \in D /\ f[k] = Size(fields[k])
  BY <1>1, <1>2
<1> HIDE DEF f, D
<1>12. ASSUME NEW k \in B(j)
       PROVE  base + BytesOf(fields, Before(fields, k)) + Size(fields[k])
                 <= base + BytesOf(fields, Before(fields, j))
  <2>1. at(k) + f[k] <= at(j) /\ k \in D /\ j \in D
    BY <1>8, <1>11 DEF D
  <2> QED BY <1>4, <1>11, <2>1
<1>13. j \in D
  BY DEF D
<1> QED BY <1>4, <1>5, <1>7, <1>9, <1>10, <1>11, <1>12, <1>13 DEF D

(* The size and the offsets of a linked class follow from the size that    *)
(* its superclass ends up with.                                            *)
LEMMA SizesLinked ==
    ASSUME NEW declared, declared \in Declarations(Len(declared)),
           ~LinkClasses(declared).crashed,
           NEW i \in DOMAIN declared, declared[i].super < i
    PROVE  LET l == LinkClasses(declared)
           IN  /\ l.classes[i].size = MemorySize(l, declared[i])
               /\ l.classes[i].offsets = Offsets(l, declared[i])
<1> DEFINE L == Len(declared)
           l == LinkClasses(declared)
           class == declared[i]
<1>1. L \in Nat /\ i \in 1 .. L /\ class.super \in 0 .. L
  BY ClassFacts
<1>2. PICK g : IsTrace(declared, g)
  BY TraceExists
<1> DEFINE h == g[i - 1]
           made == Made(declared, h, i)
<1>3. /\ i - 1 \in 0 .. L /\ i \in 0 .. L /\ i \in i .. L
      /\ class.super # 0 => class.super \in 1 .. L /\ i - 1 \in class.super .. L
  BY <1>1
<1>4. /\ IsModule(h) /\ i \in DOMAIN h.classes /\ ~g[i].crashed
      /\ LinkedTo(declared, h, i, g[i]) /\ g[i].classes[i] = l.classes[i]
  BY <1>1, <1>2, <1>3 DEF IsTrace
<1>5. class.super # 0 => h.classes[class.super] = l.classes[class.super]
  BY <1>2, <1>3 DEF IsTrace
<1> HIDE DEF h, l
<1>6. made.classes = h.classes /\ l.classes[i] = LinkedClass(declared, h, i)
  BY <1>4, MadeKeeps DEF LinkedTo
<1>7. l.classes[i].size = MemorySize(made, class) /\ l.classes[i].offsets = Offsets(made, class)
  BY <1>6 DEF LinkedClass
<1>8. Base(made, class) = Base(l, class)
  BY <1>5, <1>6 DEF Base, Super
<1> HIDE DEF made
<1>9. MemorySize(made, class) = MemorySize(l, class) /\ Offsets(made, class) = Offsets(l, class)
  BY <1>8 DEF MemorySize, Offsets
<1> QED BY <1>7, <1>9 DEF l

LEMMA Align8 ==
    ASSUME NEW n \in Nat
    PROVE  AlignUp(n, 8) \in Nat /\ n <= AlignUp(n, 8) /\ \E q \in Nat : AlignUp(n, 8) = q * 8
<1> DEFINE q == (n + 7) \div 8
<1>1. q \in Nat /\ n <= q * 8 /\ q * 8 \in Nat
  OBVIOUS
<1>2. AlignUp(n, 8) = q * 8
  BY DEF AlignUp
<1> HIDE DEF q
<1> QED BY <1>1, <1>2

(* Along a line, each class begins behind the ends of all those above.     *)
Stacked(declared, l, c, k) ==
    LET base == Base(l, declared[c[k]])
        size == l.classes[c[k]].size
    IN  /\ base \in Nat /\ size \in Nat /\ base <= size /\ \E q \in Nat : base = q * 8
        /\ \A q \in (k + 1) .. Len(c) :
              l.classes[c[q]].size \in Nat /\ l.classes[c[q]].size <= base

LEMMA LineStacked ==
    ASSUME NEW declared, declared \in Declarations(Len(declared)),
           ~LinkClasses(declared).crashed,
           NEW i \in DOMAIN declared, InOrder(declared, i)
    PROVE  \A k \in 1 .. Len(Chain(declared, i)) :
               Stacked(declared, LinkClasses(declared), Chain(declared, i), k)
<1> DEFINE l == LinkClasses(declared)
           c == Chain(declared, i)
           m == Len(c)
<1>1. /\ IsLine(declared, c) /\ m \in Nat \ {0}
      /\ \A k \in 1 .. m : c[k] \in 1 .. i /\ declared[c[k]].super < c[k]
      /\ declared[c[m]].super = 0
  BY ChainIsLine
<1>2. \A k \in 1 .. m : c[k] \in DOMAIN declared
  <2>1. i \in 1 .. Len(declared) /\ DOMAIN declared = 1 .. Len(declared) /\ Len(declared) \in Nat
    BY ClassFacts
  <2> QED BY <1>1, <2>1
<1>3. ASSUME NEW k \in 1 .. m
      PROVE  /\ l.classes[c[k]].size = MemorySize(l, declared[c[k]])
             /\ declared[c[k]].fields \in Seq(Type)
  <2>1. l.classes[c[k]].size = MemorySize(l, declared[c[k]])
    BY <1>1, <1>2, SizesLinked
  <2>2. declared[c[k]].fields \in Seq(Type)
    BY <1>2, ClassFacts
  <2> QED BY <2>1, <2>2
<1> HIDE DEF l, c
<1> DEFINE S == {k \in 1 .. m : Stacked(declared, l, c, k)}
(* From where a class begins, to where it ends.                            *)
<1>4. ASSUME NEW k \in 1 .. m, NEW n \in Nat, Base(l, declared[c[k]]) = AlignUp(n, 8)
      PROVE  LET base == Base(l, declared[c[k]])
                 size == l.classes[c[k]].size
             IN  /\ n <= base /\ base \in Nat /\ size \in Nat /\ base <= size
                 /\ \E q \in Nat : base = q * 8
  <2> DEFINE base == Base(l, declared[c[k]])
             fields == declared[c[k]].fields
             D == DOMAIN fields
             total == BytesOf(fields, D)
  <2>1. n <= base /\ base \in Nat /\ \E q \in Nat : base = q * 8
    BY <1>4, Align8
  <2>2. l.classes[c[k]].size = base + total
    BY <1>3 DEF MemorySize
  <2>3. total \in Nat
    <3>1. fields \in Seq(Type)
      BY <1>3
    <3> HIDE DEF fields
    <3>2. total = Total(SizesOf(fields), D) /\ IsFiniteSet(D)
      <4>1. D = 1 .. Len(fields) /\ Len(fields) \in Nat
        BY <3>1
      <4> QED BY <4>1, BytesAreTotal, FS_Interval
    <3>3. \A x \in D : SizesOf(fields)[x] \in Nat /\ SizesOf(fields)[x] \in Int
      BY <3>1, SizesArePositive
    <3> HIDE DEF total, D
    <3>4. 0 <= Total(SizesOf(fields), D) /\ Total(SizesOf(fields), D) \in Int
      BY <3>2, <3>3, SumGrows, SumIsInteger
    <3> QED BY <3>2, <3>4
  <2> HIDE DEF base, total
  <2>4. base + total \in Nat /\ base <= base + total
    BY <2>1, <2>3
  <2> QED BY <2>1, <2>2, <2>4 DEF base
<1>5. m \in S
  <2>1. m \in 1 .. m /\ \A q \in (m + 1) .. m : FALSE
    BY <1>1
  <2>2. Base(l, declared[c[m]]) = AlignUp(0, 8)
    BY <1>1 DEF Base
  <2> QED BY <1>4, <2>1, <2>2 DEF Stacked
<1>6. ASSUME NEW k \in 1 .. (m - 1), k + 1 \in S
      PROVE  k \in S
  <2> DEFINE base == Base(l, declared[c[k]])
             next1 == l.classes[c[k + 1]].size
  <2>1. k \in 1 .. m /\ k + 1 \in 1 .. m
    BY <1>1
  <2>2. declared[c[k]].super # 0 /\ declared[c[k]].super = c[k + 1]
    BY <1>1 DEF IsLine
  <2>3. base = AlignUp(next1, 8)
    BY <2>2 DEF Base, Super
  <2>4. Stacked(declared, l, c, k + 1)
    BY <1>6
  <2>5. next1 \in Nat
    BY <2>4 DEF Stacked
  <2>6. /\ next1 <= base /\ base \in Nat /\ l.classes[c[k]].size \in Nat
        /\ base <= l.classes[c[k]].size /\ \E q \in Nat : base = q * 8
    BY <1>4, <2>1, <2>3, <2>5
  <2>7. ASSUME NEW q \in (k + 1) .. m
        PROVE  l.classes[c[q]].size \in Nat /\ l.classes[c[q]].size <= base
    <3>1. CASE q = k + 1
      BY <2>5, <2>6, <3>1
    <3>2. CASE q # k + 1
      <4>1. q \in ((k + 1) + 1) .. m /\ q \in 1 .. m
        BY <1>1, <3>2
      <4> DEFINE up == Base(l, declared[c[k + 1]])
                 size == l.classes[c[q]].size
      <4>2. size \in Nat /\ size <= up /\ up \in Nat /\ up <= next1
        BY <2>4, <4>1 DEF Stacked
      <4> HIDE DEF up, size, base, next1
      <4> QED BY <2>5, <2>6, <4>2 DEF size
    <3> QED BY <3>1, <3>2
  <2> HIDE DEF base
  <2> QED BY <2>1, <2>6, <2>7 DEF Stacked, base
<1> HIDE DEF S
<1>7. 1 .. m \subseteq S
  BY <1>1, <1>5, <1>6, DownInduction
<1> QED BY <1>7 DEF S, l, c

(* Fields lie inside the instance, aligned, and apart from each other.     *)
LiesAt(declared, l, i, f) ==
    LET at   == OffsetOf(l, f)
        size == Size(TypeOf(declared, f))
    IN  /\ TypeOf(declared, f) \in Type /\ size \in {1, 2, 4, 8}
        /\ at \in Nat /\ at + size <= l.classes[i].size
        /\ \E q \in Nat : at = q * size

Behind(declared, l, f, g) == OffsetOf(l, f) + Size(TypeOf(declared, f)) <= OffsetOf(l, g)

LEMMA FieldInClass ==
    ASSUME NEW declared, declared \in Declarations(Len(declared)),
           ~LinkClasses(declared).crashed,
           NEW i \in DOMAIN declared, InOrder(declared, i),
           NEW k \in 1 .. Len(Chain(declared, i)),
           NEW j \in DOMAIN declared[Chain(declared, i)[k]].fields
    PROVE  LET l == LinkClasses(declared)
               d == Chain(declared, i)[k]
               f == <<d, j>>
           IN  /\ LiesAt(declared, l, d, f)
               /\ Base(l, declared[d]) <= OffsetOf(l, f)
               /\ \A n \in Before(declared[d].fields, j) : Behind(declared, l, <<d, n>>, f)
<1> DEFINE l == LinkClasses(declared)
           d == Chain(declared, i)[k]
           fields == declared[d].fields
           base == Base(l, declared[d])
           f(n) == <<d, n>>
<1>1. d \in DOMAIN declared /\ declared[d].super < d
  <2>1. i \in 1 .. Len(declared) /\ DOMAIN declared = 1 .. Len(declared) /\ Len(declared) \in Nat
    BY ClassFacts
  <2>2. d \in 1 .. i /\ declared[d].super < d
    BY ChainIsLine
  <2> QED BY <2>1, <2>2
<1>2. fields \in Seq(Type)
  BY <1>1, ClassFacts
<1>3. l.classes[d].size = MemorySize(l, declared[d]) /\ l.classes[d].offsets = Offsets(l, declared[d])
  BY <1>1, SizesLinked
<1>4. base \in Nat /\ \E q \in Nat : base = q * 8
  BY LineStacked DEF Stacked
<1>5. \A n \in DOMAIN fields : /\ OffsetOf(l, f(n)) = base + BytesOf(fields, Before(fields, n))
                               /\ TypeOf(declared, f(n)) = fields[n]
  BY <1>3 DEF OffsetOf, TypeOf, Offsets
<1>6. l.classes[d].size = base + BytesOf(fields, DOMAIN fields)
  BY <1>3 DEF MemorySize
<1>7. j \in DOMAIN fields /\ Before(fields, j) \subseteq DOMAIN fields /\ fields[j] \in Type
  BY <1>2, BeforeFacts
<1> HIDE DEF l, d, fields, base, f
<1> DEFINE at(n) == base + BytesOf(fields, Before(fields, n))
           end   == base + BytesOf(fields, DOMAIN fields)
           size(n) == Size(fields[n])
<1>8. /\ at(j) \in Nat /\ end \in Nat /\ size(j) \in {1, 2, 4, 8}
      /\ base <= at(j) /\ at(j) + size(j) <= end
      /\ \E q \in Nat : at(j) = q * size(j)
      /\ \A n \in Before(fields, j) : at(n) + size(n) <= at(j)
  BY <1>2, <1>4, <1>7, FieldPlaces
<1>9. LiesAt(declared, l, d, f(j)) /\ base <= OffsetOf(l, f(j))
  BY <1>5, <1>6, <1>7, <1>8 DEF LiesAt
<1>10. \A n \in Before(fields, j) : Behind(declared, l, f(n), f(j))
  BY <1>5, <1>7, <1>8 DEF Behind
<1> QED BY <1>9, <1>10 DEF l, d, fields, base, f

LEMMA FieldsLie ==
    ASSUME NEW declared, declared \in Declarations(Len(declared)),
           ~LinkClasses(declared).crashed,
           NEW i \in DOMAIN declared, InOrder(declared, i)
    PROVE  LET l == LinkClasses(declared)
           IN  /\ l.classes[i].size \in Nat
               /\ \A f \in FieldsOf(declared, i) :
                     /\ LiesAt(declared, l, i, f)
                     /\ \A g \in FieldsOf(declared, i) :
                           f = g \/ Behind(declared, l, f, g) \/ Behind(declared, l, g, f)
<1> DEFINE l == LinkClasses(declared)
           c == Chain(declared, i)
           m == Len(c)
<1>1. IsLine(declared, c) /\ c[1] = i /\ m \in Nat \ {0} /\ DOMAIN c = 1 .. m /\ 1 \in 1 .. m
      /\ \A k \in 1 .. m : c[k] \in 1 .. i
  BY ChainIsLine DEF IsLine
<1>2. \A k \in 1 .. m : Stacked(declared, l, c, k)
  BY LineStacked
<1>3. ASSUME NEW k \in 1 .. m, NEW j \in DOMAIN declared[c[k]].fields
      PROVE  /\ LiesAt(declared, l, c[k], <<c[k], j>>)
             /\ Base(l, declared[c[k]]) <= OffsetOf(l, <<c[k], j>>)
             /\ \A n \in Before(declared[c[k]].fields, j) :
                   Behind(declared, l, <<c[k], n>>, <<c[k], j>>)
  BY FieldInClass
<1>4. \A f : f \in FieldsOf(declared, i)
                <=> \E k \in 1 .. m : \E j \in DOMAIN declared[c[k]].fields : f = <<c[k], j>>
  BY <1>1 DEF FieldsOf, Range
<1>5. \A k \in 1 .. m : declared[c[k]].fields \in Seq(Type)
  <2>1. i \in 1 .. Len(declared) /\ DOMAIN declared = 1 .. Len(declared) /\ Len(declared) \in Nat
    BY ClassFacts
  <2> SUFFICES ASSUME NEW k \in 1 .. m PROVE declared[c[k]].fields \in Seq(Type)
    OBVIOUS
  <2>2. c[k] \in DOMAIN declared
    BY <1>1, <2>1
  <2> QED BY <2>2, ClassFacts
<1> HIDE DEF l, c
<1>6. \A k \in 1 .. m : l.classes[c[k]].size \in Nat /\ l.classes[c[k]].size <= l.classes[i].size
  <2> SUFFICES ASSUME NEW k \in 1 .. m
               PROVE  l.classes[c[k]].size \in Nat /\ l.classes[c[k]].size <= l.classes[i].size
    OBVIOUS
  <2>1. Stacked(declared, l, c, 1)
    BY <1>1, <1>2
  <2>2. CASE k = 1
    BY <1>1, <2>1, <2>2 DEF Stacked
  <2>3. CASE k # 1
    <3>1. k \in (1 + 1) .. m
      BY <1>1, <2>3
    <3> DEFINE base == Base(l, declared[c[1]])
               size == l.classes[c[k]].size
               whole == l.classes[i].size
    <3>2. size \in Nat /\ size <= base /\ base \in Nat /\ whole \in Nat /\ base <= whole
      BY <1>1, <2>1, <3>1 DEF Stacked
    <3> HIDE DEF base, size, whole
    <3>3. size \in Nat /\ size <= whole
      BY <3>2
    <3> QED BY <3>3 DEF size, whole
  <2> QED BY <2>2, <2>3
<1>7. ASSUME NEW f \in FieldsOf(declared, i)
      PROVE  LiesAt(declared, l, i, f)
  <2>1. PICK k \in 1 .. m : \E j \in DOMAIN declared[c[k]].fields : f = <<c[k], j>>
    BY <1>4
  <2>1a. PICK j \in DOMAIN declared[c[k]].fields : f = <<c[k], j>>
    BY <2>1
  <2>2. LiesAt(declared, l, c[k], f)
    BY <1>3, <2>1a
  <2> DEFINE at == OffsetOf(l, f)
             size == Size(TypeOf(declared, f))
             mine == l.classes[c[k]].size
             whole == l.classes[i].size
  <2>3. size \in {1, 2, 4, 8} /\ at \in Nat /\ at + size <= mine
    BY <2>2 DEF LiesAt
  <2>4. mine \in Nat /\ mine <= whole /\ whole \in Nat
    BY <1>1, <1>6
  <2> HIDE DEF at, size, mine, whole
  <2>5. at + size <= whole
    BY <2>3, <2>4
  <2> QED BY <2>2, <2>5 DEF LiesAt, at, size, whole
(* A field of a class and one of a class above it.                         *)
<1>8. ASSUME NEW k \in 1 .. m, NEW q \in 1 .. m, k < q,
             NEW j \in DOMAIN declared[c[k]].fields, NEW n \in DOMAIN declared[c[q]].fields
      PROVE  Behind(declared, l, <<c[q], n>>, <<c[k], j>>)
  <2> DEFINE f == <<c[k], j>>
             g == <<c[q], n>>
             base == Base(l, declared[c[k]])
             size == l.classes[c[q]].size
             at == OffsetOf(l, f)
             from == OffsetOf(l, g)
             wide == Size(TypeOf(declared, g))
  <2>1. base <= at /\ at \in Nat
    BY <1>3 DEF LiesAt
  <2>2. from \in Nat /\ wide \in {1, 2, 4, 8} /\ from + wide <= size
    BY <1>3 DEF LiesAt
  <2>3. size \in Nat /\ size <= base /\ base \in Nat
    <3>1. q \in (k + 1) .. m
      BY <1>1, <1>8
    <3> QED BY <1>2, <3>1 DEF Stacked
  <2> HIDE DEF base, size, at, from, wide
  <2>4. from + wide <= at
    BY <2>1, <2>2, <2>3
  <2> QED BY <2>4 DEF Behind, from, wide, at
<1>9. ASSUME NEW f \in FieldsOf(declared, i), NEW g \in FieldsOf(declared, i)
      PROVE  f = g \/ Behind(declared, l, f, g) \/ Behind(declared, l, g, f)
  <2>1. PICK k \in 1 .. m : \E j \in DOMAIN declared[c[k]].fields : f = <<c[k], j>>
    BY <1>4
  <2>1a. PICK j \in DOMAIN declared[c[k]].fields : f = <<c[k], j>>
    BY <2>1
  <2>2. PICK q \in 1 .. m : \E n \in DOMAIN declared[c[q]].fields : g = <<c[q], n>>
    BY <1>4
  <2>2a. PICK n \in DOMAIN declared[c[q]].fields : g = <<c[q], n>>
    BY <2>2
  <2>3. CASE k < q
    BY <1>8, <2>1a, <2>2a, <2>3
  <2>4. CASE q < k
    BY <1>8, <2>1a, <2>2a, <2>4
  <2>5. CASE k = q
    <3> DEFINE fields == declared[c[k]].fields
    <3>1. fields \in Seq(Type) /\ j \in DOMAIN fields /\ n \in DOMAIN fields
      BY <1>5, <2>5
    <3>2. n = j \/ n \in Before(fields, j) \/ j \in Before(fields, n)
      <4> HIDE DEF fields
      <4> QED BY <3>1, BeforeFacts
    <3>3. CASE n = j
      BY <2>1a, <2>2a, <2>5, <3>3
    <3>4. CASE n \in Before(fields, j)
      BY <1>3, <2>1a, <2>2a, <2>5, <3>4
    <3>5. CASE j \in Before(fields, n)
      BY <1>3, <2>1a, <2>2a, <2>5, <3>5
    <3> QED BY <3>2, <3>3, <3>4, <3>5
  <2>6. k < q \/ q < k \/ k = q
    BY <1>1
  <2> QED BY <2>3, <2>4, <2>5, <2>6
<1>10. l.classes[i].size \in Nat
  BY <1>1, <1>6
<1> QED BY <1>7, <1>9, <1>10 DEF l

(* What is written all over with ones, and read.                           *)
LEMMA OnesWritten ==
    ASSUME NEW size \in Nat, NEW t \in Type, NEW o \in Nat, o + Size(t) <= size, NEW value,
           value.ul = 2^LongBits - 1, NEW b, b = StoreAs(t, Zeroed(size), o, value),
           NEW k \in 0 .. (size - 1)
    PROVE  b[k + 1] = IF k >= o /\ k < o + Size(t) THEN 2^ByteBits - 1 ELSE 0
<1> DEFINE w == 2^LongBits - 1
           n == Size(t)
           part(x) == Low(w \div 2^(ByteBits * (x - 1 - o)), ByteBits)
<1>1. n \in {1, 2, 4, 8}
  <2>1. Rank(t) <= Rank(t)
    BY TypeRanks
  <2> QED BY <2>1, SizesDivide
<1>2. b = [x \in 1 .. size |-> IF x - 1 \in o .. (o + n - 1) THEN part(x) ELSE 0]
  <2>1. Zeroed(size) = [x \in 1 .. size |-> 0]
    BY DEF Zeroed
  <2> QED BY <2>1 DEF StoreAs, WriteBytes, Size
<1>3. k + 1 \in 1 .. size /\ (k + 1) - 1 = k /\ (k \in o .. (o + n - 1) <=> k >= o /\ k < o + n)
  BY <1>1
<1>4. b[k + 1] = IF k >= o /\ k < o + n THEN part(k + 1) ELSE 0
  <2> HIDE DEF part, n
  <2> QED BY <1>2, <1>3
<1>5. ASSUME k >= o, k < o + n PROVE part(k + 1) = 2^ByteBits - 1
  <2> DEFINE j == k - o
             a == 2^(ByteBits * j)
             p == 2^ByteBits
             r == 2^(ByteBits * (7 - j))
  <2>1. j \in 0 .. 7 /\ (k + 1) - 1 - o = j
    BY <1>1, <1>5
  <2> HIDE DEF j
  <2>2. ByteBits \in Nat /\ ByteBits * j \in Nat /\ 7 - j \in Nat /\ ByteBits * (7 - j) \in Nat
    BY <2>1, ByteBitsAssumption
  <2>3. LongBits = (ByteBits * (7 - j) + ByteBits) + ByteBits * j
    <3>1. ByteBits * (7 - j) + ByteBits = ByteBits * (8 - j)
      BY <2>1, <2>2
    <3>2. ByteBits * (8 - j) + ByteBits * j = 8 * ByteBits
      BY <2>1, <2>2
    <3> QED BY <3>1, <3>2 DEF LongBits
  <2>4. 2^LongBits = 2^(ByteBits * (7 - j) + ByteBits) * a
    <3>1. ByteBits * (7 - j) + ByteBits \in Nat
      BY <2>2
    <3> QED BY <2>2, <2>3, <3>1, PowersAdd
  <2>5. 2^(ByteBits * (7 - j) + ByteBits) = r * p
    BY <2>2, PowersAdd
  <2>6. a \in Nat \ {0} /\ p \in Nat \ {0} /\ r \in Nat \ {0}
    BY <2>2, PowersDouble
  <2>7. part(k + 1) = ((2^LongBits - 1) \div a) % p
    BY <2>1 DEF Low
  <2> DEFINE all == 2^LongBits
  <2>8. all = (r * p) * a
    BY <2>4, <2>5
  <2> HIDE DEF a, p, r, all
  <2>9. ((all - 1) \div a) % p = p - 1
    BY <2>6, <2>8, OnesAbove
  <2> QED BY <2>7, <2>9 DEF all, p
<1> HIDE DEF part
<1> QED BY <1>4, <1>5

(* The bytes read, as a sum of a function.                                 *)
LEMMA ReadIsTotal ==
    ASSUME NEW b, NEW o, NEW n \in Nat
    PROVE  BytesAt(b, o, n) = Total([k \in 0 .. (n - 1) |-> b[o + k + 1] * 2^(ByteBits * k)], 0 .. (n - 1))
<1> DEFINE S == 0 .. (n - 1)
           f == [k \in S |-> b[o + k + 1] * 2^(ByteBits * k)]
           byte(k) == b[o + k + 1] * 2^(ByteBits * k)
           Sized(g) == [s \in SUBSET S |->
                          IF s = {} THEN 0
                          ELSE byte(CHOOSE x \in s : TRUE) + g[s \ {CHOOSE x \in s : TRUE}]]
<1>1. BytesAt(b, o, n) = (CHOOSE g : g = Sized(g))[S]
  BY DEF BytesAt, MapThenSumSet, MapThenFoldSet
<1>2. ASSUME NEW g PROVE Sized(g) = Summing(f, S, g)
  <2>1. \A k \in S : byte(k) = f[k]
    OBVIOUS
  <2>2. ASSUME NEW s \in SUBSET S, s # {}
        PROVE  byte(CHOOSE x \in s : TRUE) = f[CHOOSE x \in s : TRUE]
    <3>1. (CHOOSE x \in s : TRUE) \in S
      BY <2>2
    <3> HIDE DEF f, byte, S
    <3> QED BY <2>1, <3>1
  <2> HIDE DEF f, byte, S
  <2> QED BY <2>2 DEF Summing
<1> HIDE DEF Sized, f, S
<1>3. \A g : g = Sized(g) <=> g = Summing(f, S, g)
  BY <1>2
<1>4. BytesAt(b, o, n) = Total(f, S)
  BY <1>1, <1>3 DEF Total
<1> QED BY <1>4 DEF f, S

LEMMA ReadOnes ==
    ASSUME NEW b, NEW o, NEW n \in Nat, \A k \in 0 .. (n - 1) : b[o + k + 1] = 2^ByteBits - 1
    PROVE  BytesAt(b, o, n) = 2^(ByteBits * n) - 1
<1> DEFINE S(m) == 0 .. (m - 1)
           p == 2^ByteBits
           f == [k \in S(n) |-> b[o + k + 1] * 2^(ByteBits * k)]
           N == {m \in Nat : m <= n => Total(f, S(m)) = 2^(ByteBits * m) - 1}
<1>0. ByteBits \in Nat /\ p \in Nat \ {0}
  BY ByteBitsAssumption, PowersDouble
<1>1. ASSUME NEW k \in S(n) PROVE f[k] = (p - 1) * 2^(ByteBits * k) /\ f[k] \in Int
  <2>1. k \in Nat /\ ByteBits * k \in Nat
    BY <1>0
  <2> DEFINE q == 2^(ByteBits * k)
  <2>2. q \in Nat
    BY <2>1, PowersDouble
  <2>3. f[k] = (p - 1) * q
    OBVIOUS
  <2> HIDE DEF f, q, p
  <2>4. (p - 1) * q \in Int
    BY <1>0, <2>2
  <2> QED BY <2>3, <2>4 DEF q
<1>2. 0 \in N
  <2>1. S(0) = {} /\ ByteBits * 0 = 0
    BY <1>0
  <2>2. Total(f, S(0)) = 0
    <3> HIDE DEF f
    <3> QED BY <2>1, SumOfNone
  <2> DEFINE one == 2^(ByteBits * 0)
  <2>3. one = 1
    BY <2>1, NoPower
  <2> HIDE DEF f, S, one
  <2>4. Total(f, S(0)) = one - 1
    BY <2>2, <2>3
  <2> QED BY <2>4 DEF one
<1>3. ASSUME NEW m \in Nat, m \in N PROVE m + 1 \in N
  <2> SUFFICES ASSUME m + 1 <= n PROVE Total(f, S(m + 1)) = 2^(ByteBits * (m + 1)) - 1
    OBVIOUS
  <2> DEFINE q == 2^(ByteBits * m)
             q1 == 2^(ByteBits * (m + 1))
  <2>1. /\ S(m + 1) = S(m) \union {m} /\ m \notin S(m) /\ S(m) \union {m} \subseteq S(n)
        /\ m \in S(n) /\ IsFiniteSet(S(m)) /\ m <= n
    <3>1. S(m + 1) = S(m) \union {m} /\ m \notin S(m)
      OBVIOUS
    <3>2. S(m) \union {m} \subseteq S(n) /\ m \in S(n) /\ m <= n
      OBVIOUS
    <3>3. IsFiniteSet(S(m))
      BY FS_Interval
    <3> QED BY <3>1, <3>2, <3>3
  <2>2. \A x \in S(m) \union {m} : f[x] \in Int
    <3> HIDE DEF f, S
    <3> QED BY <1>1, <2>1
  <2>3. Total(f, S(m + 1)) = f[m] + Total(f, S(m))
    <3> HIDE DEF f, S
    <3> QED BY <2>1, <2>2, SumWith
  <2>4. Total(f, S(m)) = q - 1
    BY <1>3, <2>1
  <2>5. f[m] = (p - 1) * q
    <3> HIDE DEF f, p
    <3> QED BY <1>1, <2>1
  <2>6. q1 = q * p
    <3>1. ByteBits * m \in Nat /\ ByteBits * (m + 1) = ByteBits * m + ByteBits
      BY <1>0
    <3> QED BY <1>0, <3>1, PowersAdd
  <2>7. q \in Nat
    <3>1. ByteBits * m \in Nat
      BY <1>0
    <3> QED BY <3>1, PowersDouble
  <2> DEFINE t == Total(f, S(m))
  <2> HIDE DEF f, p, q, q1, t
  <2>8. (p - 1) * q + (q - 1) = q * p - 1
    BY <1>0, <2>7
  <2> QED BY <2>3, <2>4, <2>5, <2>6, <2>8 DEF t, q1
<1> HIDE DEF N
<1>4. n \in N
  BY <1>2, <1>3, Induction
<1>5. Total(f, S(n)) = 2^(ByteBits * n) - 1
  BY <1>4 DEF N
<1> QED BY <1>5, ReadIsTotal

LEMMA ReadNothing ==
    ASSUME NEW b, NEW o, NEW n \in Nat, \A k \in 0 .. (n - 1) : b[o + k + 1] = 0
    PROVE  BytesAt(b, o, n) = 0
<1> DEFINE S == 0 .. (n - 1)
           f == [k \in S |-> b[o + k + 1] * 2^(ByteBits * k)]
<1>1. ASSUME NEW k \in S PROVE f[k] = 0
  <2>1. k \in Nat /\ ByteBits * k \in Nat
    BY ByteBitsAssumption
  <2> DEFINE q == 2^(ByteBits * k)
  <2>2. q \in Nat
    BY <2>1, PowersDouble
  <2>3. f[k] = 0 * q
    OBVIOUS
  <2> HIDE DEF f, q
  <2> QED BY <2>2, <2>3
<1>2. IsFiniteSet(S) /\ Cardinality(S) \in Nat
  BY FS_Interval, FS_CardinalityType
<1>3. Total(f, S) = Cardinality(S) * 0
  <2> HIDE DEF f, S
  <2> QED BY <1>1, <1>2, SumOfEqual
<1>4. BytesAt(b, o, n) = Total(f, S)
  BY ReadIsTotal
<1> HIDE DEF S, f
<1>5. BytesAt(b, o, n) = 0
  BY <1>2, <1>3, <1>4
<1> QED BY <1>5

(* What one field is given, no other field is.                             *)
LEMMA FieldsAreApart ==
    ASSUME NEW declared, declared \in Declarations(Len(declared)),
           ~LinkClasses(declared).crashed,
           NEW i \in DOMAIN declared, InOrder(declared, i)
    PROVE  FieldsIndependent(declared, LinkClasses(declared), i)
<1> DEFINE l == LinkClasses(declared)
           size == l.classes[i].size
           at(f) == OffsetOf(l, f)
           type(f) == TypeOf(declared, f)
           wide(f) == Size(type(f))
           Fields == FieldsOf(declared, i)
<1>1. size \in Nat
  BY FieldsLie
<1>2. ASSUME NEW f \in Fields
      PROVE  /\ type(f) \in Type /\ wide(f) \in {1, 2, 4, 8}
             /\ at(f) \in Nat /\ at(f) + wide(f) <= size
             /\ \E q \in Nat : at(f) = q * wide(f)
  BY FieldsLie DEF LiesAt
<1>3. ASSUME NEW f \in Fields, NEW g \in Fields
      PROVE  f = g \/ at(f) + wide(f) <= at(g) \/ at(g) + wide(g) <= at(f)
  BY FieldsLie DEF Behind
<1> HIDE DEF l, size, at, type, wide, Fields
<1>4. ASSUME NEW f \in Fields PROVE at(f) % wide(f) = 0
  <2>1. PICK q \in Nat : at(f) = q * wide(f)
    BY <1>2
  <2>2. wide(f) \in {1, 2, 4, 8}
    BY <1>2
  <2>3. wide(f) \in Nat \ {0} /\ 0 < wide(f)
    BY <2>2
  <2> DEFINE d == wide(f)
  <2> HIDE DEF d
  <2>4. (q * d + 0) % d = 0
    BY <2>3, QuotientOf DEF d
  <2>5. q * d + 0 = q * d
    BY <2>3 DEF d
  <2> QED BY <2>1, <2>4, <2>5 DEF d
<1>5. ASSUME NEW f \in Fields, NEW g \in Fields
      PROVE  LoadAs(type(g), Written(declared, l, i, f), at(g)).ul =
                 IF g = f THEN 2^(ByteBits * wide(f)) - 1 ELSE 0
  <2> DEFINE value == [isObject |-> FALSE, ul |-> 2^LongBits - 1]
             b == Written(declared, l, i, f)
             n == wide(g)
             o == at(g)
  <2>1. value.ul = 2^LongBits - 1
    OBVIOUS
  <2>2. b = StoreAs(type(f), Zeroed(size), at(f), value)
    BY DEF Written, type, at, size
  <2> HIDE DEF value
  <2>3. \A k \in 0 .. (size - 1) :
           b[k + 1] = IF k >= at(f) /\ k < at(f) + wide(f) THEN 2^ByteBits - 1 ELSE 0
    <3>1. type(f) \in Type /\ at(f) \in Nat /\ at(f) + Size(type(f)) <= size
      BY <1>2 DEF wide
    <3> HIDE DEF b
    <3>2. \A k \in 0 .. (size - 1) :
             b[k + 1] = IF k >= at(f) /\ k < at(f) + Size(type(f)) THEN 2^ByteBits - 1 ELSE 0
      BY <1>1, <2>1, <2>2, <3>1, OnesWritten
    <3> QED BY <3>2 DEF wide
  <2>4. LoadAs(type(g), b, o).ul = BytesAt(b, o, n)
    BY DEF LoadAs, wide, Size
  <2> HIDE DEF b
  <2>5. /\ o \in Nat /\ n \in {1, 2, 4, 8} /\ o + n <= size
        /\ at(f) \in Nat /\ wide(f) \in {1, 2, 4, 8} /\ at(f) + wide(f) <= size
    BY <1>2
  <2>6. \A k \in 0 .. (n - 1) : o + k \in 0 .. (size - 1)
    BY <1>1, <2>5
  <2>7. CASE g = f
    <3>1. \A k \in 0 .. (n - 1) : o + k >= at(f) /\ o + k < at(f) + wide(f)
      BY <2>5, <2>7
    <3>2. \A k \in 0 .. (n - 1) : b[o + k + 1] = 2^ByteBits - 1
      BY <2>3, <2>6, <3>1
    <3>3. n \in Nat
      BY <2>5
    <3>4. BytesAt(b, o, n) = 2^(ByteBits * n) - 1
      BY <3>2, <3>3, ReadOnes
    <3> QED BY <2>4, <2>7, <3>4 DEF b
  <2>8. CASE g # f
    <3>1. at(f) + wide(f) <= o \/ o + n <= at(f)
      BY <1>3, <2>8
    <3>2. \A k \in 0 .. (n - 1) : ~(o + k >= at(f) /\ o + k < at(f) + wide(f))
      BY <2>5, <3>1
    <3>3. \A k \in 0 .. (n - 1) : b[o + k + 1] = 0
      BY <2>3, <2>6, <3>2
    <3>4. n \in Nat
      BY <2>5
    <3>5. BytesAt(b, o, n) = 0
      BY <3>3, <3>4, ReadNothing
    <3> QED BY <2>4, <2>8, <3>5 DEF b
  <2> QED BY <2>7, <2>8
<1> QED BY <1>2, <1>4, <1>5 DEF FieldsIndependent, l, size, at, type, wide, Fields

(* Of each number below that of the elements, there is one with so many    *)
(* smaller ones.                                                           *)
Lower(T, j) == {k \in T : k < j}

LEMMA RanksAreAll ==
    ASSUME NEW T, T \subseteq Nat, IsFiniteSet(T)
    PROVE  {Cardinality(Lower(T, j)) : j \in T} = 0 .. (Cardinality(T) - 1)
<1>1. Cardinality(T) \in Nat
  BY FS_CardinalityType
<1>2. ASSUME NEW j \in T
      PROVE  /\ IsFiniteSet(Lower(T, j)) /\ j \notin Lower(T, j)
             /\ Lower(T, j) \union {j} \subseteq T
             /\ Cardinality(Lower(T, j)) \in Nat
             /\ Cardinality(Lower(T, j) \union {j}) = Cardinality(Lower(T, j)) + 1
             /\ Cardinality(Lower(T, j)) + 1 <= Cardinality(T)
  <2>1. j \in Nat /\ ~(j < j)
    OBVIOUS
  <2>2. j \notin Lower(T, j) /\ Lower(T, j) \subseteq T /\ Lower(T, j) \union {j} \subseteq T
    BY <2>1 DEF Lower
  <2> DEFINE S == Lower(T, j)
  <2> HIDE DEF S
  <2>3. IsFiniteSet(S) /\ Cardinality(S) \in Nat
    BY <2>2, FS_Subset, FS_CardinalityType DEF S
  <2>4. Cardinality(S \union {j}) = Cardinality(S) + 1
    BY <2>2, <2>3, FS_AddElement DEF S
  <2>5. Cardinality(S \union {j}) <= Cardinality(T)
    BY <2>2, FS_Subset DEF S
  <2> QED BY <2>2, <2>3, <2>4, <2>5 DEF S
<1> DEFINE N == {n \in Nat : n < Cardinality(T) => \E j \in T : Cardinality(Lower(T, j)) = n}
<1>3. 0 \in N
  <2> SUFFICES ASSUME 0 < Cardinality(T) PROVE \E j \in T : Cardinality(Lower(T, j)) = 0
    OBVIOUS
  <2>1. T # {}
    BY FS_EmptySet
  <2>2. PICK j \in T : \A k \in T : j <= k
    BY <2>1, LeastNatural
  <2>3. \A k \in T : ~(k < j)
    BY <2>2
  <2>4. Lower(T, j) = {}
    BY <2>3 DEF Lower
  <2> QED BY <2>4, FS_EmptySet
<1>4. ASSUME NEW n \in Nat, n \in N PROVE n + 1 \in N
  <2> SUFFICES ASSUME n + 1 < Cardinality(T)
               PROVE  \E j \in T : Cardinality(Lower(T, j)) = n + 1
    OBVIOUS
  <2>1. PICK j \in T : Cardinality(Lower(T, j)) = n
    <3>1. n < Cardinality(T)
      BY <1>1
    <3> QED BY <1>4, <3>1
  <2> DEFINE U == {k \in T : j < k}
  <2>2. U # {}
    <3> SUFFICES ASSUME U = {} PROVE FALSE
      OBVIOUS
    <3>1. \A k \in T : k < j \/ k = j
      OBVIOUS
    <3>2. Lower(T, j) \union {j} = T
      BY <3>1 DEF Lower
    <3>3. Cardinality(T) = n + 1
      BY <1>2, <2>1, <3>2
    <3> QED BY <1>1, <3>3
  <2>3. PICK x \in U : \A k \in U : x <= k
    <3>1. U \subseteq Nat
      OBVIOUS
    <3> HIDE DEF U
    <3> QED BY <2>2, <3>1, LeastNatural
  <2>4. x \in T /\ j < x /\ \A k \in T : j < k => x <= k
    BY <2>3
  <2>5. \A k \in T : k < x <=> k < j \/ k = j
    BY <2>4
  <2>6. Lower(T, x) = Lower(T, j) \union {j}
    BY <2>5 DEF Lower
  <2>7. Cardinality(Lower(T, x)) = n + 1
    BY <1>2, <2>1, <2>6
  <2> QED BY <2>4, <2>7
<1> HIDE DEF N
<1>5. Nat \subseteq N
  BY <1>3, <1>4, Induction
<1>6. \A n \in 0 .. (Cardinality(T) - 1) : \E j \in T : Cardinality(Lower(T, j)) = n
  <2> SUFFICES ASSUME NEW n \in 0 .. (Cardinality(T) - 1)
               PROVE  \E j \in T : Cardinality(Lower(T, j)) = n
    OBVIOUS
  <2>1. n \in Nat /\ n < Cardinality(T)
    BY <1>1
  <2> QED BY <1>5, <2>1 DEF N
<1>7. \A j \in T : Cardinality(Lower(T, j)) \in 0 .. (Cardinality(T) - 1)
  <2> SUFFICES ASSUME NEW j \in T PROVE Cardinality(Lower(T, j)) \in 0 .. (Cardinality(T) - 1)
    OBVIOUS
  <2> DEFINE a == Cardinality(Lower(T, j))
             b == Cardinality(T)
  <2>1. a \in Nat /\ b \in Nat /\ a + 1 <= b
    BY <1>1, <1>2
  <2> HIDE DEF a, b
  <2>2. a \in 0 .. (b - 1)
    BY <2>1
  <2> QED BY <2>2 DEF a, b
<1> QED BY <1>6, <1>7

(* The references of a class are its first fields.                         *)
LEMMA ReferencePlaces ==
    ASSUME NEW fields \in Seq(Type)
    PROVE  LET refs == {j \in DOMAIN fields : fields[j] = "Reference"}
           IN  /\ Cardinality(refs) \in Nat /\ IsFiniteSet(refs)
               /\ (Cardinality(refs) = 0 <=> refs = {})
               /\ {BytesOf(fields, Before(fields, j)) : j \in refs} =
                      {8 * n : n \in 0 .. (Cardinality(refs) - 1)}
<1> DEFINE refs == {j \in DOMAIN fields : fields[j] = "Reference"}
<1>1. DOMAIN fields = 1 .. Len(fields) /\ Len(fields) \in Nat
  OBVIOUS
<1>2. IsFiniteSet(DOMAIN fields)
  BY <1>1, FS_Interval
<1>3. refs \subseteq Nat /\ refs \subseteq DOMAIN fields /\ IsFiniteSet(refs)
  BY <1>1, <1>2, FS_Subset
<1>4. Cardinality(refs) \in Nat /\ (Cardinality(refs) = 0 <=> refs = {})
  BY <1>3, FS_CardinalityType, FS_EmptySet
<1>5. \A k \in DOMAIN fields : Rank(fields[k]) \in 1 .. 17 /\ (Rank(fields[k]) = 1 <=> k \in refs)
  <2> SUFFICES ASSUME NEW k \in DOMAIN fields
               PROVE  Rank(fields[k]) \in 1 .. 17 /\ (Rank(fields[k]) = 1 <=> k \in refs)
    OBVIOUS
  <2>1. fields[k] \in Type
    OBVIOUS
  <2> QED BY <2>1, TypeRanks
<1>6. ASSUME NEW j \in refs
      PROVE  BytesOf(fields, Before(fields, j)) = 8 * Cardinality(Lower(refs, j))
  <2>1. j \in DOMAIN fields /\ fields[j] = "Reference" /\ Rank(fields[j]) = 1
    BY <1>5
  <2>2. Before(fields, j) = Lower(refs, j)
    <3>1. \A k \in DOMAIN fields : ~(Rank(fields[k]) < Rank(fields[j]))
      BY <1>5, <2>1
    <3>2. \A k : k \in Before(fields, j) <=> k \in DOMAIN fields /\ fields[k] = fields[j] /\ k < j
      BY <3>1 DEF Before
    <3> QED BY <2>1, <3>2 DEF Lower
  <2> DEFINE S == Lower(refs, j)
             f == SizesOf(fields)
  <2>3. S \subseteq refs /\ IsFiniteSet(S) /\ Cardinality(S) \in Nat
    <3>1. S \subseteq refs
      BY DEF Lower
    <3> HIDE DEF S, refs
    <3> QED BY <1>3, <3>1, FS_Subset, FS_CardinalityType
  <2>4. \A k \in S : f[k] = 8
    <3> SUFFICES ASSUME NEW k \in S PROVE f[k] = 8
      OBVIOUS
    <3>1. k \in DOMAIN fields /\ fields[k] = "Reference"
      BY <2>3
    <3>2. f[k] = Size("Reference")
      BY <3>1 DEF SizesOf
    <3>3. Size("Reference") = 8
      BY DEF Size, GetPrimitiveSizeForType
    <3> QED BY <3>2, <3>3
  <2>5. BytesOf(fields, S) = Total(f, S)
    <3>1. S \subseteq DOMAIN fields
      BY <1>3, <2>3
    <3> HIDE DEF S
    <3> QED BY <3>1, BytesAreTotal
  <2> HIDE DEF S, f
  <2>6. Total(f, S) = Cardinality(S) * 8
    BY <2>3, <2>4, SumOfEqual
  <2> QED BY <2>2, <2>3, <2>5, <2>6 DEF S
<1> HIDE DEF refs
<1>7. {BytesOf(fields, Before(fields, j)) : j \in refs} =
         {8 * n : n \in {Cardinality(Lower(refs, j)) : j \in refs}}
  BY <1>6
<1>8. {Cardinality(Lower(refs, j)) : j \in refs} = 0 .. (Cardinality(refs) - 1)
  BY <1>3, RanksAreAll
<1> QED BY <1>3, <1>4, <1>7, <1>8 DEF refs

(* The length of what an array comprehension builds.                       *)
LEMMA LengthOf ==
    ASSUME NEW n \in Nat, NEW f, f = [k \in 1 .. n |-> f[k]]
    PROVE  Len(f) = n
<1> DEFINE T == {f[k] : k \in 1 .. n}
<1>1. f \in [1 .. n -> T]
  OBVIOUS
<1> HIDE DEF T
<1>2. f \in Seq(T)
  BY <1>1
<1> QED BY <1>2, <1>1

(* Allocations only add to what the arena holds.                           *)
Extends(l, p) ==
    /\ l.used \in Nat /\ p.used \in Nat /\ l.used <= p.used
    /\ \A a \in Nat : a < l.used => Word8(p, a) = Word8(l, a)

LEMMA ExtendsOn ==
    ASSUME NEW l, NEW p, NEW q, Extends(l, p), Extends(p, q)
    PROVE  Extends(l, q)
<1>1. \A a \in Nat : a < l.used => a < p.used
  BY DEF Extends
<1> QED BY <1>1 DEF Extends

LEMMA Align2 ==
    ASSUME NEW n \in Nat
    PROVE  AlignUp(n, 2) \in Nat /\ n <= AlignUp(n, 2)
<1> DEFINE q == (n + 1) \div 2
<1>1. q \in Nat /\ n <= q * 2 /\ q * 2 \in Nat
  OBVIOUS
<1>2. AlignUp(n, 2) = q * 2
  BY DEF AlignUp
<1> HIDE DEF q
<1> QED BY <1>1, <1>2

LEMMA PutExtends ==
    ASSUME NEW l, IsModule(l), l.used \in Nat, NEW at \in Nat, l.used <= at, NEW words
    PROVE  Extends(l, Put(l, at, words))
<1> DEFINE p == Put(l, at, words)
           last == at + Len(words) - 1
           word(a) == IF a >= at /\ a < at + Len(words) THEN words[a - at + 1] ELSE l.memory[a]
           memory == [a \in DOMAIN l.memory \union at .. last |-> word(a)]
<1>1. p = [l EXCEPT !.memory = memory]
  BY DEF Put
<1>2. ASSUME NEW a \in Nat, a < l.used
      PROVE  /\ a \in DOMAIN memory <=> a \in DOMAIN l.memory
             /\ a \in DOMAIN memory => memory[a] = l.memory[a]
  <2>1. ~(a >= at) /\ a \notin at .. last
    BY <1>2
  <2>2. word(a) = l.memory[a]
    BY <2>1
  <2> HIDE DEF word, last
  <2> QED BY <2>1, <2>2
<1> HIDE DEF memory, p
<1>3. p.memory = memory /\ p.used = l.used
  BY <1>1 DEF IsModule
<1>4. \A a \in Nat : a < l.used => Word8(p, a) = Word8(l, a)
  BY <1>2, <1>3 DEF Word8
<1> QED BY <1>3, <1>4 DEF Extends, p

(* Two words, put where the free memory begins.                            *)
LEMMA PutTwo ==
    ASSUME NEW l, IsModule(l), l.used \in Nat, NEW words, Len(words) = 2
    PROVE  LET p == Put(l, l.used, words)
           IN  Word8(p, l.used) = words[1] /\ Word8(p, l.used + 1) = words[2]
<1> DEFINE at == l.used
           p == Put(l, at, words)
           word(a) == IF a >= at /\ a < at + 2 THEN words[a - at + 1] ELSE l.memory[a]
           memory == [a \in DOMAIN l.memory \union at .. (at + 2 - 1) |-> word(a)]
<1>1. p = [l EXCEPT !.memory = memory]
  BY DEF Put
<1>2. at \in DOMAIN memory /\ at + 1 \in DOMAIN memory
  OBVIOUS
<1>3. memory[at] = words[1] /\ memory[at + 1] = words[2]
  <2>1. at >= at /\ at < at + 2 /\ at - at + 1 = 1
    OBVIOUS
  <2>2. at + 1 >= at /\ at + 1 < at + 2 /\ at + 1 - at + 1 = 2
    OBVIOUS
  <2>3. word(at) = words[1] /\ word(at + 1) = words[2]
    BY <2>1, <2>2
  <2> HIDE DEF word, at
  <2> QED BY <1>2, <2>3
<1> HIDE DEF memory, p
<1>4. p.memory = memory
  BY <1>1 DEF IsModule
<1> QED BY <1>2, <1>3, <1>4 DEF Word8, p

LEMMA ReserveExtends ==
    ASSUME NEW l, IsModule(l), l.used \in Nat, NEW words \in Nat
    PROVE  Extends(l, Reserve(l, words)) /\ l.used + words <= Reserve(l, words).used
<1> DEFINE p == Reserve(l, words)
           more == AlignUp(words, 2)
<1>1. p.memory = l.memory /\ p.used = l.used + more
  BY ReserveKeeps
<1>2. more \in Nat /\ words <= more
  BY Align2
<1> HIDE DEF more, p
<1>3. p.used \in Nat /\ l.used <= p.used /\ l.used + words <= p.used
  BY <1>1, <1>2
<1>4. \A a \in Nat : Word8(p, a) = Word8(l, a)
  BY <1>1 DEF Word8
<1> QED BY <1>3, <1>4 DEF Extends, p

LEMMA FilledExtends ==
    ASSUME NEW l, IsModule(l), l.used \in Nat, NEW words \in Nat
    PROVE  Extends(l, Filled(l, words))
<1> DEFINE filling == [k \in 1 .. words |-> Address]
           q == Put(l, l.used, filling)
<1>1. Filled(l, words) = Reserve(q, words)
  BY DEF Filled
<1> HIDE DEF filling
<1>2. Extends(l, q)
  BY PutExtends
<1>3. IsModule(q) /\ q.used = l.used
  BY PutKeeps
<1> HIDE DEF q
<1>4. Extends(q, Reserve(q, words))
  BY <1>3, ReserveExtends
<1> QED BY <1>1, <1>2, <1>4, ExtendsOn

LEMMA PutRegionsExtends ==
    ASSUME NEW l, IsModule(l), l.used \in Nat, NEW class,
           class.super # 0 => Super(l, class).regions.count \in Nat
    PROVE  Extends(l, PutRegions(l, class)) /\ Regions(l, class).count \in Nat
<1> DEFINE inherited == IF class.super = 0 THEN <<>> ELSE RegionWords(l, Super(l, class).regions)
           own == IF References(class) = {} THEN <<>>
                  ELSE <<Base(l, class), Cardinality(References(class))>>
           room == IF class.super = 0 THEN Len(own) ELSE Len(inherited)
           words == inherited \o own
           at == Regions(l, class).at
           q == Put(l, at, words)
<1>1. PutRegions(l, class) = Reserve(q, room)
  BY DEF PutRegions
<1>2. at \in Nat /\ l.used <= at /\ Regions(l, class).count \in Nat
  BY DEF Regions, OwnRegion, InheritedRegion
<1>3. room \in Nat
  <2>1. CASE class.super = 0
    <3>1. Len(own) \in {0, 2}
      BY DEF References
    <3> HIDE DEF own
    <3> QED BY <2>1, <3>1
  <2>2. CASE class.super # 0
    <3> DEFINE r == Super(l, class).regions
               f == RegionWords(l, r)
    <3>1. 2 * r.count \in Nat
      BY <2>2
    <3>2. f = [k \in 1 .. (2 * r.count) |-> f[k]]
      BY DEF RegionWords
    <3> HIDE DEF f, r
    <3>3. Len(f) = 2 * r.count
      BY <3>1, <3>2, LengthOf
    <3>4. room = Len(f)
      BY <2>2 DEF f, r
    <3> QED BY <3>1, <3>3, <3>4
  <2> QED BY <2>1, <2>2
<1> HIDE DEF room, words, at
<1>4. Extends(l, q)
  BY <1>2, PutExtends
<1>5. IsModule(q) /\ q.used = l.used
  BY PutKeeps
<1> HIDE DEF q
<1>6. Extends(q, Reserve(q, room))
  BY <1>3, <1>5, ReserveExtends
<1> QED BY <1>1, <1>2, <1>4, <1>6, ExtendsOn

(* A list of one run, that of a class without a superclass or a copy of    *)
(* the superclass's, is written where the class looks for it.              *)
OneRun(l, class, first, number) ==
    \/ /\ class.super = 0 /\ References(class) # {}
       /\ first = Base(l, class) /\ number = Cardinality(References(class))
    \/ /\ class.super # 0 /\ References(class) = {}
       /\ Super(l, class).regions.count = 1 /\ Super(l, class).regions.at \in Nat
       /\ first = Word8(l, Super(l, class).regions.at)
       /\ number = Word8(l, Super(l, class).regions.at + 1)

LEMMA RunWritten ==
    ASSUME NEW l, IsModule(l), l.used \in Nat, NEW class, NEW first, NEW number,
           OneRun(l, class, first, number)
    PROVE  LET p == PutRegions(l, class)
           IN  /\ Regions(l, class).at = l.used /\ Regions(l, class).count = 1
               /\ l.used + 2 <= p.used
               /\ Word8(p, l.used) = first /\ Word8(p, l.used + 1) = number
<1> DEFINE inherited == IF class.super = 0 THEN <<>> ELSE RegionWords(l, Super(l, class).regions)
           own == IF References(class) = {} THEN <<>>
                  ELSE <<Base(l, class), Cardinality(References(class))>>
           room == IF class.super = 0 THEN Len(own) ELSE Len(inherited)
           words == inherited \o own
           at == Regions(l, class).at
           p == PutRegions(l, class)
           q == Put(l, l.used, words)
<1>1. p = Reserve(Put(l, at, words), room)
  BY DEF PutRegions
<1>2. at = l.used /\ Regions(l, class).count = 1 /\ Len(words) = 2 /\ room = 2
         /\ words[1] = first /\ words[2] = number
  <2>1. CASE class.super = 0
    <3>1. References(class) # {} /\ first = Base(l, class) /\ number = Cardinality(References(class))
      BY <2>1 DEF OneRun
    <3>2. at = l.used /\ Regions(l, class).count = 1
      BY <2>1, <3>1 DEF Regions, OwnRegion
    <3>3. inherited = <<>> /\ own = <<first, number>> /\ room = Len(own)
      BY <2>1, <3>1
    <3> HIDE DEF inherited, own
    <3>4. words = <<first, number>> /\ Len(own) = 2
      BY <3>3
    <3> QED BY <3>2, <3>3, <3>4
  <2>2. CASE class.super # 0
    <3> DEFINE r == Super(l, class).regions
               f == RegionWords(l, r)
    <3>1. /\ References(class) = {} /\ r.count = 1 /\ r.at \in Nat
          /\ first = Word8(l, r.at) /\ number = Word8(l, r.at + 1)
      BY <2>2 DEF OneRun
    <3>2. at = l.used /\ Regions(l, class).count = 1
      BY <2>2, <3>1 DEF Regions, InheritedRegion
    <3>3. inherited = f /\ own = <<>> /\ room = Len(inherited)
      BY <2>2, <3>1
    <3>4. f = [k \in 1 .. 2 |-> Word8(l, r.at + k - 1)]
      BY <3>1 DEF RegionWords
    <3> HIDE DEF r
    <3>5. f[1] = first /\ f[2] = number
      <4>1. r.at + 1 - 1 = r.at /\ r.at + 2 - 1 = r.at + 1
        BY <3>1
      <4> QED BY <3>1, <3>4, <4>1
    <3>6. f = [k \in 1 .. 2 |-> f[k]]
      BY <3>4
    <3> HIDE DEF f
    <3>7. Len(f) = 2
      BY <3>6, LengthOf
    <3> DEFINE T == {first, number}
               two == 2
    <3>8. f \in Seq(T)
      <4>1. f \in [1 .. two -> T] /\ two \in Nat
        BY <3>5, <3>6
      <4> HIDE DEF T, two
      <4> QED BY <4>1
    <3> HIDE DEF inherited, own
    <3>9. Len(words) = 2 /\ words[1] = f[1] /\ words[2] = f[2]
      <4> DEFINE none == <<>>
      <4>1. none \in Seq(T) /\ Len(none) = 0
        OBVIOUS
      <4>2. words = f \o none
        BY <3>3
      <4> HIDE DEF none, words, T
      <4>3. Len(f \o none) = Len(f) + Len(none)
        BY <3>8, <4>1
      <4>4. \A k \in 1 .. Len(f) : (f \o none)[k] = f[k]
        BY <3>8, <4>1
      <4> QED BY <3>7, <4>1, <4>2, <4>3, <4>4
    <3> QED BY <3>2, <3>3, <3>5, <3>7, <3>9
  <2> QED BY <2>1, <2>2
<1> HIDE DEF room, words, at, p
<1>3. Word8(q, l.used) = first /\ Word8(q, l.used + 1) = number
  BY <1>2, PutTwo
<1>4. IsModule(q) /\ q.used = l.used
  BY PutKeeps
<1>5. p = Reserve(q, 2)
  BY <1>1, <1>2
<1> HIDE DEF q
<1>6. p.memory = q.memory
  BY <1>4, <1>5, ReserveKeeps
<1>7. l.used + 2 <= p.used
  BY <1>4, <1>5, ReserveExtends
<1>8. \A a : Word8(p, a) = Word8(q, a)
  BY <1>6 DEF Word8
<1> QED BY <1>2, <1>3, <1>7, <1>8 DEF p, at

(* What every class of a module has.                                       *)
AreaSound(l) ==
    /\ l.used \in Nat
    /\ \A k \in DOMAIN l.classes : /\ l.classes[k].regions.count \in Nat
                                   /\ \E n \in Nat : DOMAIN l.classes[k].vtable = 1 .. n

LEMMA MadeExtends ==
    ASSUME NEW declared, declared \in Declarations(Len(declared)), NEW n \in DOMAIN declared,
           NEW l, IsModule(l), l.used \in Nat
    PROVE  Extends(l, Made(declared, l, n))
<1> DEFINE a == 3 * Len(declared[n].fields)
           b == 3 * Len(declared[n].methods)
           q == Filled(l, a)
<1>1. a \in Nat /\ b \in Nat
  BY ClassFacts
<1>2. Made(declared, l, n) = Filled(q, b)
  BY DEF Made
<1> HIDE DEF a, b
<1>3. IsModule(q) /\ Extends(l, q)
  BY <1>1, FilledKeeps, FilledExtends
<1> HIDE DEF q
<1>4. Extends(q, Filled(q, b))
  BY <1>1, <1>3, FilledExtends DEF Extends
<1> QED BY <1>2, <1>3, <1>4, ExtendsOn

LEMMA StepExtends ==
    ASSUME NEW declared, declared \in Declarations(Len(declared)), NEW n \in DOMAIN declared,
           NEW h, IsModule(h), AreaSound(h), DOMAIN h.classes = DOMAIN declared,
           NEW p, LinkedTo(declared, h, n, p), ~p.crashed
    PROVE  /\ AreaSound(p)
           /\ Extends(h, Made(declared, h, n))
           /\ Extends(PutRegions(Made(declared, h, n), declared[n]), p)
           /\ Extends(h, p)
<1> DEFINE class == declared[n]
           made == Made(declared, h, n)
           q == PutRegions(made, class)
           linked == LinkedClass(declared, h, n)
           vtable == Vtable(declared, made, n)
<1>1. /\ p.memory = Stored(declared, h, n).memory /\ p.used = Stored(declared, h, n).used
      /\ p.classes = [k \in DOMAIN h.classes |-> IF k = n THEN linked ELSE h.classes[k]]
  BY DEF LinkedTo
<1>2. /\ linked.vtable = vtable /\ linked.regions = Regions(made, class)
      /\ Stored(declared, h, n) = Filled(q, Len(vtable))
  BY DEF LinkedClass, Stored
<1>3. IsModule(made) /\ made.classes = h.classes
  BY MadeKeeps
<1>4. Extends(h, made)
  BY MadeExtends DEF AreaSound
<1>5. /\ class.super # 0 => class.super \in DOMAIN h.classes
      /\ DOMAIN class.methods = 1 .. Len(class.methods) /\ Len(class.methods) \in Nat
  <2>1. /\ class.super \in 0 .. Len(declared) /\ DOMAIN declared = 1 .. Len(declared)
        /\ Len(declared) \in Nat /\ class.methods \in Seq(STRING)
    BY ClassFacts
  <2> QED BY <2>1
<1> HIDE DEF made, linked
<1>6. vtable = [k \in DOMAIN vtable |-> vtable[k]] /\ \E m \in Nat : DOMAIN vtable = 1 .. m
  <2>1. CASE class.super = 0
    <3>1. vtable = [j \in DOMAIN class.methods |-> Entry(n, j)]
      BY <2>1 DEF Vtable
    <3> HIDE DEF vtable
    <3> QED BY <1>5, <3>1
  <2>2. CASE class.super # 0
    <3> DEFINE inherited == made.classes[class.super].vtable
    <3>1. \E m \in Nat : DOMAIN inherited = 1 .. m
      BY <1>3, <1>5, <2>2 DEF AreaSound
    <3>2. vtable = Override(declared, made, n)
      BY <2>2 DEF Vtable
    <3>3. vtable = [k \in DOMAIN vtable |-> vtable[k]] /\ DOMAIN vtable = DOMAIN inherited
      BY <3>2 DEF Override, Super
    <3> QED BY <3>1, <3>3
  <2> QED BY <2>1, <2>2
<1> HIDE DEF vtable
<1>7. Len(vtable) \in Nat
  <2>1. PICK m \in Nat : DOMAIN vtable = 1 .. m
    BY <1>6
  <2>2. vtable = [k \in 1 .. m |-> vtable[k]]
    BY <1>6, <2>1
  <2> QED BY <2>2, LengthOf
<1>8. class.super # 0 => Super(made, class).regions.count \in Nat
  BY <1>3, <1>5 DEF Super, AreaSound
<1>9. Extends(made, q) /\ Regions(made, class).count \in Nat
  BY <1>3, <1>4, <1>8, PutRegionsExtends DEF Extends
<1>10. IsModule(q) /\ q.used \in Nat
  BY <1>3, <1>9, PutRegionsKeeps DEF Extends
<1> HIDE DEF q
<1>11. Extends(q, p)
  <2>1. Extends(q, Stored(declared, h, n))
    BY <1>2, <1>7, <1>10, FilledExtends
  <2> QED BY <1>1, <2>1 DEF Extends, Word8
<1>12. Extends(h, p)
  BY <1>4, <1>9, <1>11, ExtendsOn
<1>13. AreaSound(p)
  <2>1. p.used \in Nat
    BY <1>11 DEF Extends
  <2>2. ASSUME NEW k \in DOMAIN p.classes
        PROVE  /\ p.classes[k].regions.count \in Nat
               /\ \E m \in Nat : DOMAIN p.classes[k].vtable = 1 .. m
    <3>1. k \in DOMAIN h.classes /\ p.classes[k] = IF k = n THEN linked ELSE h.classes[k]
      BY <1>1
    <3>2. CASE k = n
      BY <1>2, <1>6, <1>9, <3>1, <3>2
    <3>3. CASE k # n
      BY <3>1, <3>3 DEF AreaSound
    <3> QED BY <3>2, <3>3
  <2> QED BY <2>1, <2>2 DEF AreaSound
<1> QED BY <1>4, <1>11, <1>12, <1>13 DEF made, q

LEMMA TraceExtends ==
    ASSUME NEW declared, declared \in Declarations(Len(declared)),
           NEW g, IsTrace(declared, g)
    PROVE  \A n \in 0 .. Len(declared) :
               AreaSound(g[n]) /\ \A s \in 0 .. n : Extends(g[s], g[n])
<1> DEFINE L == Len(declared)
           Good(n) == AreaSound(g[n]) /\ \A s \in 0 .. n : Extends(g[s], g[n])
           N == {n \in Nat : n <= L => Good(n)}
<1>1. L \in Nat /\ DOMAIN declared = 1 .. L
  BY DEF Declarations
<1>2. \A n \in 0 .. L : /\ IsModule(g[n]) /\ ~g[n].crashed
                        /\ DOMAIN g[n].classes = 1 .. L
  BY DEF IsTrace
<1>3. \A n \in 1 .. L : LinkedTo(declared, g[n - 1], n, g[n])
  BY DEF IsTrace
<1>4. 0 \in N
  <2>1. g[0] = Start(declared)
    BY DEF IsTrace
  <2>2. g[0].used = 0 /\ g[0].classes = [i \in DOMAIN declared |-> Unlinked]
    BY <2>1 DEF Start
  <2>3. Unlinked.regions.count = 0 /\ \E n \in Nat : DOMAIN Unlinked.vtable = 1 .. n
    <3>1. Unlinked.regions.count = 0 /\ Unlinked.vtable = <<>>
      BY DEF Unlinked
    <3>2. DOMAIN <<>> = 1 .. 0 /\ 0 \in Nat
      OBVIOUS
    <3> QED BY <3>1, <3>2
  <2>4. AreaSound(g[0])
    BY <2>2, <2>3 DEF AreaSound
  <2>5. Extends(g[0], g[0])
    BY <2>2 DEF Extends
  <2>6. \A s \in 0 .. 0 : s = 0
    OBVIOUS
  <2> QED BY <2>4, <2>5, <2>6
<1>5. ASSUME NEW n \in Nat, n \in N PROVE n + 1 \in N
  <2> SUFFICES ASSUME n + 1 <= L PROVE Good(n + 1)
    OBVIOUS
  <2>1. n \in 0 .. L /\ n + 1 \in 0 .. L /\ n + 1 \in 1 .. L /\ (n + 1) - 1 = n
    BY <1>1
  <2>2. Good(n)
    BY <1>1, <1>5, <2>1
  <2>3. LinkedTo(declared, g[n], n + 1, g[n + 1])
    <3>1. LinkedTo(declared, g[(n + 1) - 1], n + 1, g[n + 1])
      BY <1>3, <2>1
    <3> QED BY <2>1, <3>1
  <2>4. AreaSound(g[n + 1]) /\ Extends(g[n], g[n + 1])
    <3>1. IsModule(g[n]) /\ AreaSound(g[n]) /\ DOMAIN g[n].classes = DOMAIN declared
          /\ n + 1 \in DOMAIN declared /\ ~g[n + 1].crashed
      BY <1>1, <1>2, <2>1, <2>2
    <3> QED BY <2>3, <3>1, StepExtends
  <2>5. ASSUME NEW s \in 0 .. (n + 1) PROVE Extends(g[s], g[n + 1])
    <3>1. CASE s = n + 1
      BY <2>4, <3>1 DEF AreaSound, Extends
    <3>2. CASE s # n + 1
      <4>1. s \in 0 .. n
        BY <3>2
      <4>2. Extends(g[s], g[n])
        BY <2>2, <4>1
      <4> QED BY <2>4, <4>2, ExtendsOn
    <3> QED BY <3>1, <3>2
  <2> QED BY <2>4, <2>5
<1> HIDE DEF N
<1>6. Nat \subseteq N
  BY <1>4, <1>5, Induction
<1>7. \A n \in 0 .. L : n \in Nat /\ n <= L
  BY <1>1
<1> QED BY <1>6, <1>7 DEF N

(* The list of a class: the one run of a class without a superclass, if    *)
(* that has references, and then the copy in each class below it.          *)
Lists(l, d, number) ==
    LET r == l.classes[d].regions
    IN  \/ number = 0 /\ r.count = 0
        \/ /\ number # 0 /\ r.count = 1 /\ r.at \in Nat /\ r.at + 2 <= l.used
           /\ Word8(l, r.at) = 0 /\ Word8(l, r.at + 1) = number

LEMMA ListsStay ==
    ASSUME NEW l, NEW p, Extends(l, p), NEW d, l.classes[d] = p.classes[d],
           NEW number, Lists(l, d, number)
    PROVE  Lists(p, d, number)
<1> DEFINE r == l.classes[d].regions
<1>1. r = p.classes[d].regions
  OBVIOUS
<1>2. CASE number = 0
  BY <1>1, <1>2 DEF Lists
<1>3. CASE number # 0
  <2>1. /\ r.count = 1 /\ r.at \in Nat /\ r.at + 2 <= l.used
        /\ Word8(l, r.at) = 0 /\ Word8(l, r.at + 1) = number
    BY <1>3 DEF Lists
  <2> HIDE DEF r
  <2> DEFINE at == r.at
  <2>2. at \in Nat /\ at + 1 \in Nat /\ at < l.used /\ at + 1 < l.used /\ at + 2 <= p.used
    BY <2>1 DEF Extends
  <2>3. Word8(p, at) = Word8(l, at) /\ Word8(p, at + 1) = Word8(l, at + 1)
    BY <2>2 DEF Extends
  <2>4. /\ r.count = 1 /\ r.at \in Nat /\ r.at + 2 <= p.used
        /\ Word8(p, r.at) = 0 /\ Word8(p, r.at + 1) = number
    BY <2>1, <2>2, <2>3
  <2> QED BY <1>1, <1>3, <2>4 DEF Lists
<1> QED BY <1>2, <1>3

(* The references of a class without a superclass, or none of its own and  *)
(* the list of its superclass.                                             *)
LEMMA ListsMade ==
    ASSUME NEW declared, declared \in Declarations(Len(declared)), NEW n \in DOMAIN declared,
           NEW h, IsModule(h), AreaSound(h), DOMAIN h.classes = DOMAIN declared,
           NEW p, LinkedTo(declared, h, n, p), ~p.crashed,
           NEW number \in Nat,
           \/ /\ declared[n].super = 0 /\ number = Cardinality(References(declared[n]))
              /\ (number = 0 <=> References(declared[n]) = {})
           \/ /\ declared[n].super # 0 /\ References(declared[n]) = {}
              /\ Lists(h, declared[n].super, number)
    PROVE  Lists(p, n, number)
<1> DEFINE class == declared[n]
           made == Made(declared, h, n)
           q == PutRegions(made, class)
           r == Regions(made, class)
           above == Super(made, class).regions
<1>1. Extends(h, made) /\ Extends(q, p)
  BY StepExtends
<1>2. IsModule(made) /\ made.classes = h.classes
  BY MadeKeeps
<1>3. p.classes[n].regions = r
  <2>1. p.classes[n] = LinkedClass(declared, h, n)
    BY DEF LinkedTo
  <2> QED BY <2>1 DEF LinkedClass
<1>4. class.super # 0 => References(class) = {} /\ Lists(made, class.super, number)
  <2> SUFFICES ASSUME class.super # 0 PROVE References(class) = {} /\ Lists(made, class.super, number)
    OBVIOUS
  <2>1. References(class) = {} /\ Lists(h, class.super, number)
    OBVIOUS
  <2> HIDE DEF made
  <2>2. h.classes[class.super] = made.classes[class.super]
    BY <1>2
  <2> QED BY <1>1, <2>1, <2>2, ListsStay
<1>5. class.super = 0 => /\ number = Cardinality(References(class))
                         /\ (number = 0 <=> References(class) = {})
  OBVIOUS
<1>6. made.used \in Nat
  BY <1>1 DEF Extends
<1>7. above = made.classes[class.super].regions
  BY DEF Super
<1> HIDE DEF made, class
<1>8. CASE number = 0
  <2>1. class.super # 0 => above.count = 0
    BY <1>4, <1>7, <1>8 DEF Lists
  <2>2. References(class) = {}
    BY <1>4, <1>5, <1>8
  <2>3. r.count = 0
    BY <2>1, <2>2 DEF Regions, InheritedRegion
  <2> QED BY <1>3, <1>8, <2>3 DEF Lists
<1>9. CASE number # 0
  <2>1. /\ r.at = made.used /\ r.count = 1 /\ made.used + 2 <= q.used
        /\ Word8(q, made.used) = 0 /\ Word8(q, made.used + 1) = number
    <3>1. CASE class.super = 0
      <4>1. Base(made, class) = 0
        BY <3>1 DEF Base, AlignUp
      <4>2. References(class) # {} /\ number = Cardinality(References(class))
        BY <1>5, <1>9, <3>1
      <4>3. OneRun(made, class, 0, number)
        BY <3>1, <4>1, <4>2 DEF OneRun
      <4> QED BY <1>2, <1>6, <4>3, RunWritten
    <3>2. CASE class.super # 0
      <4>1. /\ above.count = 1 /\ above.at \in Nat
            /\ Word8(made, above.at) = 0 /\ Word8(made, above.at + 1) = number
        BY <1>4, <1>7, <1>9, <3>2 DEF Lists
      <4>2. References(class) = {}
        BY <1>4, <3>2
      <4>3. OneRun(made, class, 0, number)
        BY <3>2, <4>1, <4>2 DEF OneRun
      <4> QED BY <1>2, <1>6, <4>3, RunWritten
    <3> QED BY <3>1, <3>2
  <2> HIDE DEF q, r
  <2> DEFINE at == made.used
  <2>2. at \in Nat /\ at + 1 \in Nat /\ at < q.used /\ at + 1 < q.used /\ at + 2 <= p.used
    BY <1>1, <1>6, <2>1 DEF Extends
  <2>3. Word8(p, at) = 0 /\ Word8(p, at + 1) = number
    BY <1>1, <2>1, <2>2 DEF Extends
  <2> QED BY <1>3, <1>9, <2>1, <2>2, <2>3 DEF Lists
<1> QED BY <1>8, <1>9

LEMMA RunVisited ==
    ASSUME NEW l, NEW i, NEW number \in Nat, Lists(l, i, number)
    PROVE  Visited(l, i) = {8 * n : n \in 0 .. (number - 1)}
<1> DEFINE r == l.classes[i].regions
           run(k) == {Word8(l, r.at + 2 * k) + 8 * n : n \in 0 .. (Word8(l, r.at + 2 * k + 1) - 1)}
<1>1. Visited(l, i) = UNION {run(k) : k \in 0 .. (r.count - 1)}
  BY DEF Visited
<1>2. CASE number = 0
  <2>1. r.count = 0
    BY <1>2 DEF Lists
  <2> HIDE DEF run, r
  <2>2. 0 .. (r.count - 1) = {} /\ 0 .. (number - 1) = {}
    BY <1>2, <2>1
  <2> QED BY <1>1, <2>2
<1>3. CASE number # 0
  <2>1. r.count = 1 /\ r.at \in Nat /\ Word8(l, r.at) = 0 /\ Word8(l, r.at + 1) = number
    BY <1>3 DEF Lists
  <2> HIDE DEF r
  <2>2. r.at + 2 * 0 = r.at /\ r.at + 2 * 0 + 1 = r.at + 1
    BY <2>1
  <2>3. run(0) = {0 + 8 * n : n \in 0 .. (number - 1)}
    BY <2>1, <2>2
  <2>4. \A n \in 0 .. (number - 1) : 0 + 8 * n = 8 * n
    OBVIOUS
  <2>5. run(0) = {8 * n : n \in 0 .. (number - 1)}
    BY <2>3, <2>4
  <2> HIDE DEF run
  <2>6. 0 .. (r.count - 1) = {0}
    BY <2>1
  <2>7. Visited(l, i) = run(0)
    BY <1>1, <2>6
  <2> QED BY <2>5, <2>7
<1> QED BY <1>2, <1>3

LEMMA ReferencesAreVisited ==
    ASSUME NEW declared, declared \in Declarations(Len(declared)),
           ~LinkClasses(declared).crashed,
           NEW i \in DOMAIN declared, InOrder(declared, i)
    PROVE  ReferencesVisited(declared, LinkClasses(declared), i)
<1> DEFINE L == Len(declared)
           l == LinkClasses(declared)
           c == Chain(declared, i)
           m == Len(c)
           root == c[m]
           fields == declared[root].fields
           refs == References(declared[root])
           number == Cardinality(refs)
<1> SUFFICES ASSUME \A d \in Range(c) : declared[d].super # 0 => References(declared[d]) = {}
             PROVE  Visited(l, i) = {OffsetOf(l, f) : f \in {g \in FieldsOf(declared, i) :
                                                           TypeOf(declared, g) = "Reference"}}
  BY DEF ReferencesVisited, RunsMisplaced
<1>1. L \in Nat /\ DOMAIN declared = 1 .. L /\ i \in 1 .. L
  BY ClassFacts
<1>2. /\ IsLine(declared, c) /\ c[1] = i /\ m \in Nat \ {0} /\ DOMAIN c = 1 .. m
      /\ \A k \in 1 .. m : c[k] \in 1 .. i /\ declared[c[k]].super < c[k]
      /\ declared[root].super = 0
  BY ChainIsLine DEF IsLine
<1>3. /\ \A k \in 1 .. m : c[k] \in DOMAIN declared /\ c[k] \in Range(c)
      /\ root \in DOMAIN declared /\ root \in Range(c) /\ declared[root].super < root
  BY <1>1, <1>2 DEF Range
<1>4. /\ \A k \in 1 .. (m - 1) : /\ declared[c[k]].super # 0 /\ c[k + 1] = declared[c[k]].super
                                 /\ References(declared[c[k]]) = {}
  <2> SUFFICES ASSUME NEW k \in 1 .. (m - 1)
               PROVE  /\ declared[c[k]].super # 0 /\ c[k + 1] = declared[c[k]].super
                      /\ References(declared[c[k]]) = {}
    OBVIOUS
  <2>1. declared[c[k]].super # 0 /\ c[k + 1] = declared[c[k]].super
    BY <1>2 DEF IsLine
  <2>2. k \in 1 .. m
    BY <1>2
  <2>3. c[k] \in Range(c)
    BY <1>3, <2>2
  <2> QED BY <2>1, <2>3
<1>5. fields \in Seq(Type)
  BY <1>3, ClassFacts
<1>6. refs = {j \in DOMAIN fields : fields[j] = "Reference"}
  BY DEF References
<1> HIDE DEF fields
<1>7. /\ number \in Nat /\ (number = 0 <=> refs = {})
      /\ {BytesOf(fields, Before(fields, j)) : j \in refs} = {8 * n : n \in 0 .. (number - 1)}
  BY <1>5, <1>6, ReferencePlaces
<1>8. l.classes[root].offsets = Offsets(l, declared[root])
  BY <1>3, SizesLinked
<1>9. Base(l, declared[root]) = 0
  BY <1>2 DEF Base, AlignUp
<1>10. PICK g : IsTrace(declared, g)
  BY TraceExists
<1>11. \A n \in 0 .. L : /\ AreaSound(g[n]) /\ IsModule(g[n]) /\ ~g[n].crashed
                         /\ DOMAIN g[n].classes = DOMAIN declared
                         /\ \A s \in 0 .. n : Extends(g[s], g[n])
  BY <1>1, <1>10, TraceExtends DEF IsTrace
<1>12. /\ \A n \in 1 .. L : LinkedTo(declared, g[n - 1], n, g[n])
       /\ g[L] = l
       /\ \A s \in 1 .. L : \A n \in s .. L : g[n].classes[s] = l.classes[s]
  BY <1>10 DEF IsTrace
<1> HIDE DEF l, c, refs, number
<1> DEFINE S == {k \in 1 .. m : Lists(g[c[k]], c[k], number)}
<1>13. m \in S
  <2>1. m \in 1 .. m /\ root \in 1 .. L /\ root \in 0 .. L /\ root - 1 \in 0 .. L
    BY <1>1, <1>2, <1>3
  <2> DEFINE h == g[root - 1]
             p == g[root]
  <2>2. /\ IsModule(h) /\ AreaSound(h) /\ DOMAIN h.classes = DOMAIN declared
        /\ LinkedTo(declared, h, root, p) /\ ~p.crashed
    BY <1>11, <1>12, <2>1
  <2>3. /\ declared[root].super = 0 /\ number = Cardinality(References(declared[root]))
        /\ (number = 0 <=> References(declared[root]) = {})
    BY <1>2, <1>7 DEF number, refs
  <2> HIDE DEF h, p
  <2>4. Lists(p, root, number)
    BY <1>3, <1>7, <2>2, <2>3, ListsMade
  <2> QED BY <2>1, <2>4 DEF p
<1>14. ASSUME NEW k \in 1 .. (m - 1), k + 1 \in S
       PROVE  k \in S
  <2> DEFINE n == c[k]
             s == c[k + 1]
             h == g[n - 1]
             p == g[n]
  <2>1. k \in 1 .. m /\ k + 1 \in 1 .. m
    BY <1>2
  <2>2. n \in DOMAIN declared /\ s \in DOMAIN declared /\ s = declared[n].super /\ s < n
        /\ declared[n].super # 0 /\ References(declared[n]) = {}
    BY <1>2, <1>3, <1>4, <2>1
  <2> HIDE DEF n, s
  <2>3. /\ n \in 1 .. L /\ n \in 0 .. L /\ n - 1 \in 0 .. L /\ s \in 0 .. (n - 1)
        /\ s \in 1 .. L /\ n - 1 \in s .. L /\ s \in s .. L
    BY <1>1, <2>2
  <2>4. /\ IsModule(h) /\ AreaSound(h) /\ DOMAIN h.classes = DOMAIN declared
        /\ LinkedTo(declared, h, n, p) /\ ~p.crashed /\ Extends(g[s], h)
        /\ g[s].classes[s] = h.classes[s]
    BY <1>11, <1>12, <2>3
  <2>5. Lists(g[s], s, number)
    BY <1>14 DEF s
  <2>6. Lists(h, s, number)
    BY <2>4, <2>5, ListsStay
  <2> HIDE DEF h, p
  <2>7. Lists(p, n, number)
    BY <1>7, <2>2, <2>4, <2>6, ListsMade
  <2> QED BY <2>1, <2>7 DEF p, n
<1> HIDE DEF S
<1>15. 1 \in S
  <2>1. 1 .. m \subseteq S
    BY <1>2, <1>13, <1>14, DownInduction
  <2>2. 1 \in 1 .. m
    BY <1>2
  <2> QED BY <2>1, <2>2
<1>16. Lists(l, i, number)
  <2>1. Lists(g[i], i, number)
    BY <1>2, <1>15 DEF S
  <2>2. L \in 0 .. L /\ i \in 0 .. L /\ i \in i .. L /\ L \in i .. L
    BY <1>1
  <2>3. Extends(g[i], g[L]) /\ g[i].classes[i] = g[L].classes[i]
    BY <1>1, <1>11, <1>12, <2>2
  <2> QED BY <1>12, <2>1, <2>3, ListsStay
<1>17. Visited(l, i) = {8 * n : n \in 0 .. (number - 1)}
  BY <1>7, <1>16, RunVisited
<1> DEFINE F == {f \in FieldsOf(declared, i) : TypeOf(declared, f) = "Reference"}
<1>18. F = {<<root, j>> : j \in refs}
  <2>1. \A f : f \in FieldsOf(declared, i)
                  <=> \E k \in 1 .. m : \E j \in DOMAIN declared[c[k]].fields : f = <<c[k], j>>
    BY <1>2 DEF FieldsOf, Range, c
  <2>2. ASSUME NEW f \in F PROVE \E j \in refs : f = <<root, j>>
    <3>1. PICK k \in 1 .. m : \E j \in DOMAIN declared[c[k]].fields : f = <<c[k], j>>
      BY <2>1
    <3>2. PICK j \in DOMAIN declared[c[k]].fields : f = <<c[k], j>>
      BY <3>1
    <3>3. declared[c[k]].fields[j] = "Reference"
      BY <3>2 DEF TypeOf
    <3>4. j \in References(declared[c[k]])
      BY <3>2, <3>3 DEF References
    <3>5. k = m
      <4>1. k \notin 1 .. (m - 1)
        BY <1>4, <3>4
      <4>2. m \in Nat \ {0}
        BY <1>2
      <4> QED BY <4>1, <4>2
    <3> QED BY <3>2, <3>4, <3>5 DEF refs
  <2>3. ASSUME NEW j \in refs PROVE <<root, j>> \in F
    <3>1. j \in DOMAIN declared[root].fields /\ declared[root].fields[j] = "Reference"
      BY DEF refs, References
    <3>2. m \in 1 .. m
      BY <1>2
    <3>3. <<root, j>> \in FieldsOf(declared, i)
      BY <2>1, <3>1, <3>2
    <3>4. TypeOf(declared, <<root, j>>) = "Reference"
      BY <3>1 DEF TypeOf
    <3> QED BY <3>3, <3>4
  <2> HIDE DEF F
  <2> QED BY <2>2, <2>3
<1>19. \A j \in refs : OffsetOf(l, <<root, j>>) = BytesOf(fields, Before(fields, j))
  <2> SUFFICES ASSUME NEW j \in refs
               PROVE  OffsetOf(l, <<root, j>>) = BytesOf(fields, Before(fields, j))
    OBVIOUS
  <2> DEFINE bytes == BytesOf(fields, Before(fields, j))
  <2>1. j \in DOMAIN fields
    BY <1>6
  <2>2. OffsetOf(l, <<root, j>>) = Base(l, declared[root]) + bytes
    BY <1>8, <2>1 DEF OffsetOf, Offsets, fields
  <2>3. bytes \in {8 * n : n \in 0 .. (number - 1)}
    BY <1>7
  <2> HIDE DEF bytes
  <2>4. bytes \in Nat
    BY <1>7, <2>3
  <2>5. OffsetOf(l, <<root, j>>) = bytes
    BY <1>9, <2>2, <2>4
  <2> QED BY <2>5 DEF bytes
<1> HIDE DEF F
<1>20. {OffsetOf(l, f) : f \in F} = {BytesOf(fields, Before(fields, j)) : j \in refs}
  BY <1>18, <1>19
<1> QED BY <1>7, <1>17, <1>20 DEF F

(* In a linked module of any number of classes with any fields, where the  *)
(* superclasses of a class come before it, no field of an instance reaches *)
(* into another or out of the object.  The collector visits its            *)
(* references, all of them and nothing else, if no class of the chain but  *)
(* the root has references of its own: otherwise the list of runs was      *)
(* written outside its memory, and nothing is said of what is visited.     *)
THEOREM LayoutIsSound == AllSpec => []LayoutSound
<1>1. ProblemInv /\ UNCHANGED problem => ProblemInv'
  BY DEF ProblemInv
<1>2. ProblemInv => LayoutSound
  <2> SUFFICES ASSUME ProblemInv, problem.kind = "module"
               PROVE  LayoutSound
    BY DEF LayoutSound
  <2> DEFINE declared == problem.declared
             l == LinkClasses(declared)
  <2>1. declared \in Declarations(Len(declared))
    BY ModulesAssumption DEF ProblemInv
  <2>2. ASSUME ~l.crashed, NEW i \in DOMAIN declared, InOrder(declared, i)
        PROVE  FieldsIndependent(declared, l, i) /\ ReferencesVisited(declared, l, i)
    BY <2>1, <2>2, FieldsAreApart, ReferencesAreVisited
  <2> HIDE DEF l
  <2>3. ~l.crashed =>
           \A i \in DOMAIN declared : InOrder(declared, i) =>
               FieldsIndependent(declared, l, i) /\ ReferencesVisited(declared, l, i)
    BY <2>2
  <2> QED BY <2>3 DEF LayoutSound, l
<1> QED BY <1>1, <1>2, ProblemStarts, ProblemStays, PTL DEF AllSpec

-----------------------------------------------------------------------------
(* Where branches lead.                                                   *)

(* The lengths of operands.                                                *)
LEMMA WidthIs ==
    ASSUME NEW operand, NEW prefixes
    PROVE  Width(operand, prefixes) \in {1, 2, 4, 8}
<1> DEFINE short == IF operand.wide \in prefixes THEN 2 ELSE 1
           a == operand.long /\ "GIGANTIC_IMMEDIATE" \in prefixes
           b == operand.long /\ "GIGANTIC_IMMEDIATE" \notin prefixes /\ "HUGE_IMMEDIATE" \in prefixes
<1>1. Width(operand, prefixes) = CASE a -> 8 [] b -> 4 [] OTHER -> short
  BY DEF Width
<1>2. short \in {1, 2} /\ ~(a /\ b)
  OBVIOUS
<1> HIDE DEF a, b, short
<1>3. a => Width(operand, prefixes) = 8
  BY <1>1, <1>2
<1>4. b => Width(operand, prefixes) = 4
  BY <1>1, <1>2
<1>5. ~a /\ ~b => Width(operand, prefixes) = short
  BY <1>1
<1> QED BY <1>2, <1>3, <1>4, <1>5

LEMMA WidthsAdd ==
    ASSUME NEW operands, NEW prefixes
    PROVE  /\ \A k \in Nat : WidthBefore(operands, prefixes, k) \in Nat
           /\ WidthBefore(operands, prefixes, 1) = 0
           /\ \A k \in Nat \ {0} :
                 WidthBefore(operands, prefixes, k + 1) =
                     WidthBefore(operands, prefixes, k) + Width(operands[k], prefixes)
<1> DEFINE w(j) == Width(operands[j], prefixes)
           f == [j \in Nat |-> w(j)]
           S(k) == 1 .. (k - 1)
           Sized(k, g) == [s \in SUBSET S(k) |->
                             IF s = {} THEN 0
                             ELSE w(CHOOSE x \in s : TRUE) + g[s \ {CHOOSE x \in s : TRUE}]]
<1>1. \A k \in Nat : WidthBefore(operands, prefixes, k) = (CHOOSE g : g = Sized(k, g))[S(k)]
  BY DEF WidthBefore, MapThenSumSet, MapThenFoldSet
<1>2. ASSUME NEW k \in Nat, NEW g PROVE Sized(k, g) = Summing(f, S(k), g)
  <2>1. ASSUME NEW s \in SUBSET S(k), s # {}
        PROVE  w(CHOOSE x \in s : TRUE) = f[CHOOSE x \in s : TRUE]
    <3>1. (CHOOSE x \in s : TRUE) \in s
      BY <2>1
    <3>2. s \subseteq Nat
      BY <2>1
    <3>3. (CHOOSE x \in s : TRUE) \in Nat
      BY <3>1, <3>2
    <3> HIDE DEF w
    <3> QED BY <3>3
  <2> HIDE DEF w, f, S
  <2> QED BY <2>1 DEF Summing
<1>3. \A j \in Nat : f[j] \in Nat /\ f[j] \in Int /\ f[j] = w(j)
  <2>1. \A j : w(j) \in {1, 2, 4, 8}
    BY WidthIs
  <2> HIDE DEF w
  <2>2. \A j : w(j) \in Nat
    BY <2>1
  <2> QED BY <2>2
<1>4. \A k \in Nat : IsFiniteSet(S(k)) /\ S(k) \subseteq Nat
  BY FS_Interval
<1>5. S(1) = {}
  OBVIOUS
<1>6. \A k \in Nat \ {0} : S(k + 1) = S(k) \union {k} /\ k \notin S(k)
  OBVIOUS
<1> HIDE DEF Sized, f, S, w
<1>7. ASSUME NEW k \in Nat PROVE WidthBefore(operands, prefixes, k) = Total(f, S(k))
  <2>1. \A g : g = Sized(k, g) <=> g = Summing(f, S(k), g)
    BY <1>2
  <2> QED BY <1>1, <2>1 DEF Total
<1>8. ASSUME NEW k \in Nat PROVE WidthBefore(operands, prefixes, k) \in Nat
  <2>1. IsFiniteSet(S(k)) /\ \A x \in S(k) : f[x] \in Nat /\ f[x] \in Int
    BY <1>3, <1>4
  <2>2. Total(f, S(k)) \in Int /\ 0 <= Total(f, S(k))
    BY <2>1, SumIsInteger, SumGrows
  <2> QED BY <1>7, <2>2
<1>9. WidthBefore(operands, prefixes, 1) = 0
  BY <1>5, <1>7, SumOfNone
<1>10. ASSUME NEW k \in Nat \ {0}
       PROVE  WidthBefore(operands, prefixes, k + 1) =
                  WidthBefore(operands, prefixes, k) + Width(operands[k], prefixes)
  <2>1. /\ IsFiniteSet(S(k)) /\ k \notin S(k) /\ \A x \in S(k) \union {k} : f[x] \in Int
        /\ S(k + 1) = S(k) \union {k}
    BY <1>3, <1>4, <1>6
  <2>2. Total(f, S(k + 1)) = f[k] + Total(f, S(k))
    BY <2>1, SumWith
  <2>3. Total(f, S(k + 1)) = WidthBefore(operands, prefixes, k + 1)
        /\ Total(f, S(k)) = WidthBefore(operands, prefixes, k)
    BY <1>7
  <2>4. f[k] = Width(operands[k], prefixes) /\ f[k] \in Int
    BY <1>3 DEF w
  <2>5. WidthBefore(operands, prefixes, k) \in Nat
    BY <1>8
  <2> QED BY <2>2, <2>3, <2>4, <2>5
<1> QED BY <1>8, <1>9, <1>10

(* What readLE() reads, digit by digit.                                    *)
Digit(code, at) == IF at <= Len(code) THEN code[at] ELSE 0

LEMMA ReadIsDigits ==
    ASSUME NEW code \in Seq(0 .. (2^CodeBits - 1)), NEW at \in Nat \ {0}, NEW width \in Nat \ {0}
    PROVE  LET v == ReadLE(code, at, width)
               q == 2^(CodeBits * (width - 1))
               x == Digit(code, at + (width - 1))
           IN  /\ v \in 0 .. (2^(CodeBits * width) - 1) /\ x \in 0 .. (2^CodeBits - 1)
               /\ \E low \in 0 .. (q - 1) : v = x * q + low
<1> DEFINE S(n) == 0 .. (n - 1)
           d == [k \in S(width) |-> Digit(code, at + k)]
           digit(k) == (IF at + k <= Len(code) THEN code[at + k] ELSE 0) * 2^(CodeBits * k)
           f == [k \in S(width) |-> digit(k)]
           Sized(g) == [s \in SUBSET S(width) |->
                          IF s = {} THEN 0
                          ELSE digit(CHOOSE x \in s : TRUE) + g[s \ {CHOOSE x \in s : TRUE}]]
<1>1. ReadLE(code, at, width) = (CHOOSE g : g = Sized(g))[S(width)]
  BY DEF ReadLE, MapThenSumSet, MapThenFoldSet
<1>2. ASSUME NEW g PROVE Sized(g) = Summing(f, S(width), g)
  <2>1. ASSUME NEW s \in SUBSET S(width), s # {}
        PROVE  digit(CHOOSE x \in s : TRUE) = f[CHOOSE x \in s : TRUE]
    <3>1. (CHOOSE x \in s : TRUE) \in s
      BY <2>1
    <3>2. (CHOOSE x \in s : TRUE) \in S(width)
      BY <3>1
    <3> HIDE DEF digit, S
    <3> QED BY <3>2
  <2> HIDE DEF digit, f, S
  <2> QED BY <2>1 DEF Summing
<1>3. \A k \in S(width) : d[k] = Digit(code, at + k) /\ f[k] = d[k] * 2^(CodeBits * k)
  BY DEF Digit
<1>4. \A k \in Nat : Digit(code, at + k) \in 0 .. (2^CodeBits - 1)
  <2> DEFINE B == 0 .. (2^CodeBits - 1)
  <2>1. 0 \in B
    <3>1. 2^CodeBits \in Nat \ {0}
      BY CodeAssumption, PowersDouble
    <3> QED BY <3>1
  <2> HIDE DEF B
  <2>2. code \in Seq(B)
    BY DEF B
  <2>3. ASSUME NEW k \in Nat PROVE Digit(code, at + k) \in B
    <3>1. CASE at + k <= Len(code)
      <4>1. at + k \in 1 .. Len(code)
        BY <2>2, <3>1
      <4> QED BY <2>2, <3>1, <4>1 DEF Digit
    <3>2. CASE ~(at + k <= Len(code))
      BY <2>1, <3>2 DEF Digit
    <3> QED BY <3>1, <3>2
  <2> QED BY <2>3 DEF B
<1>5. \A k \in S(width) : k \in Nat
  OBVIOUS
<1> HIDE DEF Sized, digit, f, d
<1>6. ReadLE(code, at, width) = Total(f, S(width))
  <2> HIDE DEF S
  <2>1. \A g : g = Sized(g) <=> g = Summing(f, S(width), g)
    BY <1>2
  <2> QED BY <1>1, <2>1 DEF Total
<1>7. \A k \in 0 .. (width - 1) : d[k] \in 0 .. (2^CodeBits - 1) /\ f[k] = d[k] * 2^(CodeBits * k)
  <2> SUFFICES ASSUME NEW k \in S(width)
               PROVE  d[k] \in 0 .. (2^CodeBits - 1) /\ f[k] = d[k] * 2^(CodeBits * k)
    OBVIOUS
  <2> HIDE DEF S
  <2> QED BY <1>3, <1>4, <1>5
<1>8. \A m \in 0 .. width :
         /\ Total(f, S(m)) \in 0 .. (2^(CodeBits * m) - 1)
         /\ m # 0 => Total(f, S(m)) = d[m - 1] * 2^(CodeBits * (m - 1)) + Total(f, S(m - 1))
  <2>1. width \in Nat
    OBVIOUS
  <2>2. AddUp(f, d, width, CodeBits)
    BY <1>7, <2>1, CodeAssumption, DigitsAddUp DEF AreDigits
  <2> QED BY <2>2 DEF AddUp
<1>9. width \in 0 .. width /\ width - 1 \in 0 .. width /\ width # 0 /\ width - 1 \in Nat
         /\ width - 1 \in S(width)
  OBVIOUS
<1>10. d[width - 1] = Digit(code, at + (width - 1))
  BY <1>3, <1>9
<1> HIDE DEF S
<1>11. /\ Total(f, S(width)) \in 0 .. (2^(CodeBits * width) - 1)
       /\ Total(f, S(width)) = d[width - 1] * 2^(CodeBits * (width - 1)) + Total(f, S(width - 1))
       /\ Total(f, S(width - 1)) \in 0 .. (2^(CodeBits * (width - 1)) - 1)
  BY <1>8, <1>9
<1>12. Digit(code, at + (width - 1)) \in 0 .. (2^CodeBits - 1)
  BY <1>4, <1>9
<1> DEFINE v == ReadLE(code, at, width)
           q == 2^(CodeBits * (width - 1))
           all == 2^(CodeBits * width)
           p == 2^CodeBits
           x == Digit(code, at + (width - 1))
           low == Total(f, S(width - 1))
<1>13. v \in 0 .. (all - 1) /\ v = x * q + low /\ low \in 0 .. (q - 1) /\ x \in 0 .. (p - 1)
  BY <1>6, <1>10, <1>11, <1>12
<1> HIDE DEF v, q, all, p, x, low
<1>14. v \in 0 .. (all - 1) /\ x \in 0 .. (p - 1) /\ \E y \in 0 .. (q - 1) : v = x * q + y
  BY <1>13
<1> QED BY <1>14 DEF v, q, all, p, x

(* The sign of a number is the highest bit of its last byte.               *)
LEMMA SignOfLast ==
    ASSUME NEW width \in Nat \ {0}, NEW x \in 0 .. (2^CodeBits - 1),
           NEW low \in 0 .. (2^(CodeBits * (width - 1)) - 1), NEW v,
           v = x * 2^(CodeBits * (width - 1)) + low, v \in 0 .. (2^(CodeBits * width) - 1)
    PROVE  SignedAs(v, CodeBits * width) =
               v - (IF x >= 2^(CodeBits - 1) THEN 2^(CodeBits * width) ELSE 0)
<1> DEFINE bits == CodeBits * width
           q == 2^(CodeBits * (width - 1))
           h == 2^(CodeBits - 1)
           half == 2^(bits - 1)
           all == 2^bits
<1>1. /\ CodeBits \in Nat \ {0} /\ CodeBits - 1 \in Nat /\ CodeBits * (width - 1) \in Nat
      /\ bits \in Nat
  BY CodeAssumption
<1>2. bits - 1 = CodeBits * (width - 1) + (CodeBits - 1)
  BY <1>1
<1>3. half = q * h
  BY <1>1, <1>2, PowersAdd
<1>4. q \in Nat \ {0} /\ h \in Nat \ {0} /\ all \in Nat \ {0}
  BY <1>1, PowersDouble
<1>5. SignedAs(v, bits) = IF v % all < half THEN v % all ELSE (v % all) - all
  BY DEF SignedAs, Low
<1>6. v = x * q + low /\ v \in 0 .. (all - 1) /\ low \in 0 .. (q - 1)
  OBVIOUS
<1>7. x \in Nat
  OBVIOUS
<1> HIDE DEF q, h, half, all, bits
<1>8. v % all = v
  BY <1>4, <1>6
<1>9. v < half <=> ~(x >= h)
  <2>1. CASE x >= h
    <3>1. PICK z \in Nat : x = h + z
      <4>1. x = h + (x - h) /\ x - h \in Nat
        BY <1>4, <1>7, <2>1
      <4> QED BY <4>1
    <3>2. (h + z) * q = q * h + z * q /\ z * q \in Nat /\ q * h \in Nat
      BY <1>4
    <3>3. v >= q * h
      BY <1>4, <1>6, <3>1, <3>2
    <3> QED BY <1>3, <1>4, <1>6, <2>1, <3>2, <3>3
  <2>2. CASE ~(x >= h)
    <3>1. PICK z \in Nat : h = x + 1 + z
      <4>1. h = x + 1 + (h - x - 1) /\ h - x - 1 \in Nat
        BY <1>4, <1>7, <2>2
      <4> QED BY <4>1
    <3>2. q * (x + 1 + z) = x * q + q + z * q /\ z * q \in Nat /\ x * q \in Nat
      BY <1>4, <1>7
    <3>3. v < q * h
      BY <1>4, <1>6, <3>1, <3>2
    <3> QED BY <1>3, <2>2, <3>3
  <2> QED BY <2>1, <2>2
<1>10. SignedAs(v, bits) = v - (IF x >= h THEN all ELSE 0)
  BY <1>4, <1>5, <1>6, <1>8, <1>9
<1> QED BY <1>10 DEF bits, h, all

(* A branch ends with its offset.                                          *)
LEMMA OffsetIsLast ==
    ASSUME NEW op \in Jumps
    PROVE  LET ops == Operands(op)
               n   == Len(ops)
           IN  /\ n \in {1, 2} /\ DOMAIN ops = 1 .. n
               /\ ops[n].signed = TRUE
               /\ {k \in DOMAIN ops : ops[k].field = "imm"} = {n}
               /\ op \notin PrefixCodes \union {"none"}
<1>1. /\ op # "RETURN" /\ op \notin Moves /\ op \notin Computations /\ op \notin Steps
      /\ op \notin Calls /\ op \notin Objects /\ op \notin FloatUnaries \union FloatBinaries
      /\ op \notin PrefixCodes \union {"none"}
  <2>1. /\ op # "RETURN" /\ op \notin Moves /\ op \notin Steps
        /\ op \notin Calls /\ op \notin Objects /\ op \notin PrefixCodes \union {"none"}
    BY DEF Jumps, Moves, Steps, Calls, Objects, PrefixCodes
  <2>2. /\ op \notin Arithmetics /\ op \notin Bitwises /\ op \notin Shifts
        /\ op \notin Truncations /\ op \notin Extensions /\ op \notin Comparisons
    BY DEF Jumps, Arithmetics, Divisions, Bitwises, Shifts, Truncations, Extensions, Comparisons
  <2>3. op \notin Computations
    BY <2>2 DEF Computations
  <2>4. op \notin FloatUnaries \union FloatBinaries
    BY DEF Jumps, FloatUnaries, FloatBinaries, FloatConversions
  <2> QED BY <2>1, <2>3, <2>4
<1>2. Operands(op) = JumpOperands(op)
  BY <1>1 DEF Operands
<1> DEFINE one == Number(TRUE, "WIDE_OPERAND0")
           two == Number(TRUE, "WIDE_OPERAND1")
<1>3. /\ one.field = "imm" /\ one.signed = TRUE /\ two.field = "imm" /\ two.signed = TRUE
      /\ First.field = "a"
  BY DEF Number, First, Plain, Operand0
<1> HIDE DEF one, two
<1>4. CASE op = "JMP"
  <2>1. Operands(op) = <<one>>
    BY <1>2, <1>4 DEF JumpOperands, one
  <2>2. Len(Operands(op)) = 1 /\ DOMAIN Operands(op) = 1 .. 1 /\ Operands(op)[1] = one
    BY <2>1
  <2>3. {k \in DOMAIN Operands(op) : Operands(op)[k].field = "imm"} = {1}
    BY <1>3, <2>2
  <2> QED BY <1>1, <1>3, <2>2, <2>3
<1>5. CASE op # "JMP"
  <2>1. Operands(op) = <<First, two>>
    BY <1>2, <1>5 DEF JumpOperands, two
  <2>2. /\ Len(Operands(op)) = 2 /\ DOMAIN Operands(op) = 1 .. 2
        /\ Operands(op)[1] = First /\ Operands(op)[2] = two
    BY <2>1
  <2>3. {k \in DOMAIN Operands(op) : Operands(op)[k].field = "imm"} = {2}
    BY <1>3, <2>2
  <2> QED BY <1>1, <1>3, <2>2, <2>3
<1> QED BY <1>4, <1>5

(* Prefixes that are given once count as many as there are.                *)
LEMMA PrefixesCounted ==
    ASSUME NEW code, Len(code) \in Nat, DOMAIN code = 1 .. Len(code), ~RepeatsPrefix(code),
           NEW at \in Nat \ {0}, at <= Len(code)
    PROVE  /\ OpcodeAt(code, at) \in at .. Len(code)
           /\ Cardinality(PrefixesOf(code, at)) = OpcodeAt(code, at) - at
<1> DEFINE L == Len(code)
           K == {k \in at .. L : Meaning[code[k]] \notin PrefixCodes \/ k = L}
           o == Min(K)
           S == at .. (o - 1)
           T == {Meaning[code[k]] : k \in S}
           f == [k \in S |-> Meaning[code[k]]]
<1>1. OpcodeAt(code, at) = o /\ PrefixesOf(code, at) = T
  BY DEF OpcodeAt, PrefixesOf
<1>2. o \in K /\ \A k \in K : o <= k
  <2>1. K \subseteq Nat /\ K # {}
    <3>1. K \subseteq Nat /\ L \in K
      OBVIOUS
    <3> HIDE DEF K
    <3> QED BY <3>1
  <2> HIDE DEF K
  <2>2. Min(K) \in K /\ \A k \in K : Min(K) <= k
    BY ONLY <2>1, MinExists
  <2> QED BY <2>2
<1>3. o \in at .. L
  <2>1. K \subseteq at .. L
    OBVIOUS
  <2> HIDE DEF o, K, L
  <2> QED BY <1>2, <2>1
<1>4. \A k \in S : Meaning[code[k]] \in PrefixCodes /\ k \in DOMAIN code
  <2> SUFFICES ASSUME NEW k \in S PROVE Meaning[code[k]] \in PrefixCodes /\ k \in DOMAIN code
    BY Zenon
  <2>0. L \in Nat /\ DOMAIN code = 1 .. L /\ k \in at .. (o - 1)
    <3> HIDE DEF o
    <3> QED OBVIOUS
  <2>1. L \in Int /\ o \in Int /\ k \in Int /\ 1 <= at /\ at <= k /\ k < o /\ o <= L
    <3> HIDE DEF o, L, K, S
    <3> QED BY <1>3, <2>0
  <2>2. k \in at .. L /\ k # L /\ k \in 1 .. L
    <3> HIDE DEF o, L, K, S
    <3> QED BY <2>1
  <2>3. k \notin K
    <3> HIDE DEF o, K, S
    <3> QED BY <1>2, <2>1
  <2>4. Meaning[code[k]] \in PrefixCodes
    <3> HIDE DEF o, L, S
    <3> QED BY <2>2, <2>3
  <2> HIDE DEF o, L, K, S
  <2> QED BY <2>0, <2>2, <2>4
<1> HIDE DEF o, K
<1>5. ASSUME NEW k \in S, NEW m \in S, k < m PROVE Meaning[code[k]] # Meaning[code[m]]
  <2> SUFFICES ASSUME Meaning[code[k]] = Meaning[code[m]] PROVE FALSE
    OBVIOUS
  <2>1. \A j \in k .. m : Meaning[code[j]] \in PrefixCodes
    <3>1. \A j \in k .. m : j \in S
      BY <1>3
    <3> QED BY <1>4, <3>1
  <2> QED BY <1>4, <1>5, <2>1 DEF RepeatsPrefix
<1>6. \A k, m \in S : Meaning[code[k]] = Meaning[code[m]] => k = m
  <2> SUFFICES ASSUME NEW k \in S, NEW m \in S, k # m PROVE Meaning[code[k]] # Meaning[code[m]]
    OBVIOUS
  <2>1. k < m \/ m < k
    BY <1>3
  <2> QED BY <1>5, <2>1
<1>7. IsFiniteSet(S) /\ Cardinality(S) = o - at
  <2>1. at \in Int /\ o - 1 \in Int /\ o \in Int /\ at <= o
    BY <1>3
  <2>2. IsFiniteSet(S) /\ Cardinality(S) = IF at > o - 1 THEN 0 ELSE (o - 1) - at + 1
    BY <2>1, FS_Interval
  <2> QED BY <2>1, <2>2
<1>8. f \in Bijection(S, T)
  <2>1. f \in [S -> T]
    OBVIOUS
  <2>2. \A k, m \in S : f[k] = f[m] => k = m
    <3> HIDE DEF S
    <3> QED BY <1>6
  <2>3. \A t \in T : \E k \in S : f[k] = t
    <3> HIDE DEF S
    <3> QED OBVIOUS
  <2> HIDE DEF f, S, T
  <2> QED BY <2>1, <2>2, <2>3, Fun_IsBij
<1>9. Cardinality(T) = Cardinality(S)
  <2> HIDE DEF f, S, T
  <2>1. ExistsBijection(S, T)
    BY <1>8 DEF ExistsBijection
  <2> QED BY <1>7, <2>1, FS_Bijection
<1> QED BY <1>1, <1>3, <1>7, <1>9

LEMMA OffsetRead ==
    ASSUME NEW code \in Seq(0 .. (2^CodeBits - 1)), ~RepeatsPrefix(code),
           NEW start \in Nat \ {0}, CanFetch(code, start), OpOf(code, start) \in Jumps
    PROVE  DecodeArgs(code, start).imm =
               OffsetEndingAt(code, OffsetWidth(code, start), InstEnd(code, start))
<1> DEFINE L == Len(code)
           o == OpcodeAt(code, start)
           op == Meaning[code[o]]
           ops == Operands(op)
           prefixes == PrefixesOf(code, start)
           n == Len(ops)
           w == Width(ops[n], prefixes)
           before == WidthBefore(ops, prefixes, n)
           at == o + 1 + before
           end == InstEnd(code, start)
           read == {k \in DOMAIN ops : ops[k].field = "imm"}
<1>1. L \in Nat /\ DOMAIN code = 1 .. L
  OBVIOUS
<1>2. start <= L /\ FixedLength(code, start) \in 1 .. (L - start + 1)
  BY DEF CanFetch
<1>3. o \in start .. L /\ Cardinality(prefixes) = o - start
  BY <1>1, <1>2, PrefixesCounted
<1>4. op \in Jumps
  BY DEF OpOf
<1>5. /\ n \in {1, 2} /\ DOMAIN ops = 1 .. n /\ ops[n].signed = TRUE /\ read = {n}
      /\ op \notin PrefixCodes \union {"none"}
  BY <1>4, OffsetIsLast
<1>6. FixedLength(code, start) = Cardinality(prefixes) + 1 + WidthBefore(ops, prefixes, n + 1)
  BY <1>5 DEF FixedLength, GetFixedLength
<1>7. w \in {1, 2, 4, 8}
  BY WidthIs
<1>8. DecodeArgs(code, start).imm = ReadOperand(code, ops[n], at, w)
  <2> DEFINE value(k) == ReadOperand(code, ops[k], (o + 1) + WidthBefore(ops, prefixes, k),
                                     Width(ops[k], prefixes))
             args == [f \in {"a", "b", "c", "imm"} |->
                        IF {k \in DOMAIN ops : ops[k].field = f} = {} THEN 0
                        ELSE value(CHOOSE k \in {k \in DOMAIN ops : ops[k].field = f} : TRUE)]
  <2>1. DecodeArgs(code, start) = args
    BY DEF DecodeArgs
  <2>2. args.imm = IF read = {} THEN 0 ELSE value(CHOOSE k \in read : TRUE)
    <3> HIDE DEF value, ops
    <3> QED OBVIOUS
  <2>3. (CHOOSE k \in read : TRUE) = n
    BY <1>5
  <2> HIDE DEF args, value, ops
  <2>4. args.imm = value(n)
    BY <1>5, <2>2, <2>3
  <2> QED BY <2>1, <2>4 DEF value
<1> HIDE DEF L, o, op, ops, prefixes, n, read
<1>9. before \in Nat /\ WidthBefore(ops, prefixes, n + 1) = before + w
  <2>1. n \in Nat /\ n \in Nat \ {0}
    BY <1>5
  <2> QED BY <2>1, WidthsAdd
<1> HIDE DEF before, w
<1>10. /\ end = at + w /\ at \in Nat \ {0} /\ end - w = at /\ end - 1 = at + (w - 1)
       /\ end - 1 \in 1 .. L /\ w \in Nat \ {0}
  <2>1. end = start + FixedLength(code, start)
    BY DEF InstEnd
  <2>2. FixedLength(code, start) = (o - start) + 1 + (before + w)
    BY <1>3, <1>6, <1>9
  <2> HIDE DEF end
  <2>3. end = o + 1 + (before + w) /\ end <= L + 1
    BY <1>1, <1>2, <1>3, <1>7, <1>9, <2>1, <2>2
  <2>4. o \in Nat \ {0}
    BY <1>3
  <2> QED BY <1>1, <1>7, <1>9, <2>3, <2>4
<1> HIDE DEF at, end
<1> DEFINE v == ReadLE(code, at, w)
           q == 2^(CodeBits * (w - 1))
           all == 2^(CodeBits * w)
           x == code[end - 1]
<1>11. /\ v \in 0 .. (all - 1) /\ x \in 0 .. (2^CodeBits - 1)
       /\ \E low \in 0 .. (q - 1) : v = x * q + low
  <2>1. Digit(code, at + (w - 1)) = x
    <3>1. at + (w - 1) <= Len(code)
      BY <1>1, <1>10 DEF L
    <3> QED BY <1>10, <3>1 DEF Digit
  <2>2. at \in Nat \ {0} /\ w \in Nat \ {0}
    BY <1>10
  <2> DEFINE y == Digit(code, at + (w - 1))
  <2>3. /\ v \in 0 .. (all - 1) /\ y \in 0 .. (2^CodeBits - 1)
        /\ \E low \in 0 .. (q - 1) : v = y * q + low
    BY <2>2, ReadIsDigits
  <2>4. y = x
    BY <2>1
  <2> HIDE DEF v, q, all, x, y
  <2> QED BY <2>3, <2>4
<1>12. PICK low \in 0 .. (q - 1) : v = x * q + low
  BY <1>11
<1>13. SignedAs(v, CodeBits * w) = v - (IF x >= 2^(CodeBits - 1) THEN all ELSE 0)
  BY <1>10, <1>11, <1>12, SignOfLast
<1>14. DecodeArgs(code, start).imm = SignedAs(v, CodeBits * w)
  BY <1>5, <1>8 DEF ReadOperand
<1>15. OffsetWidth(code, start) = w
  BY DEF OffsetWidth, OpOf, LastOf, w, ops, op, o, n, prefixes
<1>16. OffsetEndingAt(code, w, end) = v - (IF x >= 2^(CodeBits - 1) THEN all ELSE 0)
  BY <1>10 DEF OffsetEndingAt
<1> QED BY <1>13, <1>14, <1>15, <1>16 DEF end

(* The walk through the code, an instruction at a time.                    *)
Walked(code, w) ==
    IF CanFetch(code, w[Len(w)]) THEN Append(w, w[Len(w)] + FixedLength(code, w[Len(w)])) ELSE w

Fetched(code, w) ==
    /\ w \in Seq(Nat \ {0}) /\ Len(w) # 0
    /\ \A k \in 1 .. (Len(w) - 1) : CanFetch(code, w[k])

LEMMA WalkLoop ==
    ASSUME NEW code, Len(code) \in Nat
    PROVE  \E g : /\ InstStart(code) = SubSeq(g[Len(code)], 1, Len(g[Len(code)]) - 1)
                  /\ g[0] = <<1>>
                  /\ \A n \in 1 .. Len(code) : g[n] = Walked(code, g[n - 1])
<1> DEFINE L == Len(code)
           Upto(m, g) == g = [n \in 0 .. m |-> IF n = 0 THEN <<1>> ELSE Walked(code, g[n - 1])]
           S == {m \in Nat : \E g : Upto(m, g)}
           h0 == CHOOSE h : Upto(L, h)
<1>1. InstStart(code) = SubSeq(h0[L], 1, Len(h0[L]) - 1)
  BY DEF InstStart, Walked
<1>2. 0 \in S
  <2>1. Upto(0, [n \in 0 .. 0 |-> <<1>>])
    OBVIOUS
  <2> QED BY <2>1
<1>3. ASSUME NEW m \in Nat, m \in S
      PROVE  m + 1 \in S
  <2>1. PICK h : Upto(m, h)
    BY <1>3
  <2> DEFINE g == [n \in 0 .. (m + 1) |-> IF n = 0 THEN <<1>> ELSE Walked(code, h[n - 1])]
  <2>2. \A n \in 0 .. m : n \in 0 .. (m + 1) /\ g[n] = h[n]
    BY <2>1
  <2>3. \A n \in 0 .. (m + 1) : n # 0 => n - 1 \in 0 .. m
    OBVIOUS
  <2>4. g = [n \in 0 .. (m + 1) |-> IF n = 0 THEN <<1>> ELSE Walked(code, g[n - 1])]
    <3>1. \A n \in 0 .. (m + 1) : n # 0 => g[n - 1] = h[n - 1]
      BY <2>2, <2>3
    <3> DEFINE G == g
    <3>2. \A n \in 0 .. (m + 1) : n # 0 => G[n - 1] = h[n - 1]
      BY <3>1
    <3> HIDE DEF G
    <3>3. g = [n \in 0 .. (m + 1) |-> IF n = 0 THEN <<1>> ELSE Walked(code, G[n - 1])]
      BY <3>2
    <3> QED BY <3>3 DEF G
  <2> HIDE DEF g
  <2>5. Upto(m + 1, g) /\ m + 1 \in Nat
    BY <2>4
  <2> HIDE DEF Upto
  <2> QED BY <2>5
<1>4. Nat \subseteq S
  <2> HIDE DEF S
  <2> QED BY <1>2, <1>3, Induction
<1>5. Upto(L, h0)
  <2> HIDE DEF Upto
  <2> QED BY <1>4
<1> DEFINE g == h0
<1> HIDE DEF h0
<1>6. g[0] = <<1>>
  BY <1>5
<1>7. ASSUME NEW n \in 1 .. L
      PROVE  g[n] = Walked(code, g[n - 1])
  <2>1. n \in 0 .. L /\ n # 0
    OBVIOUS
  <2> QED BY <1>5, <2>1
<1> HIDE DEF g
<1> QED BY <1>1, <1>6, <1>7 DEF g

LEMMA WalkGoesOn ==
    ASSUME NEW code, NEW w, Fetched(code, w)
    PROVE  Fetched(code, Walked(code, w))
<1> DEFINE n == Len(w)
           x == w[n] + FixedLength(code, w[n])
<1>1. w \in Seq(Nat \ {0}) /\ n \in Nat \ {0} /\ w[n] \in Nat \ {0}
  BY DEF Fetched
<1>2. CASE ~CanFetch(code, w[n])
  BY <1>2 DEF Walked
<1>3. CASE CanFetch(code, w[n])
  <2>1. x \in Nat \ {0}
    <3>1. FixedLength(code, w[n]) \in Nat
      BY <1>3 DEF CanFetch
    <3> QED BY <1>1, <3>1
  <2>2. Walked(code, w) = Append(w, x)
    BY <1>3 DEF Walked
  <2> HIDE DEF x
  <2>3. /\ Append(w, x) \in Seq(Nat \ {0}) /\ Len(Append(w, x)) = n + 1
        /\ \A k \in 1 .. n : Append(w, x)[k] = w[k]
    BY <1>1, <2>1
  <2>4. \A k \in 1 .. n : CanFetch(code, w[k])
    <3>1. \A k \in 1 .. n : k = n \/ k \in 1 .. (n - 1)
      BY <1>1
    <3>2. \A k \in 1 .. (n - 1) : CanFetch(code, w[k])
      BY DEF Fetched
    <3> HIDE DEF n
    <3> QED BY <1>3, <3>1, <3>2
  <2> DEFINE u == Append(w, x)
  <2>5. Len(u) # 0 /\ Len(u) - 1 = n
    BY <1>1, <2>3
  <2>6. \A k \in 1 .. n : CanFetch(code, u[k])
    BY <2>3, <2>4
  <2> HIDE DEF u
  <2>7. Fetched(code, u)
    BY <2>3, <2>5, <2>6 DEF Fetched, u
  <2> QED BY <2>2, <2>7 DEF u
<1> QED BY <1>2, <1>3

LEMMA StartsFetch ==
    ASSUME NEW code, Len(code) \in Nat
    PROVE  /\ Len(InstStart(code)) \in Nat /\ DOMAIN InstStart(code) = 1 .. Len(InstStart(code))
           /\ \A k \in DOMAIN InstStart(code) :
                 InstStart(code)[k] \in Nat \ {0} /\ CanFetch(code, InstStart(code)[k])
<1> DEFINE L == Len(code)
<1>1. PICK g : /\ InstStart(code) = SubSeq(g[L], 1, Len(g[L]) - 1)
               /\ g[0] = <<1>>
               /\ \A n \in 1 .. L : g[n] = Walked(code, g[n - 1])
  BY WalkLoop
<1> DEFINE S == {n \in Nat : n <= L => Fetched(code, g[n])}
<1>2. 0 \in S
  <2> DEFINE one == <<1>>
  <2>1. one \in Seq(Nat \ {0}) /\ Len(one) = 1
    OBVIOUS
  <2>2. g[0] = one
    BY <1>1
  <2> HIDE DEF one
  <2>3. Fetched(code, one)
    BY <2>1 DEF Fetched
  <2> QED BY <2>2, <2>3
<1>3. ASSUME NEW n \in Nat, n \in S PROVE n + 1 \in S
  <2> SUFFICES ASSUME n + 1 <= L PROVE Fetched(code, g[n + 1])
    OBVIOUS
  <2>1. n + 1 \in 1 .. L /\ (n + 1) - 1 = n /\ n <= L
    OBVIOUS
  <2>2. g[n + 1] = Walked(code, g[n])
    <3>1. g[n + 1] = Walked(code, g[(n + 1) - 1])
      BY <1>1, <2>1
    <3> QED BY <2>1, <3>1
  <2>3. Fetched(code, g[n])
    BY <1>3, <2>1
  <2> QED BY <2>2, <2>3, WalkGoesOn
<1>4. Fetched(code, g[L])
  <2> HIDE DEF S
  <2>1. Nat \subseteq S
    BY <1>2, <1>3, Induction
  <2>2. L \in S /\ L <= L
    BY <2>1
  <2> QED BY <2>2 DEF S
<1> DEFINE w == g[L]
           m == Len(w) - 1
           s == SubSeq(w, 1, m)
<1>5. w \in Seq(Nat \ {0}) /\ m \in Nat /\ m <= Len(w) /\ \A k \in 1 .. m : CanFetch(code, w[k])
  BY <1>4 DEF Fetched
<1> HIDE DEF w, m, L
<1>6. /\ Len(s) \in Nat /\ DOMAIN s = 1 .. m /\ Len(s) = m
      /\ \A k \in 1 .. m : s[k] = w[k] /\ w[k] \in Nat \ {0}
  BY <1>5
<1> QED BY <1>1, <1>5, <1>6 DEF w, m, L

(* A branch of a decoded function, and the start of the instruction it     *)
(* leads to.                                                               *)
LEMMA TargetFound ==
    ASSUME NEW code \in Seq(0 .. (2^CodeBits - 1)), ~RepeatsPrefix(code),
           NEW i \in DOMAIN Linked(code).instructions,
           Linked(code).instructions[i].op \in Jumps
    PROVE  BranchLands(code, InstStart(code), Linked(code), i)
<1> DEFINE starts == InstStart(code)
           linked == Linked(code)
           L == Len(starts)
           targets == TargetsOf(code, starts, i)
           imm == CHOOSE n \in -L .. L : i + n \in targets
<1>1. linked.instructions = DecodeInstructions(code) /\ linked.entry = "AutoYieldingBytecodeInterpreter"
  BY DEF Linked, LinkFunction, FunctionKind, EntryPoint
<1>2. Len(code) \in Nat
  OBVIOUS
<1>3. /\ L \in Nat /\ DOMAIN starts = 1 .. L
      /\ \A k \in DOMAIN starts : starts[k] \in Nat \ {0} /\ CanFetch(code, starts[k])
  BY <1>2, StartsFetch
<1>4. DecodeInstructions(code) = IF Rejected(code, starts) THEN <<>>
                                 ELSE [k \in DOMAIN starts |-> Instruction(code, starts, k)]
  BY DEF DecodeInstructions
<1> HIDE DEF linked, starts
<1>5. ~Rejected(code, starts)
  <2>1. i \in DOMAIN DecodeInstructions(code)
    BY <1>1 DEF linked
  <2> QED BY <1>4, <2>1
<1>6. /\ i \in DOMAIN starts /\ DOMAIN linked.instructions = DOMAIN starts
      /\ linked.instructions[i] = Instruction(code, starts, i)
  <2>1. i \in DOMAIN linked.instructions
    BY DEF linked
  <2> QED BY <1>1, <1>4, <1>5, <2>1
<1>7. OpOf(code, starts[i]) \in Jumps
  <2>1. Instruction(code, starts, i).op \in Jumps
    BY <1>6 DEF linked
  <2> QED BY <2>1 DEF Instruction
<1>8. targets # {} /\ targets \subseteq DOMAIN starts
  BY <1>5, <1>6, <1>7 DEF Rejected, TargetsOf
<1>9. linked.instructions[i].args.imm = imm
  <2>1. Instruction(code, starts, i).args = [DecodeArgs(code, starts[i]) EXCEPT !.imm = imm]
    BY <1>7 DEF Instruction, Patched
  <2>2. DOMAIN DecodeArgs(code, starts[i]) = {"a", "b", "c", "imm"}
    BY DEF DecodeArgs
  <2> HIDE DEF imm
  <2>3. Instruction(code, starts, i).args.imm = imm
    BY <2>1, <2>2
  <2> QED BY <1>6, <2>3
<1>10. imm \in -L .. L /\ i + imm \in targets
  <2>1. PICK t \in targets : TRUE
    BY <1>8
  <2>2. t \in 1 .. L /\ i \in 1 .. L
    BY <1>3, <1>6, <1>8
  <2>3. t - i \in -L .. L /\ i + (t - i) = t
    BY <1>3, <2>2
  <2> HIDE DEF targets
  <2>4. \E n \in -L .. L : i + n \in targets
    BY <2>3
  <2> QED BY <2>4
<1> HIDE DEF imm
<1>11. Landing(linked.entry, i, imm) = i + imm
  BY <1>1 DEF Landing
<1>12. starts[i + imm] = InstEnd(code, starts[i]) + DecodeArgs(code, starts[i]).imm
  BY <1>10 DEF TargetsOf
<1>13. starts[i] \in Nat \ {0} /\ CanFetch(code, starts[i])
  BY <1>3, <1>6
<1>14. DecodeArgs(code, starts[i]).imm =
          OffsetEndingAt(code, OffsetWidth(code, starts[i]), InstEnd(code, starts[i]))
  BY <1>7, <1>13, OffsetRead
<1>15. i + imm \in DOMAIN linked.instructions
  BY <1>6, <1>8, <1>10
<1>16. BranchLands(code, starts, linked, i)
  BY <1>9, <1>11, <1>12, <1>14, <1>15 DEF BranchLands
<1> QED BY <1>16 DEF starts, linked

(* Whatever code a function has, of any length: if it is not rejected, a   *)
(* branch leads to the instruction that begins where it says.              *)
THEOREM BranchesFindTargets == AllSpec => []BranchesLand
<1>1. ProblemInv /\ UNCHANGED problem => ProblemInv'
  BY DEF ProblemInv
<1>2. ProblemInv => BranchesLand
  <2> SUFFICES ASSUME ProblemInv, problem.kind = "code", ~RepeatsPrefix(problem.code)
               PROVE  BranchesLand
    BY DEF BranchesLand
  <2> DEFINE code == problem.code
  <2>1. code \in Seq(0 .. (2^CodeBits - 1))
    BY CodesAssumption DEF ProblemInv
  <2>2. \A i \in DOMAIN Linked(code).instructions :
           Linked(code).instructions[i].op \in Jumps =>
               BranchLands(code, InstStart(code), Linked(code), i)
    BY <2>1, TargetFound
  <2> QED BY <2>2 DEF BranchesLand
<1> QED BY <1>1, <1>2, ProblemStarts, ProblemStays, PTL DEF AllSpec

-----------------------------------------------------------------------------
(* What instructions compute.                                              *)

(* A word is two halves.                                                   *)
LEMMA WidthFacts ==
    /\ LongBits \in Nat /\ LongBits - 1 \in Nat /\ LongBits >= 8
    /\ 2^LongBits \in Nat \ {0} /\ 2^(LongBits - 1) \in Nat \ {0}
    /\ 2^LongBits = 2 * 2^(LongBits - 1)
    /\ 2^(LongBits - 1) >= 128
<1>1. LongBits \in Nat /\ LongBits - 1 \in Nat /\ LongBits >= 8 /\ LongBits = (LongBits - 1) + 1
  BY ByteBitsAssumption DEF LongBits
<1>2. PICK r \in Nat : LongBits - 1 = 7 + r
  <2>1. LongBits - 8 \in Nat /\ LongBits - 1 = 7 + (LongBits - 8)
    BY <1>1
  <2> QED BY <2>1
<1> HIDE DEF LongBits
<1>3. 2^(LongBits - 1) = 2^7 * 2^r /\ 2^r \in Nat \ {0}
  BY <1>2, PowersAdd, PowersDouble
<1>4. 2^7 = 128
  <2>1. 2^1 = 2 /\ 2^2 = 4 /\ 2^3 = 8 /\ 2^4 = 16 /\ 2^5 = 32 /\ 2^6 = 64 /\ 2^7 = 128
    <3>1. 2^(0 + 1) = 2
      BY NoPower, PowersDouble
    <3>2. 2^(1 + 1) = 4
      BY <3>1, PowersDouble
    <3>3. 2^(2 + 1) = 8
      BY <3>2, PowersDouble
    <3>4. 2^(3 + 1) = 16
      BY <3>3, PowersDouble
    <3>5. 2^(4 + 1) = 32
      BY <3>4, PowersDouble
    <3>6. 2^(5 + 1) = 64
      BY <3>5, PowersDouble
    <3>7. 2^(6 + 1) = 128
      BY <3>6, PowersDouble
    <3> QED BY <3>1, <3>2, <3>3, <3>4, <3>5, <3>6, <3>7
  <2> QED BY <2>1
<1>5. 2^(LongBits - 1) >= 128
  <2> DEFINE x == 2^r
  <2>1. x \in Nat \ {0} /\ 2^(LongBits - 1) = 128 * x
    BY <1>3, <1>4
  <2> HIDE DEF x
  <2> QED BY <2>1
<1> QED BY <1>1, <1>5, PowersDouble

(* Numbers in range are what they are as words.                            *)
LEMMA SignedFacts ==
    /\ \A w \in Word : /\ Signed(w) = IF w < 2^(LongBits - 1) THEN w ELSE w - 2^LongBits
                       /\ Signed(w) \in -(2^(LongBits - 1)) .. (2^(LongBits - 1) - 1)
    /\ \A n \in -(2^(LongBits - 1)) .. (2^(LongBits - 1) - 1) :
           Wrap(n) \in Word /\ Signed(Wrap(n)) = n
    /\ \A n \in Word : Wrap(n) = n
<1> DEFINE h == 2^(LongBits - 1)
           a == 2^LongBits
<1>1. h \in Nat \ {0} /\ a = 2 * h /\ a \in Nat \ {0}
  BY WidthFacts
<1>2. \A w \in 0 .. (a - 1) : w % a = w
  BY <1>1
<1>3. \A n \in -h .. (h - 1) : n % a = IF n < 0 THEN n + a ELSE n
  BY <1>1
<1>4. /\ Word = 0 .. (a - 1) /\ \A n : Wrap(n) = n % a
      /\ \A w : Signed(w) = IF w % a < h THEN w % a ELSE (w % a) - a
  BY DEF Word, Wrap, Signed, SignedAs, Low
<1> HIDE DEF h, a
<1>5. ASSUME NEW w \in Word
      PROVE  Signed(w) = (IF w < h THEN w ELSE w - a) /\ Signed(w) \in -h .. (h - 1)
  <2>1. w \in 0 .. (a - 1) /\ w % a = w
    BY <1>2, <1>4
  <2>2. Signed(w) = (IF w < h THEN w ELSE w - a)
    BY <1>4, <2>1
  <2> QED BY <1>1, <2>1, <2>2
<1>6. ASSUME NEW n \in -h .. (h - 1) PROVE Wrap(n) \in Word /\ Signed(Wrap(n)) = n
  <2>1. Wrap(n) = (IF n < 0 THEN n + a ELSE n)
    BY <1>3, <1>4
  <2>2. Wrap(n) \in Word
    BY <1>1, <1>4, <2>1
  <2> QED BY <1>1, <1>5, <2>1, <2>2
<1> QED BY <1>2, <1>4, <1>5, <1>6 DEF h, a

(* The sum that a set of bits is.                                          *)
LEMMA BitsAreTotal ==
    ASSUME NEW S, S \subseteq Position
    PROVE  Bits(S) = Total([i \in Position |-> 2^i], S)
<1> DEFINE f == [i \in Position |-> 2^i]
           Sized(g) == [s \in SUBSET S |->
                          IF s = {} THEN 0
                          ELSE 2^(CHOOSE x \in s : TRUE) + g[s \ {CHOOSE x \in s : TRUE}]]
<1>1. Bits(S) = (CHOOSE g : g = Sized(g))[S]
  BY DEF Bits, MapThenSumSet, MapThenFoldSet
<1>2. ASSUME NEW g PROVE Sized(g) = Summing(f, S, g)
  <2>1. ASSUME NEW s \in SUBSET S, s # {}
        PROVE  2^(CHOOSE x \in s : TRUE) = f[CHOOSE x \in s : TRUE]
    <3>1. (CHOOSE x \in s : TRUE) \in Position
      BY <2>1
    <3> HIDE DEF Position
    <3> QED BY <3>1
  <2> HIDE DEF f
  <2> QED BY <2>1 DEF Summing
<1> HIDE DEF Sized, f
<1>3. \A g : g = Sized(g) <=> g = Summing(f, S, g)
  BY <1>2
<1>4. Bits(S) = Total(f, S)
  BY <1>1, <1>3 DEF Total
<1> QED BY <1>4 DEF f

LEMMA BitAdded ==
    ASSUME NEW S, S \subseteq Position, NEW i \in Position, i \notin S
    PROVE  Bits(S \union {i}) = 2^i + Bits(S)
<1> DEFINE f == [j \in Position |-> 2^j]
<1>1. S \union {i} \subseteq Position /\ IsFiniteSet(S)
  <2>1. IsFiniteSet(Position)
    BY WidthFacts, FS_Interval DEF Position
  <2> QED BY <2>1, FS_Subset
<1>2. \A j \in S \union {i} : f[j] \in Int
  <2>1. \A j \in Position : f[j] \in Int
    <3> TAKE j \in Position
    <3>1. j \in Nat
      BY WidthFacts DEF Position
    <3> QED BY <3>1, PowersDouble
  <2> HIDE DEF f
  <2> QED BY <1>1, <2>1
<1>3. f[i] = 2^i
  OBVIOUS
<1> HIDE DEF f
<1>4. Total(f, S \union {i}) = f[i] + Total(f, S)
  BY <1>1, <1>2, SumWith
<1> QED BY <1>1, <1>3, <1>4, BitsAreTotal DEF f

(* The bits of a word make it up.                                          *)
LEMMA BitsMakeUp ==
    ASSUME NEW v \in Word
    PROVE  Bits({i \in Position : Bit(v, i) = 1}) = v
<1> DEFINE T(m) == {i \in 0 .. (m - 1) : Bit(v, i) = 1}
           N == {m \in Nat : m <= LongBits => Bits(T(m)) = v % 2^m}
<1>0. v \in Nat
  BY WidthFacts DEF Word
<1>1. 0 \in N
  <2>1. T(0) = {} /\ {} \subseteq Position
    OBVIOUS
  <2>2. Bits({}) = 0
    BY BitsAreTotal, SumOfNone
  <2>3. v % 1 = 0
    BY <1>0
  <2> QED BY <2>1, <2>2, <2>3, NoPower
<1>2. ASSUME NEW m \in Nat, m \in N PROVE m + 1 \in N
  <2> SUFFICES ASSUME m + 1 <= LongBits PROVE Bits(T(m + 1)) = v % 2^(m + 1)
    OBVIOUS
  <2>1. m \in Position /\ T(m) \subseteq Position /\ m \notin T(m)
    BY WidthFacts DEF Position
  <2>2. T(m + 1) = IF Bit(v, m) = 1 THEN T(m) \union {m} ELSE T(m)
    OBVIOUS
  <2>3. Bits(T(m)) = v % 2^m
    BY <1>2, WidthFacts
  <2>4. 2^m \in Nat \ {0} /\ 2^(m + 1) = 2 * 2^m
    BY PowersDouble
  <2>5. Bit(v, m) = (v \div 2^m) % 2
    BY DEF Bit
  <2> DEFINE q == 2^m
             b == (v \div q) % 2
  <2>6. b \in 0 .. 1 /\ v % (q * 2) = b * q + (v % q)
    <3>1. 2 \in Nat \ {0} /\ q \in Nat \ {0} /\ 0 .. (2 - 1) = 0 .. 1
      BY <2>4
    <3> HIDE DEF q
    <3> QED BY <1>0, <3>1, NextDigit
  <2>7. Bits(T(m + 1)) = IF b = 1 THEN q + Bits(T(m)) ELSE Bits(T(m))
    BY <2>1, <2>2, <2>5, BitAdded
  <2>8. v % q \in Int /\ q \in Nat
    BY <1>0, <2>4
  <2>9. 2^(m + 1) = q * 2
    BY <2>4
  <2> HIDE DEF T, b, q
  <2>10. CASE b = 1
    <3>1. v % (q * 2) = q + (v % q)
      BY <2>6, <2>8, <2>10
    <3> QED BY <2>3, <2>7, <2>9, <2>10, <3>1 DEF q
  <2>11. CASE b = 0
    <3>1. v % (q * 2) = v % q
      BY <2>6, <2>8, <2>11
    <3> QED BY <2>3, <2>7, <2>9, <2>11, <3>1 DEF q
  <2> QED BY <2>6, <2>10, <2>11
<1> HIDE DEF N
<1>3. Nat \subseteq N
  BY <1>1, <1>2, Induction
<1>4. Bits(T(LongBits)) = v % 2^LongBits
  <2>1. LongBits \in N /\ LongBits <= LongBits
    BY <1>3, WidthFacts
  <2> QED BY <2>1 DEF N
<1>5. v % 2^LongBits = v
  BY SignedFacts DEF Wrap
<1> QED BY <1>4, <1>5 DEF Position

(* A right shift of a number rounds down.                                  *)
LEMMA ShiftsAreExact ==
    ASSUME NEW w \in Word
    PROVE  ShiftsExactly(w)
<1> DEFINE h == 2^(LongBits - 1)
           a == 2^LongBits
<1>0. h \in Nat \ {0} /\ a = 2 * h /\ Word = 0 .. (a - 1) /\ w \in Nat /\ w < a
  BY WidthFacts DEF Word
<1> SUFFICES ASSUME NEW shift \in 0 .. (LongBits - 1), shift = 1 \/ Signed(w) >= 0
             PROVE  Signed(ArithmeticShiftRight(w, shift)) = Signed(w) \div 2^shift
  <2>1. Signed(w) \in Int
    BY <1>0, SignedFacts
  <2> QED BY <2>1 DEF ShiftsExactly, SignMisplaced
<1> DEFINE s == w \div 2^shift
           top == Bit(w, LongBits - 1)
           down == IF shift = 0 THEN LongBits - 1 ELSE shift - 1
           e == (top * h) \div 2^down
<1>1. shift % LongBits = shift /\ shift \in Nat /\ down \in Nat /\ 2^down \in Nat \ {0} /\ 2^shift \in Nat \ {0}
  <2>1. shift % LongBits = shift /\ shift \in Nat /\ down \in Nat
    BY WidthFacts
  <2> QED BY <2>1, PowersDouble
<1>2. ArithmeticShiftRight(w, shift) = Bits({i \in Position : Bit(s, i) = 1 \/ Bit(e, i) = 1})
  BY <1>1 DEF ArithmeticShiftRight
<1>3. Signed(w) = (IF w < h THEN w ELSE w - a) /\ \A v \in Word : v < h => Signed(v) = v
  BY SignedFacts
<1>4. top = (w \div h) % 2
  BY DEF Bit
<1>5. s \in Nat /\ s <= w
  <2> DEFINE q == 2^shift
  <2>1. q \in Nat \ {0}
    BY <1>1
  <2> HIDE DEF q
  <2>2. w \div q \in Nat /\ w = q * (w \div q) + (w % q) /\ w % q \in Nat
    BY <1>0, <2>1
  <2>3. \A x \in Nat, y \in Nat \ {0} : x <= y * x
    OBVIOUS
  <2>4. w \div q <= w
    <3> DEFINE x == w \div q
    <3>1. x \in Nat /\ w = q * x + (w % q)
      BY <2>2
    <3> HIDE DEF x
    <3>2. q * x \in Nat /\ x <= q * x
      BY <2>1, <2>3, <3>1
    <3>3. x <= w
      BY <1>0, <2>2, <3>1, <3>2
    <3> QED BY <3>3 DEF x
  <2> QED BY <2>2, <2>4 DEF q
<1> HIDE DEF s, down
<1>6. CASE w < h
  <2>1. top = 0
    <3>1. w \div h = 0
      <4> HIDE DEF h, a
      <4>1. w = 0 * h + w
        BY <1>0
      <4> QED BY <1>0, <1>6, <4>1, QuotientOf
    <3> QED BY <1>4, <3>1
  <2>2. e = 0
    <3>1. 0 * h = 0
      BY <1>0
    <3> HIDE DEF h
    <3>2. 0 \div 2^down = 0
      BY <1>1
    <3> QED BY <2>1, <3>1, <3>2 DEF e
  <2>3. \A i \in Position : Bit(e, i) = 0
    <3> TAKE i \in Position
    <3>1. i \in Nat
      BY WidthFacts DEF Position
    <3>2. 2^i \in Nat \ {0}
      BY <3>1, PowersDouble
    <3>3. 0 \div 2^i = 0
      BY <3>2
    <3> QED BY <2>2, <3>3 DEF Bit
  <2> HIDE DEF e, h, a
  <2>4. {i \in Position : Bit(s, i) = 1 \/ Bit(e, i) = 1} = {i \in Position : Bit(s, i) = 1}
    BY <2>3
  <2>5. s \in Word /\ s < h
    BY <1>0, <1>5, <1>6
  <2>6. ArithmeticShiftRight(w, shift) = s
    BY <1>2, <2>4, <2>5, BitsMakeUp
  <2> QED BY <1>3, <1>6, <2>5, <2>6 DEF s
<1>7. CASE ~(w < h)
  <2>1. shift = 1
    <3>1. Signed(w) < 0
      BY <1>0, <1>3, <1>7
    <3>2. Signed(w) \in Int
      BY <1>0, <1>3
    <3> QED BY <3>1, <3>2
  <2>2. 2^shift = 2 /\ 2^down = 1
    <3>1. 2^(0 + 1) = 2
      BY NoPower, PowersDouble
    <3> QED BY <2>1, <3>1, NoPower DEF down
  <2>3. top = 1
    <3> HIDE DEF h, a
    <3>1. w = 1 * h + (w - h) /\ w - h \in Nat /\ w - h < h
      BY <1>0, <1>7
    <3>2. w \div h = 1
      BY <1>0, <3>1, QuotientOf
    <3> QED BY <1>4, <3>2
  <2>4. e = h
    <3> HIDE DEF h
    <3>1. 1 * h = h /\ h \div 1 = h
      BY <1>0
    <3> QED BY <2>2, <2>3, <3>1 DEF e
  <2>5. s \in Word /\ s < h
    <3>1. s = w \div 2
      BY <2>2 DEF s
    <3> HIDE DEF h, a
    <3> QED BY <1>0, <3>1
  <2>6. \A i \in Position : Bit(e, i) = 1 <=> i = LongBits - 1
    <3> TAKE i \in Position
    <3>1. i \in Nat /\ i <= LongBits - 1 /\ LongBits - 1 - i \in Nat
      BY WidthFacts DEF Position
    <3>2. Bit(e, i) = (h \div 2^i) % 2
      BY <2>4 DEF Bit
    <3>3. h = 2^(LongBits - 1 - i) * 2^i
      <4>1. (LongBits - 1 - i) + i = LongBits - 1
        BY <3>1, WidthFacts
      <4> QED BY <3>1, <4>1, PowersAdd
    <3>4. h \div 2^i = 2^(LongBits - 1 - i)
      <4> DEFINE p == 2^(LongBits - 1 - i)
                 q == 2^i
      <4>1. p \in Nat /\ q \in Nat \ {0} /\ h = p * q
        BY <3>1, <3>3, PowersDouble
      <4> HIDE DEF p, q, h
      <4>2. h = p * q + 0
        BY <4>1
      <4>3. h \div q = p
        BY <4>1, <4>2, QuotientOf
      <4> QED BY <4>3 DEF p, q
    <3>5. CASE i = LongBits - 1
      <4>1. LongBits - 1 - i = 0
        BY <3>1, <3>5, WidthFacts
      <4>2. Bit(e, i) = 1 % 2
        BY <3>2, <3>4, <4>1, NoPower
      <4> HIDE DEF e
      <4> QED BY <3>5, <4>2
    <3>6. CASE i # LongBits - 1
      <4>1. PICK j \in Nat : LongBits - 1 - i = j + 1
        <5>1. LongBits - 1 - i - 1 \in Nat /\ LongBits - 1 - i = (LongBits - 1 - i - 1) + 1
          BY <3>1, <3>6, WidthFacts
        <5> QED BY <5>1
      <4>2. 2^(j + 1) = 2 * 2^j /\ 2^j \in Nat
        BY PowersDouble
      <4>3. Bit(e, i) = (2 * 2^j) % 2
        BY <3>2, <3>4, <4>1, <4>2
      <4>4. \A x \in Nat : (2 * x) % 2 = 0
        OBVIOUS
      <4>5. Bit(e, i) = 0
        BY <4>2, <4>3, <4>4
      <4> QED BY <3>6, <4>5
    <3> QED BY <3>5, <3>6
  <2> DEFINE A == {i \in Position : Bit(s, i) = 1}
  <2>7. LongBits - 1 \in Position
    BY WidthFacts DEF Position
  <2>8. LongBits - 1 \notin A
    <3>1. Bit(s, LongBits - 1) = (s \div h) % 2
      BY DEF Bit
    <3> HIDE DEF h, a
    <3>2. s = 0 * h + s /\ h \in Nat \ {0} /\ s \in Nat /\ s < h
      BY <1>0, <1>5, <2>5
    <3>3. s \div h = 0
      BY <3>2, QuotientOf
    <3>4. Bit(s, LongBits - 1) = 0
      BY <3>1, <3>3
    <3> QED BY <3>4
  <2>9. {i \in Position : Bit(s, i) = 1 \/ Bit(e, i) = 1} = A \union {LongBits - 1}
    <3> HIDE DEF e
    <3> QED BY <2>6, <2>7
  <2>10. Bits(A) = s /\ A \subseteq Position
    BY <2>5, BitsMakeUp
  <2>11. Bits(A \union {LongBits - 1}) = h + s
    <3> HIDE DEF A
    <3> QED BY <2>7, <2>8, <2>10, BitAdded
  <2>12. ArithmeticShiftRight(w, shift) = h + s
    BY <1>2, <2>9, <2>11
  <2>13. h + s \in Word /\ ~(h + s < h)
    <3> HIDE DEF h, a
    <3> QED BY <1>0, <1>5, <2>5
  <2>14. Signed(h + s) = (h + s) - a
    <3>1. \A v \in Word : ~(v < h) => Signed(v) = v - a
      BY SignedFacts
    <3> DEFINE z == h + s
    <3>2. z \in Word /\ ~(z < h)
      BY <2>13
    <3> HIDE DEF h, a, z
    <3>3. Signed(z) = z - a
      BY <3>1, <3>2
    <3> QED BY <3>3 DEF z
  <2>15. s = w \div 2
    BY <2>2 DEF s
  <2>16. (w - a) \div 2 = (w \div 2) - h
    <3> HIDE DEF h, a
    <3> QED BY <1>0
  <2>17. Signed(ArithmeticShiftRight(w, shift)) = (h + s) - a
    BY <2>12, <2>14
  <2>18. Signed(w) \div 2^shift = s - h
    BY <1>3, <1>7, <2>2, <2>15, <2>16
  <2> HIDE DEF h, a
  <2> QED BY <1>0, <1>5, <2>17, <2>18
<1> QED BY <1>6, <1>7

(* Numbers cut to some bits, of which a word has at least as many.         *)
LEMMA CutFacts ==
    ASSUME NEW bits \in Nat \ {0}, bits <= LongBits, NEW w \in Word, NEW old \in Word
    PROVE  /\ Low(WithLow(old, w, bits), bits) = w % 2^bits
           /\ Signed(Wrap(SignedAs(WithLow(old, w, bits), bits)))
                 \in -(2^(bits - 1)) .. (2^(bits - 1) - 1)
           /\ (Signed(Wrap(SignedAs(WithLow(old, w, bits), bits))) - Signed(w)) % 2^bits = 0
<1> DEFINE p == 2^bits
           q == 2^(bits - 1)
           x == WithLow(old, w, bits)
           l == w % p
           n == SignedAs(x, bits)
<1>1. p \in Nat \ {0} /\ q \in Nat \ {0} /\ p = 2 * q
  <2>1. bits - 1 \in Nat /\ (bits - 1) + 1 = bits
    OBVIOUS
  <2> QED BY <2>1, PowersDouble
<1>2. PICK r \in Nat \ {0} : 2^(LongBits - 1) = r * q /\ 2^LongBits = r * p
  <2>1. LongBits - bits \in Nat /\ LongBits - 1 = (LongBits - bits) + (bits - 1)
        /\ LongBits = (LongBits - bits) + bits /\ bits - 1 \in Nat
    BY WidthFacts
  <2>2. /\ 2^((LongBits - bits) + (bits - 1)) = 2^(LongBits - bits) * 2^(bits - 1)
        /\ 2^((LongBits - bits) + bits) = 2^(LongBits - bits) * 2^bits
        /\ 2^(LongBits - bits) \in Nat \ {0}
    BY <2>1, PowersAdd, PowersDouble
  <2> QED BY <2>1, <2>2
<1>3. w \in Nat /\ old \in Nat
  BY WidthFacts DEF Word
<1>4. x = (old - (old % p)) + l
  BY DEF WithLow, Low
<1>5. l \in 0 .. (p - 1) /\ \E c \in Int : w = c * p + l
  <2> HIDE DEF p
  <2>1. w \in Int /\ p \in Nat \ {0}
    BY <1>1, <1>3
  <2>2. PICK c \in Int, y \in 0 .. (p - 1) : y = w % p /\ w = c * p + y
    BY <2>1, DivisionOf
  <2>3. l = y
    BY <2>2 DEF l
  <2> HIDE DEF l
  <2> QED BY <2>2, <2>3
<1>6. x % p = l
  <2> HIDE DEF p, l, x
  <2>1. PICK c \in Int, y \in 0 .. (p - 1) : y = old % p /\ old = c * p + y
    BY <1>1, <1>3, DivisionOf
  <2>2. c * p \in Int /\ l \in Int /\ y \in Int
    BY <1>1, <1>5, <2>1
  <2>3. x = c * p + l
    BY <1>4, <2>1, <2>2
  <2>4. l \in Nat /\ l < p
    BY <1>1, <1>5
  <2>5. (c * p + l) % p = l
    BY <1>1, <2>4, QuotientOf
  <2> QED BY <2>3, <2>5
<1>7. n = IF l < q THEN l ELSE l - p
  <2>1. Low(x, bits) = l
    BY <1>6 DEF Low
  <2> HIDE DEF l, x
  <2> QED BY <2>1 DEF SignedAs
<1>8. q <= 2^(LongBits - 1)
  <2>1. \A y \in Nat, z \in Nat \ {0} : y <= z * y
    OBVIOUS
  <2> QED BY <1>1, <1>2, <2>1
<1> HIDE DEF n, l, x, p, q
<1>9. n \in -q .. (q - 1)
  BY <1>1, <1>5, <1>7
<1>10. n \in -(2^(LongBits - 1)) .. (2^(LongBits - 1) - 1)
  <2> DEFINE h == 2^(LongBits - 1)
  <2>1. h \in Nat
    BY WidthFacts
  <2>2. q <= h
    BY <1>8
  <2> HIDE DEF h
  <2>3. n \in -h .. (h - 1)
    BY <1>1, <1>9, <2>1, <2>2
  <2> QED BY <2>3 DEF h
<1>11. Signed(Wrap(n)) = n
  BY <1>10, SignedFacts
<1>12. (n - Signed(w)) % p = 0
  <2>1. PICK c \in Int : w = c * p + l
    BY <1>5
  <2>2. Signed(w) = w \/ Signed(w) = w - r * p
    BY <1>2, SignedFacts
  <2>3. n = l \/ n = l - p
    BY <1>7
  <2>4. \A k \in Int : (k * p) % p = 0
    <3> TAKE k \in Int
    <3>1. k * p = k * p + 0
      BY <1>1
    <3> QED BY <1>1, <3>1, QuotientOf
  <2>5. \E k \in Int : n - Signed(w) = k * p
    <3>1. /\ l - w = (-c) * p /\ l - p - w = (-c - 1) * p
          /\ l - (w - r * p) = (r - c) * p /\ l - p - (w - r * p) = (r - c - 1) * p
      <4>1. l \in Int /\ c * p \in Int /\ r * p \in Int
        BY <1>1, <1>5
      <4>2. /\ (-c) * p = -(c * p) /\ (-c - 1) * p = -(c * p) - p
            /\ (r - c) * p = r * p - c * p /\ (r - c - 1) * p = r * p - c * p - p
        BY <1>1
      <4> QED BY <1>1, <2>1, <4>1, <4>2
    <3>2. -c \in Int /\ -c - 1 \in Int /\ r - c \in Int /\ r - c - 1 \in Int
      OBVIOUS
    <3> QED BY <2>2, <2>3, <3>1, <3>2
  <2> QED BY <2>4, <2>5
<1>13. Low(x, bits) = l
  BY <1>6 DEF Low, p
<1> QED BY <1>9, <1>11, <1>12, <1>13 DEF n, l, x, p, q

(* What was cut comes back by extension.                                   *)
LEMMA ExtensionsAreExact ==
    ASSUME NEW w \in Word
    PROVE  ExtendsBack(w)
<1> DEFINE B == {ByteBits, ShortBits, IntBits}
<1>1. \A bits \in B : bits \in Nat \ {0} /\ bits <= LongBits
  BY ByteBitsAssumption DEF ShortBits, IntBits, LongBits
<1>2. {0, w, 2^LongBits - 1} \subseteq Word
  BY WidthFacts DEF Word
<1>3. ASSUME NEW bits \in B, NEW old \in Word, NEW x, x = WithLow(old, w, bits)
      PROVE  /\ Low(x, bits) = w % 2^bits
             /\ Signed(Wrap(SignedAs(x, bits))) \in -(2^(bits - 1)) .. (2^(bits - 1) - 1)
             /\ (Signed(Wrap(SignedAs(x, bits))) - Signed(w)) % 2^bits = 0
  <2> HIDE DEF B
  <2>1. bits \in Nat \ {0} /\ bits <= LongBits
    BY <1>1
  <2> QED BY <1>3, <2>1, CutFacts
<1>4. /\ \A old : Truncate("TR8", old, w) = WithLow(old, w, ByteBits)
      /\ \A old : Truncate("TR16", old, w) = WithLow(old, w, ShortBits)
      /\ \A old : Truncate("TR32", old, w) = WithLow(old, w, IntBits)
      /\ \A x : Extend("SEX8", x) = Wrap(SignedAs(x, ByteBits)) /\ Extend("ZEX8", x) = Low(x, ByteBits)
      /\ \A x : Extend("SEX16", x) = Wrap(SignedAs(x, ShortBits)) /\ Extend("ZEX16", x) = Low(x, ShortBits)
      /\ \A x : Extend("SEX32", x) = Wrap(SignedAs(x, IntBits)) /\ Extend("ZEX32", x) = Low(x, IntBits)
  BY DEF Truncate, Extend
<1> DEFINE Back(bits, cut, sign, zero) ==
               \A old \in {0, w, 2^LongBits - 1} :
                  /\ Signed(Extend(sign, Truncate(cut, old, w))) \in -(2^(bits - 1)) .. (2^(bits - 1) - 1)
                  /\ (Signed(Extend(sign, Truncate(cut, old, w))) - Signed(w)) % 2^bits = 0
                  /\ Extend(zero, Truncate(cut, old, w)) = w % 2^bits
<1>5. Back(ByteBits, "TR8", "SEX8", "ZEX8")
  BY <1>2, <1>3, <1>4
<1>6. Back(ShortBits, "TR16", "SEX16", "ZEX16")
  BY <1>2, <1>3, <1>4
<1>7. Back(IntBits, "TR32", "SEX32", "ZEX32")
  BY <1>2, <1>3, <1>4
<1> HIDE DEF Back
<1>8. \A k \in 1 .. 3 : Back(<<ByteBits, ShortBits, IntBits>>[k], <<"TR8", "TR16", "TR32">>[k],
                             <<"SEX8", "SEX16", "SEX32">>[k], <<"ZEX8", "ZEX16", "ZEX32">>[k])
  BY <1>5, <1>6, <1>7
<1> QED BY <1>8 DEF ExtendsBack, Back

(* A larger exponent, a larger power.                                      *)
LEMMA PowersRise ==
    ASSUME NEW m \in Nat, NEW n \in Nat, m <= n
    PROVE  2^m <= 2^n
<1>1. PICK k \in Nat : n = m + k
  <2>1. n - m \in Nat /\ n = m + (n - m)
    OBVIOUS
  <2> QED BY <2>1
<1>2. 2^n = 2^m * 2^k /\ 2^m \in Nat /\ 2^k \in Nat \ {0}
  BY <1>1, PowersAdd, PowersDouble
<1>3. \A x \in Nat, y \in Nat \ {0} : x <= x * y
  OBVIOUS
<1> DEFINE p == 2^m
           q == 2^k
<1>4. p \in Nat /\ q \in Nat \ {0} /\ 2^n = p * q
  BY <1>2
<1> HIDE DEF p, q
<1>5. p <= 2^n
  BY <1>3, <1>4
<1> QED BY <1>5 DEF p

(* The mantissa of a normal number.                                        *)
LEMMA MantissaFacts ==
    ASSUME NEW frac \in 0 .. (LongBits - 1), NEW f \in 0 .. (2^frac - 1)
    PROVE  2^frac + f \in Nat \ {0} /\ 2^frac + f < 2^LongBits
<1>1. frac \in Nat /\ frac + 1 <= LongBits /\ frac + 1 \in Nat
  BY WidthFacts
<1>2. 2^frac \in Nat \ {0} /\ 2^(frac + 1) = 2 * 2^frac
  BY <1>1, PowersDouble
<1>3. 2^(frac + 1) <= 2^LongBits
  BY <1>1, WidthFacts, PowersRise
<1> DEFINE p == 2^frac
           a == 2^LongBits
<1>4. p \in Nat \ {0} /\ 2 * p <= a /\ f \in 0 .. (p - 1) /\ a \in Nat
  BY <1>2, <1>3, WidthFacts
<1> HIDE DEF p, a
<1>5. p + f \in Nat \ {0} /\ p + f < a
  BY <1>4
<1> QED BY <1>5 DEF p, a

(* A number is converted to the nearest integer towards zero.              *)
LEMMA ConversionsAreExact ==
    ASSUME NEW format, format.frac \in 0 .. (LongBits - 1), NEW fp,
           fp.sign \in 0 .. 1, fp.frac \in 0 .. (2^format.frac - 1),
           format.exp \in Nat \ {0}
    PROVE  ConvertsExactly(format, fp)
<1> SUFFICES ASSUME fp.exp \in 1 .. (2^format.exp - 2), KeepsDigits(format, fp), NEW signed \in BOOLEAN
             PROVE  FPToInt(format, fp, signed) = Rounded(format, fp, signed)
  BY DEF ConvertsExactly
<1> DEFINE a     == 2^LongBits
           m     == 2^format.frac + fp.frac
           e     == fp.exp - Bias(format) - format.frac
           min   == MinInt(signed)
           max   == MaxInt(signed)
           abs   == IF e >= 0 THEN Wrap(m * 2^e) ELSE m \div 2^(-e)
           whole == IF e >= 0 THEN m * 2^e ELSE m \div 2^(-e)
           n     == IF fp.sign = 1 THEN -whole ELSE whole
           ends  == IF fp.sign = 1 THEN min ELSE max
           clamp == IF fp.sign = 1 THEN IF abs > -min THEN min ELSE -abs
                    ELSE IF abs > max THEN max ELSE abs
<1>0. Bias(format) \in Int /\ 2^format.exp \in Nat
  <2>1. format.exp - 1 \in Nat
    OBVIOUS
  <2> QED BY <2>1, PowersDouble DEF Bias
<1>1. fp.exp \in Int /\ fp.exp # 0 /\ fp.exp # 2^format.exp - 1
  <2> DEFINE r == 2^format.exp - 2
  <2>1. fp.exp \in 1 .. r
    OBVIOUS
  <2>2. fp.exp \in Int /\ fp.exp # 0
    BY <2>1
  <2>3. ASSUME fp.exp = 2^format.exp - 1 PROVE FALSE
    <3> DEFINE z == 2^format.exp
    <3>1. fp.exp \in 1 .. (z - 2) /\ fp.exp = z - 1 /\ z \in Nat
      BY <1>0, <2>3
    <3> HIDE DEF z
    <3> QED BY <3>1
  <2> QED BY <2>2, <2>3
<1>2. FPToInt(format, fp, signed) = (IF e > LongBits - 1 THEN ends
                                     ELSE IF e < -(LongBits - 1) THEN 0 ELSE clamp)
  <2>1. ~(e > LongBits - 1 /\ e < -(LongBits - 1))
    <3>1. e \in Int
      BY <1>0, <1>1
    <3> HIDE DEF e
    <3> QED BY <3>1, WidthFacts
  <2> DEFINE x == fp.exp = 2^format.exp - 1
             y == fp.exp = 0
  <2>2. FPToInt(format, fp, signed) =
           CASE x -> (IF fp.frac # 0 THEN 0 ELSE ends)
             [] y -> 0
             [] e > LongBits - 1 -> ends
             [] e < -(LongBits - 1) -> 0
             [] OTHER -> clamp
    BY DEF FPToInt
  <2>3. ~x /\ ~y
    BY <1>1
  <2> HIDE DEF x, y, e, ends, clamp
  <2> QED BY <2>1, <2>2, <2>3
<1>3. Rounded(format, fp, signed) = IF n < min THEN min ELSE IF n > max THEN max ELSE n
  BY DEF Rounded
<1>4. m \in Nat \ {0} /\ m < a
  BY MantissaFacts
<1>5. min \in Int /\ max \in Nat /\ min <= 0 /\ -a < min /\ max < a /\ a \in Nat \ {0}
  BY WidthFacts DEF MinInt, MaxInt
<1>6. e \in Int
  BY <1>0, <1>1
<1>7. LongBits \in Nat
  BY WidthFacts
<1>8. e < 0 \/ e >= LongBits \/ m * 2^e < a
  BY DEF KeepsDigits
<1> HIDE DEF min, max, m, e, a
<1>9. whole \in Nat
  <2>1. CASE e >= 0
    <3>1. 2^e \in Nat
      BY <1>6, <2>1, PowersDouble
    <3> QED BY <1>4, <2>1, <3>1
  <2>2. CASE ~(e >= 0)
    <3>1. -e \in Nat
      BY <1>6, <2>2
    <3>2. 2^(-e) \in Nat \ {0}
      BY <3>1, PowersDouble
    <3>3. m \div 2^(-e) \in Nat
      BY <1>4, <3>2, DivisionOf
    <3> QED BY <2>2, <3>3
  <2> QED BY <2>1, <2>2
<1>10. CASE e > LongBits - 1
  <2>1. e \in Nat /\ LongBits <= e /\ e >= 0
    BY <1>6, <1>7, <1>10
  <2>2. a <= 2^e /\ 2^e \in Nat
    BY <1>7, <2>1, PowersRise, PowersDouble DEF a
  <2>3. \A x \in Nat, y \in Nat \ {0} : x <= y * x
    OBVIOUS
  <2>4. 2^e <= m * 2^e
    <3> DEFINE q == 2^e
    <3>1. q \in Nat
      BY <2>2
    <3> HIDE DEF q
    <3>2. q <= m * q
      BY <1>4, <2>3, <3>1
    <3> QED BY <3>2 DEF q
  <2>5. whole = m * 2^e
    BY <2>1
  <2> HIDE DEF whole
  <2>6. whole >= a
    BY <1>5, <1>9, <2>2, <2>4, <2>5
  <2>7. FPToInt(format, fp, signed) = ends
    BY <1>2, <1>10
  <2> QED BY <1>3, <1>5, <1>9, <2>6, <2>7
<1>11. CASE e < -(LongBits - 1)
  <2>1. -e \in Nat /\ LongBits <= -e /\ ~(e >= 0) /\ ~(e > LongBits - 1)
    BY <1>6, <1>7, <1>11
  <2>2. a <= 2^(-e) /\ 2^(-e) \in Nat \ {0}
    BY <1>7, <2>1, PowersRise, PowersDouble DEF a
  <2>3. m \div 2^(-e) = 0
    <3> DEFINE q == 2^(-e)
    <3>1. q \in Nat \ {0} /\ m < q
      BY <1>4, <1>5, <2>2
    <3> HIDE DEF q
    <3>2. m \div q = 0
      BY <1>4, <3>1, SmallQuotient
    <3> QED BY <3>2 DEF q
  <2>4. whole = 0
    BY <2>1, <2>3
  <2>5. FPToInt(format, fp, signed) = 0
    BY <1>2, <1>11, <2>1
  <2> HIDE DEF whole
  <2>6. n = 0
    <3>1. whole <= 0
      BY <2>4
    <3>2. -whole = 0
      BY <1>9, <3>1
    <3> QED BY <2>4, <3>2
  <2> HIDE DEF n
  <2>7. ~(n < min) /\ ~(n > max)
    BY <1>5, <2>6
  <2>8. Rounded(format, fp, signed) = n
    BY <1>3, <2>7
  <2> QED BY <2>5, <2>6, <2>8
<1>12. CASE ~(e > LongBits - 1) /\ ~(e < -(LongBits - 1))
  <2>1. abs = whole
    <3>1. CASE e >= 0
      <4>1. m * 2^e < a /\ m * 2^e = whole
        BY <1>6, <1>7, <1>8, <1>12, <3>1
      <4>2. m * 2^e \in Word
        <5> HIDE DEF whole
        <5> QED BY <1>5, <1>9, <4>1 DEF Word, a
      <4>3. Wrap(m * 2^e) = m * 2^e
        BY <4>2, SignedFacts
      <4> QED BY <3>1, <4>3
    <3>2. CASE ~(e >= 0)
      BY <3>2
    <3> QED BY <3>1, <3>2
  <2>2. FPToInt(format, fp, signed) = clamp
    BY <1>2, <1>12
  <2> HIDE DEF abs, whole
  <2> QED BY <1>3, <1>5, <1>9, <2>1, <2>2
<1> QED BY <1>10, <1>11, <1>12

(* The kinds of instructions are apart.                                    *)
LEMMA KindsApart ==
    /\ \A op \in Computations : op \notin Moves /\ op \notin Steps /\ op \notin Jumps /\ op # "NOP"
    /\ \A op \in Moves : op # "NOP"
    /\ \A op \in Steps : op \notin Moves /\ op # "NOP" /\ op \notin Computations
    /\ \A op \in {"ARRAYLENGTH", "ARRAYGET", "ARRAYSET", "STRLENGTH", "STRGET", "STR2ARRAY",
                  "ISFUTUREREADY", "POLL"} :
           op \notin Moves /\ op \notin Steps /\ op \notin Jumps /\ op # "NOP"
           /\ op \notin Computations
<1>1. \A op : op \in Computations <=>
          \/ op \in Arithmetics \/ op \in Bitwises \/ op \in Shifts
          \/ op \in Truncations \/ op \in Extensions \/ op \in Comparisons
  BY DEF Computations
<1> HIDE DEF Computations
<1> QED BY <1>1 DEF Moves, Steps, Jumps, Arithmetics, Divisions, Bitwises, Shifts,
                    Truncations, Extensions, Comparisons

(* What the handlers do with their operands.                               *)
LEMMA Handled ==
    ASSUME NEW ins, NEW regs, NEW heap, NEW fresh
    PROVE  LET got == Interpret(ins, regs, heap, <<>>, fresh)
           IN  /\ ins.op \in {"MOV", "MOV_RANGE", "SWAP"} =>
                      got = Outcome("Continue", Move(ins, regs, <<>>), heap)
               /\ ins.op = "INC" => got = Outcome("Continue", Step(ins, regs), heap)
               /\ ins.op = "ZEX8" =>
                      got = Outcome("Continue",
                                    SetBits(regs, ins.a, Low(regs[ins.b].ul, ByteBits)), heap)
               /\ ins.op = "ARRAYLENGTH" => got = Length(ins, "Array", regs, heap)
               /\ ins.op = "ARRAYGET" => got = ArrayGet(ins, regs, heap)
               /\ ins.op = "ARRAYSET" => got = ArraySet(ins, regs, heap)
               /\ ins.op = "STRLENGTH" => got = Length(ins, "String", regs, heap)
               /\ ins.op = "STRGET" => got = StringGet(ins, regs, heap)
               /\ ins.op = "STR2ARRAY" => got = StringToArray(ins, regs, heap, fresh)
               /\ ins.op \in {"ISFUTUREREADY", "POLL"} => got = Poll(ins, regs, heap)
<1> DEFINE got == Interpret(ins, regs, heap, <<>>, fresh)
<1>1. ASSUME ins.op \in {"MOV", "MOV_RANGE", "SWAP"}
      PROVE  got = Outcome("Continue", Move(ins, regs, <<>>), heap)
  <2>1. ins.op \in Moves /\ ins.op # "NOP" /\ ins.op \notin Computations /\ ins.op \notin Steps
        /\ ins.op \notin Jumps
    BY <1>1, KindsApart DEF Moves, Jumps
  <2> QED BY <1>1, <2>1 DEF Interpret
<1>2. ASSUME ins.op = "INC" PROVE got = Outcome("Continue", Step(ins, regs), heap)
  <2>1. ins.op \in Steps /\ ins.op \notin Moves /\ ins.op \notin Computations /\ ins.op \notin Jumps
    BY <1>2, KindsApart DEF Steps, Jumps
  <2> QED BY <1>2, <2>1 DEF Interpret
<1>3. ASSUME ins.op = "ZEX8"
      PROVE  got = Outcome("Continue", SetBits(regs, ins.a, Low(regs[ins.b].ul, ByteBits)), heap)
  <2>1. ins.op \in Computations /\ ins.op \in Extensions /\ ins.op \notin Divisions
        /\ ins.op \notin Arithmetics /\ ins.op \notin Bitwises /\ ins.op \notin Shifts
        /\ ins.op \notin Truncations /\ ins.op \notin Comparisons
    BY <1>3 DEF Computations, Extensions, Divisions, Arithmetics, Bitwises, Shifts, Truncations,
                Comparisons
  <2>2. ins.op \notin Moves /\ ins.op \notin Steps /\ ins.op \notin Jumps /\ ins.op # "NOP"
    BY <2>1, KindsApart
  <2>3. \A x, y : ~Traps(ins.op, x, y)
    BY <2>1 DEF Traps
  <2>4. \A old, x, y : Compute(ins.op, old, x, y) = Extend("ZEX8", x)
    BY <1>3, <2>1 DEF Compute
  <2>5. \A x : Extend("ZEX8", x) = Low(x, ByteBits)
    BY DEF Extend
  <2>6. got = Outcome("Continue", SetBits(regs, ins.a, Compute(ins.op, regs[ins.a].ul, regs[ins.b].ul,
                                                               regs[ins.c].ul)), heap)
    BY <1>3, <2>1, <2>2, <2>3 DEF Interpret
  <2> QED BY <2>4, <2>5, <2>6
<1>4. ASSUME ins.op \in {"ARRAYLENGTH", "ARRAYGET", "ARRAYSET", "STRLENGTH", "STRGET", "STR2ARRAY",
                         "ISFUTUREREADY", "POLL"}
      PROVE  got = CASE ins.op = "ARRAYLENGTH" -> Length(ins, "Array", regs, heap)
                     [] ins.op = "ARRAYGET" -> ArrayGet(ins, regs, heap)
                     [] ins.op = "ARRAYSET" -> ArraySet(ins, regs, heap)
                     [] ins.op = "STRLENGTH" -> Length(ins, "String", regs, heap)
                     [] ins.op = "STRGET" -> StringGet(ins, regs, heap)
                     [] ins.op = "STR2ARRAY" -> StringToArray(ins, regs, heap, fresh)
                     [] OTHER -> Poll(ins, regs, heap)
  <2>1. ins.op \notin Moves /\ ins.op \notin Steps /\ ins.op \notin Jumps /\ ins.op # "NOP"
        /\ ins.op \notin Computations
    BY <1>4, KindsApart
  <2> QED BY <1>4, <2>1 DEF Interpret
<1> HIDE DEF got
<1>5. /\ ins.op = "ARRAYLENGTH" => got = Length(ins, "Array", regs, heap)
      /\ ins.op = "ARRAYGET" => got = ArrayGet(ins, regs, heap)
      /\ ins.op = "ARRAYSET" => got = ArraySet(ins, regs, heap)
      /\ ins.op = "STRLENGTH" => got = Length(ins, "String", regs, heap)
      /\ ins.op = "STRGET" => got = StringGet(ins, regs, heap)
      /\ ins.op = "STR2ARRAY" => got = StringToArray(ins, regs, heap, fresh)
      /\ ins.op \in {"ISFUTUREREADY", "POLL"} => got = Poll(ins, regs, heap)
  BY <1>4
<1> QED BY <1>1, <1>2, <1>3, <1>5 DEF got

(* A program's outcome is the last of the states its instructions go       *)
(* through.                                                                *)
Traces(program, regs, heap, s) ==
    /\ s = [k \in 0 .. Len(program) |-> s[k]]
    /\ s[0] = Outcome("Continue", regs, heap)
    /\ \A k \in 1 .. Len(program) :
           s[k] = Interpret(program[k], s[k - 1].regs, s[k - 1].heap, <<>>, 2)

LEMMA AfterTrace ==
    ASSUME NEW program, Len(program) \in Nat, NEW regs, NEW heap, NEW s,
           Traces(program, regs, heap, s)
    PROVE  After(program, regs, heap) = s[Len(program)]
<1> DEFINE D == 0 .. Len(program)
           Next1(g) == [k \in D |->
                          IF k = 0 THEN Outcome("Continue", regs, heap)
                          ELSE Interpret(program[k], g[k - 1].regs, g[k - 1].heap, <<>>, 2)]
           run == CHOOSE g : g = Next1(g)
<1>1. s = Next1(s)
  <2>1. \A k \in D : s[k] = IF k = 0 THEN Outcome("Continue", regs, heap)
                            ELSE Interpret(program[k], s[k - 1].regs, s[k - 1].heap, <<>>, 2)
    <3> TAKE k \in D
    <3>1. k = 0 \/ k \in 1 .. Len(program)
      OBVIOUS
    <3> QED BY <3>1 DEF Traces
  <2>2. s = [k \in D |-> s[k]]
    BY DEF Traces
  <2> HIDE DEF D
  <2> QED BY <2>1, <2>2
<1>2. run = Next1(run)
  <2> HIDE DEF Next1
  <2> QED BY <1>1
<1>3. After(program, regs, heap) = run[Len(program)]
  BY DEF After
<1> HIDE DEF run
<1> DEFINE S == {k \in Nat : k <= Len(program) => run[k] = s[k]}
<1>4. 0 \in S
  <2>1. 0 \in D
    OBVIOUS
  <2> HIDE DEF D
  <2>2. run[0] = Outcome("Continue", regs, heap)
    BY <1>2, <2>1
  <2> QED BY <2>2 DEF Traces
<1>5. ASSUME NEW k \in Nat, k \in S PROVE k + 1 \in S
  <2> SUFFICES ASSUME k + 1 <= Len(program) PROVE run[k + 1] = s[k + 1]
    OBVIOUS
  <2>1. k + 1 \in D /\ k + 1 # 0 /\ (k + 1) - 1 = k /\ k <= Len(program)
    OBVIOUS
  <2>2. run[k] = s[k]
    BY <1>5, <2>1
  <2> HIDE DEF D, S
  <2>3. run[k + 1] = Interpret(program[k + 1], run[k].regs, run[k].heap, <<>>, 2)
    <3>1. run[k + 1] = Next1(run)[k + 1]
      BY <1>2
    <3> QED BY <2>1, <3>1
  <2>4. s[k + 1] = Interpret(program[k + 1], s[k].regs, s[k].heap, <<>>, 2)
    <3>1. s[k + 1] = Next1(s)[k + 1]
      BY <1>1
    <3> QED BY <2>1, <3>1
  <2> QED BY <2>2, <2>3, <2>4
<1> HIDE DEF S
<1>6. Nat \subseteq S
  BY <1>4, <1>5, Induction
<1>7. Len(program) \in S
  BY <1>6
<1> QED BY <1>3, <1>7 DEF S

(* The same of the states in a sequence, the first being the start.        *)
LEMMA RunSome ==
    ASSUME NEW p, Len(p) \in Nat, NEW regs, NEW heap, NEW st,
           st[1] = Outcome("Continue", regs, heap),
           \A k \in 1 .. Len(p) : st[k + 1] = Interpret(p[k], st[k].regs, st[k].heap, <<>>, 2)
    PROVE  After(p, regs, heap) = st[Len(p) + 1]
<1> DEFINE z == [k \in 0 .. Len(p) |-> st[k + 1]]
<1>1. \A k \in 0 .. Len(p) : z[k] = st[k + 1]
  OBVIOUS
<1>2. z = [k \in 0 .. Len(p) |-> z[k]]
  OBVIOUS
<1> HIDE DEF z
<1>3. /\ 0 \in 0 .. Len(p) /\ Len(p) \in 0 .. Len(p) /\ 0 + 1 = 1
      /\ \A k \in 1 .. Len(p) : k \in 0 .. Len(p) /\ k - 1 \in 0 .. Len(p) /\ (k - 1) + 1 = k
  OBVIOUS
<1>4. z[0] = Outcome("Continue", regs, heap)
  BY <1>1, <1>3
<1>5. ASSUME NEW k \in 1 .. Len(p)
      PROVE  z[k] = Interpret(p[k], z[k - 1].regs, z[k - 1].heap, <<>>, 2)
  <2>1. z[k] = st[k + 1] /\ z[k - 1] = st[k]
    BY <1>1, <1>3
  <2> QED BY <2>1
<1>6. Traces(p, regs, heap, z)
  BY <1>2, <1>4, <1>5 DEF Traces
<1> QED BY <1>1, <1>3, <1>6, AfterTrace

(* The registers of a program.                                             *)
LEMMA RegistersAre ==
    ASSUME NEW w
    PROVE  /\ DOMAIN Registers(w) = 0 .. 3
           /\ Registers(w)[0] = Reference(1) /\ Registers(w)[1] = Bare(0)
           /\ Registers(w)[2] = Bare(w) /\ Registers(w)[3] = Reference(0)
<1> DEFINE a == Reference(1)
           b == Bare(0)
           c == Bare(w)
           d == Reference(0)
           f == [r \in 0 .. 3 |-> <<a, b, c, d>>[r + 1]]
<1>1. Registers(w) = f
  BY DEF Registers
<1> HIDE DEF a, b, c, d
<1>2. DOMAIN f = 0 .. 3 /\ f[0] = a /\ f[1] = b /\ f[2] = c /\ f[3] = d
  OBVIOUS
<1> HIDE DEF f
<1> QED BY <1>1, <1>2 DEF a, b, c, d

(* What is in the fields of an instruction and of an outcome.              *)
LEMMA Parts ==
    /\ \A op, a, b, c, imm :
          LET ins == Ins(op, a, b, c, imm)
          IN  ins.op = op /\ ins.a = a /\ ins.b = b /\ ins.c = c /\ ins.imm = imm
    /\ \A m, regs, heap :
          LET o == Outcome(m, regs, heap) IN o.message = m /\ o.regs = regs /\ o.heap = heap
    /\ \A v : Bare(v).ul = v /\ Bare(v).isObject = FALSE
              /\ Reference(v).ul = v /\ Reference(v).isObject = TRUE
BY DEF Ins, Outcome, Bare, Reference

(* An instruction that gives one outcome takes a program one step on.      *)
Gives(a, regs, heap, regs2, heap2) ==
    Interpret(a, regs, heap, <<>>, 2) = Outcome("Continue", regs2, heap2)

LEMMA RunOne ==
    ASSUME NEW a, NEW r0, NEW h0, NEW r1, NEW h1, Gives(a, r0, h0, r1, h1)
    PROVE  After(<<a>>, r0, h0) = Outcome("Continue", r1, h1)
<1> DEFINE p == <<a>>
           st == <<Outcome("Continue", r0, h0), Outcome("Continue", r1, h1)>>
<1>1. Len(p) = 1 /\ p[1] = a /\ 1 .. 1 = {1}
      /\ st[1] = Outcome("Continue", r0, h0) /\ st[2] = Outcome("Continue", r1, h1)
  OBVIOUS
<1> HIDE DEF p, st
<1>2. st[2] = Interpret(p[1], st[1].regs, st[1].heap, <<>>, 2)
  BY <1>1, Parts DEF Gives
<1>3. \A k \in 1 .. Len(p) : st[k + 1] = Interpret(p[k], st[k].regs, st[k].heap, <<>>, 2)
  BY <1>1, <1>2
<1>4. st[1] = Outcome("Continue", r0, h0) /\ Len(p) \in Nat
  BY <1>1
<1>5. After(p, r0, h0) = st[Len(p) + 1]
  BY <1>3, <1>4, RunSome
<1> QED BY <1>1, <1>5 DEF p

LEMMA RunTwo ==
    ASSUME NEW a, NEW b, NEW r0, NEW h0, NEW r1, NEW h1, NEW r2, NEW h2,
           Gives(a, r0, h0, r1, h1), Gives(b, r1, h1, r2, h2)
    PROVE  After(<<a, b>>, r0, h0) = Outcome("Continue", r2, h2)
<1> DEFINE p == <<a, b>>
           o(r, h) == Outcome("Continue", r, h)
           st == <<o(r0, h0), o(r1, h1), o(r2, h2)>>
<1>1. Len(p) = 2 /\ p[1] = a /\ p[2] = b /\ 1 .. 2 = {1, 2}
      /\ st[1] = o(r0, h0) /\ st[2] = o(r1, h1) /\ st[3] = o(r2, h2)
  OBVIOUS
<1> HIDE DEF p, st
<1>2. \A r, h : o(r, h).regs = r /\ o(r, h).heap = h
  BY Parts
<1>3. Interpret(a, r0, h0, <<>>, 2) = o(r1, h1) /\ Interpret(b, r1, h1, <<>>, 2) = o(r2, h2)
  BY DEF Gives
<1>4. st[1] = Outcome("Continue", r0, h0) /\ Len(p) \in Nat
  BY <1>1
<1> HIDE DEF o
<1>5. \A k \in 1 .. Len(p) : st[k + 1] = Interpret(p[k], st[k].regs, st[k].heap, <<>>, 2)
  BY <1>1, <1>2, <1>3
<1>6. After(p, r0, h0) = st[Len(p) + 1]
  BY <1>4, <1>5, RunSome
<1> QED BY <1>1, <1>6 DEF p, o

LEMMA RunThree ==
    ASSUME NEW a, NEW b, NEW c, NEW r0, NEW h0, NEW r1, NEW h1, NEW r2, NEW h2, NEW r3, NEW h3,
           Gives(a, r0, h0, r1, h1), Gives(b, r1, h1, r2, h2), Gives(c, r2, h2, r3, h3)
    PROVE  After(<<a, b, c>>, r0, h0) = Outcome("Continue", r3, h3)
<1> DEFINE p == <<a, b, c>>
           o(r, h) == Outcome("Continue", r, h)
           st == <<o(r0, h0), o(r1, h1), o(r2, h2), o(r3, h3)>>
<1>1. Len(p) = 3 /\ p[1] = a /\ p[2] = b /\ p[3] = c /\ 1 .. 3 = {1, 2, 3}
      /\ st[1] = o(r0, h0) /\ st[2] = o(r1, h1) /\ st[3] = o(r2, h2) /\ st[4] = o(r3, h3)
  OBVIOUS
<1> HIDE DEF p, st
<1>2. \A r, h : o(r, h).regs = r /\ o(r, h).heap = h
  BY Parts
<1>3. /\ Interpret(a, r0, h0, <<>>, 2) = o(r1, h1) /\ Interpret(b, r1, h1, <<>>, 2) = o(r2, h2)
      /\ Interpret(c, r2, h2, <<>>, 2) = o(r3, h3)
  BY DEF Gives
<1>4. st[1] = Outcome("Continue", r0, h0) /\ Len(p) \in Nat
  BY <1>1
<1> HIDE DEF o
<1>5. \A k \in 1 .. Len(p) : st[k + 1] = Interpret(p[k], st[k].regs, st[k].heap, <<>>, 2)
  BY <1>1, <1>2, <1>3
<1>6. After(p, r0, h0) = st[Len(p) + 1]
  BY <1>4, <1>5, RunSome
<1> QED BY <1>1, <1>6 DEF p, o

LEMMA RunFour ==
    ASSUME NEW a, NEW b, NEW c, NEW d, NEW r0, NEW h0, NEW r1, NEW h1, NEW r2, NEW h2,
           NEW r3, NEW h3, NEW r4, NEW h4,
           Gives(a, r0, h0, r1, h1), Gives(b, r1, h1, r2, h2),
           Gives(c, r2, h2, r3, h3), Gives(d, r3, h3, r4, h4)
    PROVE  After(<<a, b, c, d>>, r0, h0) = Outcome("Continue", r4, h4)
<1> DEFINE p == <<a, b, c, d>>
           o(r, h) == Outcome("Continue", r, h)
           st == <<o(r0, h0), o(r1, h1), o(r2, h2), o(r3, h3), o(r4, h4)>>
<1>1. Len(p) = 4 /\ p[1] = a /\ p[2] = b /\ p[3] = c /\ p[4] = d /\ 1 .. 4 = {1, 2, 3, 4}
      /\ st[1] = o(r0, h0) /\ st[2] = o(r1, h1) /\ st[3] = o(r2, h2) /\ st[4] = o(r3, h3)
      /\ st[5] = o(r4, h4)
  OBVIOUS
<1> HIDE DEF p, st
<1>2. \A r, h : o(r, h).regs = r /\ o(r, h).heap = h
  BY Parts
<1>3. /\ Interpret(a, r0, h0, <<>>, 2) = o(r1, h1) /\ Interpret(b, r1, h1, <<>>, 2) = o(r2, h2)
      /\ Interpret(c, r2, h2, <<>>, 2) = o(r3, h3) /\ Interpret(d, r3, h3, <<>>, 2) = o(r4, h4)
  BY DEF Gives
<1>4. st[1] = Outcome("Continue", r0, h0) /\ Len(p) \in Nat
  BY <1>1
<1> HIDE DEF o
<1>5. \A k \in 1 .. Len(p) : st[k + 1] = Interpret(p[k], st[k].regs, st[k].heap, <<>>, 2)
  BY <1>1, <1>2, <1>3
<1>6. After(p, r0, h0) = st[Len(p) + 1]
  BY <1>4, <1>5, RunSome
<1> QED BY <1>1, <1>6 DEF p, o

(* Moving registers one by one, or all at once.                            *)
LEMMA MovesAreKept ==
    ASSUME NEW w
    PROVE  MovesKeep(w)
<1> DEFINE R == Registers(w)
           range == Ins("MOV_RANGE", 1, 0, 0, 3)
           a == Ins("MOV", 3, 2, 0, 0)
           b == Ins("MOV", 2, 1, 0, 0)
           c == Ins("MOV", 1, 0, 0, 0)
           s == Ins("SWAP", 0, 2, 0, 0)
           u == Ins("SWAP", 2, 0, 0, 0)
<1>1. DOMAIN R = 0 .. 3 /\ R = [r \in 0 .. 3 |-> R[r]]
  BY DEF Registers
<1>2. MovesKeep(w) <=> /\ After(<<range>>, R, <<>>) = After(<<a, b, c>>, R, <<>>)
                       /\ After(<<s, u>>, R, <<>>).regs = R
  BY DEF MovesKeep
<1> HIDE DEF R
<1> DEFINE all == [r \in 0 .. 3 |-> IF r \in 1 .. 3 THEN R[r - 1] ELSE R[r]]
           r1 == [R EXCEPT ![3] = R[2]]
           r2 == [r1 EXCEPT ![2] = r1[1]]
           r3 == [r2 EXCEPT ![1] = r2[0]]
           x1 == [R EXCEPT ![0] = R[2], ![2] = R[0]]
           x2 == [x1 EXCEPT ![2] = x1[0], ![0] = x1[2]]
<1>3. Gives(range, R, <<>>, all, <<>>)
  <2>1. Move(range, R, <<>>) = MoveRange(range, R)
    BY Parts DEF Move
  <2>2. range.a = 1 /\ range.b = 0 /\ range.imm = 3 /\ range.op = "MOV_RANGE"
    BY Parts
  <2> HIDE DEF range
  <2>3. MoveRange(range, R) = all
    <3>1. MoveRange(range, R) = [r \in 0 .. 3 |-> IF r \in 1 .. (1 + 3 - 1) THEN R[0 + (r - 1)] ELSE R[r]]
      BY <1>1, <2>2 DEF MoveRange
    <3> QED BY <3>1
  <2> HIDE DEF all
  <2> QED BY <2>1, <2>2, <2>3, Handled DEF Gives
<1>4. ASSUME NEW regs, NEW i, NEW j
      PROVE  /\ Gives(Ins("MOV", i, j, 0, 0), regs, <<>>, [regs EXCEPT ![i] = regs[j]], <<>>)
             /\ Gives(Ins("SWAP", i, j, 0, 0), regs, <<>>,
                      [regs EXCEPT ![i] = regs[j], ![j] = regs[i]], <<>>)
  <2> DEFINE m == Ins("MOV", i, j, 0, 0)
             n == Ins("SWAP", i, j, 0, 0)
  <2>1. m.op = "MOV" /\ m.a = i /\ m.b = j /\ n.op = "SWAP" /\ n.a = i /\ n.b = j
    BY Parts
  <2> HIDE DEF m, n
  <2>2. Move(m, regs, <<>>) = [regs EXCEPT ![i] = regs[j]]
    BY <2>1 DEF Move
  <2>3. Move(n, regs, <<>>) = [regs EXCEPT ![i] = regs[j], ![j] = regs[i]]
    BY <2>1 DEF Move
  <2>4. /\ Interpret(m, regs, <<>>, <<>>, 2) = Outcome("Continue", Move(m, regs, <<>>), <<>>)
        /\ Interpret(n, regs, <<>>, <<>>, 2) = Outcome("Continue", Move(n, regs, <<>>), <<>>)
    BY <2>1, Handled
  <2> QED BY <2>2, <2>3, <2>4 DEF Gives, m, n
<1>5. /\ Gives(a, R, <<>>, r1, <<>>) /\ Gives(b, r1, <<>>, r2, <<>>) /\ Gives(c, r2, <<>>, r3, <<>>)
      /\ Gives(s, R, <<>>, x1, <<>>) /\ Gives(u, x1, <<>>, x2, <<>>)
  BY <1>4
<1>6. r3 = all
  BY <1>1
<1>7. x2 = R
  BY <1>1
<1> HIDE DEF all, r1, r2, r3, x1, x2, range, a, b, c, s, u
<1>8. After(<<range>>, R, <<>>) = Outcome("Continue", all, <<>>)
  BY <1>3, RunOne
<1>9. After(<<a, b, c>>, R, <<>>) = Outcome("Continue", r3, <<>>)
  BY <1>5, RunThree
<1>10. After(<<s, u>>, R, <<>>) = Outcome("Continue", x2, <<>>)
  BY <1>5, RunTwo
<1> QED BY <1>2, <1>6, <1>7, <1>8, <1>9, <1>10, Parts

(* The new bits of a register, under the old tag.                          *)
LEMMA BitsSet ==
    ASSUME NEW regs, NEW r \in DOMAIN regs, NEW v
    PROVE  /\ DOMAIN SetBits(regs, r, v) = DOMAIN regs
           /\ \A x : /\ regs[r] = Bare(x) => SetBits(regs, r, v)[r] = Bare(v)
                     /\ regs[r] = Reference(x) => SetBits(regs, r, v)[r] = Reference(v)
           /\ \A k \in DOMAIN regs : k # r => SetBits(regs, r, v)[k] = regs[k]
<1>1. SetBits(regs, r, v) = [k \in DOMAIN regs |-> IF k = r THEN [regs[k] EXCEPT !.ul = v] ELSE regs[k]]
  BY DEF SetBits
<1> DEFINE S == SetBits(regs, r, v)
<1>2. /\ DOMAIN S = DOMAIN regs /\ S[r] = [regs[r] EXCEPT !.ul = v]
      /\ \A k \in DOMAIN regs : k # r => S[k] = regs[k]
  <2> DEFINE new == [regs[r] EXCEPT !.ul = v]
             f == [k \in DOMAIN regs |-> IF k = r THEN new ELSE regs[k]]
  <2>1. S = f
    BY <1>1
  <2> HIDE DEF new
  <2>2. DOMAIN f = DOMAIN regs /\ f[r] = new /\ \A k \in DOMAIN regs : k # r => f[k] = regs[k]
    OBVIOUS
  <2> QED BY <2>1, <2>2 DEF new
<1> HIDE DEF S
<1>3. ASSUME NEW x
      PROVE  (regs[r] = Bare(x) => S[r] = Bare(v)) /\ (regs[r] = Reference(x) => S[r] = Reference(v))
  <2>1. \A tag, c : c = [isObject |-> tag, ul |-> x] => [c EXCEPT !.ul = v] = [isObject |-> tag, ul |-> v]
    OBVIOUS
  <2>2. [Bare(x) EXCEPT !.ul = v] = Bare(v) /\ [Reference(x) EXCEPT !.ul = v] = Reference(v)
    BY <2>1 DEF Bare, Reference
  <2> QED BY <1>2, <2>2
<1> QED BY <1>2, <1>3 DEF S

(* What a jump makes of the three answers.                                 *)
LEMMA Answers ==
    /\ \A n \in {0, 1, NONZERO, Wrap(-1)} : Taken("JEQ", n) <=> n = 0
    /\ \A n \in {0, 1, Wrap(-1)} : Taken("JGT", n) <=> n = 1
    /\ NONZERO # 0 /\ Wrap(-1) # 0 /\ Wrap(-1) # 1
<1> DEFINE h == 2^(LongBits - 1)
           a == 2^LongBits
<1>1. h \in Nat /\ h >= 128 /\ a = 2 * h /\ a \in Nat
  BY WidthFacts
<1>2. -1 \in -h .. (h - 1)
  <2> HIDE DEF h
  <2> QED BY <1>1
<1>3. Wrap(-1) \in Word /\ Signed(Wrap(-1)) = -1
  BY <1>2, SignedFacts
<1>4. \A n \in Word : n < h => Signed(n) = n
  BY SignedFacts
<1>5. NONZERO = 69
  <2>1. NONZERO = 69 % a
    BY DEF NONZERO
  <2> HIDE DEF h, a
  <2>2. a \in Nat \ {0} /\ 69 \in Nat /\ 69 < a
    BY <1>1
  <2> QED BY <2>1, <2>2, SmallQuotient
<1>6. \A n \in {0, 1, 69} : Signed(n) = n
  <2>1. \A n \in {0, 1, 69} : n \in Word /\ n < h
    <3>1. Word = 0 .. (a - 1)
      BY DEF Word
    <3> HIDE DEF h, a
    <3> QED BY <1>1, <3>1
  <2> QED BY <1>4, <2>1
<1>7. Wrap(-1) # 0 /\ Wrap(-1) # 1
  BY <1>3, <1>6
<1>8. \A n : (Taken("JEQ", n) <=> Signed(n) = 0) /\ (Taken("JGT", n) <=> Signed(n) > 0)
  BY DEF Taken
<1>9. Signed(0) = 0 /\ Signed(1) = 1 /\ Signed(69) = 69
  BY <1>6
<1>10. /\ Taken("JEQ", 0) /\ ~Taken("JEQ", 1) /\ ~Taken("JEQ", 69) /\ ~Taken("JEQ", Wrap(-1))
       /\ ~Taken("JGT", 0) /\ Taken("JGT", 1) /\ ~Taken("JGT", Wrap(-1))
  BY <1>3, <1>8, <1>9
<1> QED BY <1>5, <1>7, <1>10

(* The answer of a future.                                                 *)
LEMMA FuturesAreAnswered ==
    ASSUME NEW w
    PROVE  FuturesAnswer(w)
<1> SUFFICES ASSUME NEW ready \in BOOLEAN, NEW cancelled \in BOOLEAN
             PROVE  LET heap == HeapOf(SomeFuture(w, ready, cancelled))
                        poll == After(<<Ins("POLL", 1, 0, 0, 0)>>, Registers(w), heap).regs
                        look == After(<<Ins("ISFUTUREREADY", 1, 0, 0, 0)>>, Registers(w), heap).regs
                    IN  /\ Taken("JEQ", poll[1].ul) = ready /\ Taken("JEQ", look[1].ul) = ready
                        /\ Taken("JGT", poll[1].ul) = (~ready /\ cancelled)
                        /\ poll[0] = IF ready \/ cancelled THEN Bare(w) ELSE Reference(1)
  BY DEF FuturesAnswer
<1> DEFINE F == SomeFuture(w, ready, cancelled)
           H == HeapOf(F)
           R == Registers(w)
           p == Ins("POLL", 1, 0, 0, 0)
           q == Ins("ISFUTUREREADY", 1, 0, 0, 0)
           G == [R EXCEPT ![0] = Bare(w)]
           code == IF ready THEN 0 ELSE NONZERO
           answer == IF ready THEN 0 ELSE IF cancelled THEN 1 ELSE Wrap(-1)
           polled == IF ready \/ cancelled THEN SetBits(G, 1, answer) ELSE SetBits(R, 1, answer)
           looked == SetBits(R, 1, code)
<1>1. /\ DOMAIN R = 0 .. 3 /\ R[0] = Reference(1) /\ R[1] = Bare(0)
  BY RegistersAre
<1>2. DOMAIN H = {1} /\ H[1] = F
  BY DEF HeapOf
<1>3. F.kind = "Future" /\ F.ready = ready /\ F.cancelled = cancelled /\ F.value = Bare(w)
  BY DEF SomeFuture
<1>4. /\ p.op = "POLL" /\ p.a = 1 /\ p.b = 0 /\ q.op = "ISFUTUREREADY" /\ q.a = 1 /\ q.b = 0
  BY Parts
<1>5. R[0].ul = 1
  BY <1>1, Parts
<1> HIDE DEF F, H, R, p, q
<1>6. \A body : Guarded(1, "Future", R, H, body) = body
  BY <1>2, <1>3 DEF Guarded
<1>7. Poll(p, R, H) = Outcome("Continue", polled, H)
  <2>1. Poll(p, R, H) = Outcome("Continue",
            CASE p.op = "ISFUTUREREADY" -> SetBits(R, p.a, IF F.ready THEN 0 ELSE NONZERO)
              [] p.op = "POLL" /\ F.ready -> SetBits(G, p.a, 0)
              [] p.op = "POLL" /\ ~F.ready /\ F.cancelled -> SetBits(G, p.a, 1)
              [] OTHER -> SetBits(R, p.a, Wrap(-1)), H)
    BY <1>2, <1>3, <1>4, <1>5, <1>6 DEF Poll
  <2> HIDE DEF G
  <2> QED BY <1>3, <1>4, <2>1
<1>8. Poll(q, R, H) = Outcome("Continue", looked, H)
  <2>1. Poll(q, R, H) = Outcome("Continue",
            CASE q.op = "ISFUTUREREADY" -> SetBits(R, q.a, IF F.ready THEN 0 ELSE NONZERO)
              [] q.op = "POLL" /\ F.ready -> SetBits([R EXCEPT ![q.b] = F.value], q.a, 0)
              [] q.op = "POLL" /\ ~F.ready /\ F.cancelled -> SetBits([R EXCEPT ![q.b] = F.value], q.a, 1)
              [] OTHER -> SetBits(R, q.a, Wrap(-1)), H)
    BY <1>2, <1>4, <1>5, <1>6 DEF Poll
  <2> QED BY <1>3, <1>4, <2>1
<1>9. Gives(p, R, H, polled, H) /\ Gives(q, R, H, looked, H)
  <2>1. Interpret(p, R, H, <<>>, 2) = Poll(p, R, H) /\ Interpret(q, R, H, <<>>, 2) = Poll(q, R, H)
    BY <1>4, Handled
  <2> HIDE DEF polled, looked
  <2> QED BY <1>7, <1>8, <2>1 DEF Gives
<1>10. /\ DOMAIN G = 0 .. 3 /\ G[0] = Bare(w) /\ G[1] = Bare(0)
  BY <1>1
<1>12. ASSUME NEW v
       PROVE  /\ SetBits(G, 1, v)[1].ul = v /\ SetBits(G, 1, v)[0] = Bare(w)
              /\ SetBits(R, 1, v)[1].ul = v /\ SetBits(R, 1, v)[0] = Reference(1)
  <2>1. 1 \in DOMAIN G /\ 0 \in DOMAIN G /\ 1 \in DOMAIN R /\ 0 \in DOMAIN R
    BY <1>1, <1>10
  <2>4. G[1] = Bare(0) /\ R[1] = Bare(0) /\ 0 # 1
    BY <1>1, <1>10
  <2> HIDE DEF G
  <2>2. SetBits(G, 1, v)[1] = Bare(v) /\ SetBits(G, 1, v)[0] = G[0]
    BY <2>1, <2>4, BitsSet
  <2>3. SetBits(R, 1, v)[1] = Bare(v) /\ SetBits(R, 1, v)[0] = R[0]
    BY <2>1, <2>4, BitsSet
  <2> QED BY <1>1, <1>10, <2>2, <2>3, Parts
<1>13. After(<<p>>, R, H).regs = polled /\ After(<<q>>, R, H).regs = looked
  <2> HIDE DEF polled, looked
  <2> QED BY <1>9, RunOne, Parts
<1> HIDE DEF G
<1>14. polled[1].ul = answer /\ looked[1].ul = code
       /\ polled[0] = IF ready \/ cancelled THEN Bare(w) ELSE Reference(1)
  <2> HIDE DEF answer, code
  <2> QED BY <1>12
<1>15. /\ Taken("JEQ", answer) = ready /\ Taken("JEQ", code) = ready
       /\ Taken("JGT", answer) = (~ready /\ cancelled)
  <2>1. Taken("JEQ", 0) = TRUE /\ Taken("JEQ", 1) = FALSE /\ Taken("JEQ", NONZERO) = FALSE
        /\ Taken("JEQ", Wrap(-1)) = FALSE /\ Taken("JGT", 0) = FALSE /\ Taken("JGT", 1) = TRUE
        /\ Taken("JGT", Wrap(-1)) = FALSE
    <3>1. \A n : Taken("JEQ", n) \in BOOLEAN /\ Taken("JGT", n) \in BOOLEAN
      BY DEF Taken
    <3> QED BY <3>1, Answers
  <2> QED BY <2>1
<1> HIDE DEF polled, looked, answer, code
<1> QED BY <1>13, <1>14, <1>15 DEF F, H, R, p, q

(* A word put into the first of two elements.                              *)
LEMMA WordStored ==
    ASSUME NEW t \in Type, NEW value, value.ul \in Word, NEW b,
           b = StoreAs(t, [k \in 1 .. (2 * GetPrimitiveSizeForType(t)) |-> 0], 0, value)
    PROVE  LET size == GetPrimitiveSizeForType(t)
           IN  /\ BytesAt(b, 0, size) = value.ul % 2^(ByteBits * size)
               /\ BytesAt(b, size, size) = 0
<1> DEFINE n == GetPrimitiveSizeForType(t)
           w == value.ul
           part(x) == Low(w \div 2^(ByteBits * (x - 1 - 0)), ByteBits)
<1>1. n \in {1, 2, 4, 8}
  <2>1. Rank(t) <= Rank(t)
    BY TypeRanks
  <2> QED BY <2>1, SizesDivide DEF Size
<1>2. b = [x \in 1 .. (2 * n) |-> IF x - 1 \in 0 .. (0 + n - 1) THEN part(x) ELSE 0]
  BY DEF StoreAs, WriteBytes
<1>3. ASSUME NEW k \in 0 .. (2 * n - 1)
      PROVE  b[k + 1] = IF k < n THEN part(k + 1) ELSE 0
  <2>1. k + 1 \in 1 .. (2 * n) /\ (k + 1) - 1 = k /\ (k \in 0 .. (0 + n - 1) <=> k < n)
    BY <1>1
  <2> HIDE DEF n, part
  <2> QED BY <1>2, <2>1
<1>4. w \in Nat
  BY WidthFacts DEF Word
<1>5. BytesAt(b, 0, n) = w % 2^(ByteBits * n)
  <2> DEFINE f == [k \in 0 .. (n - 1) |-> b[0 + k + 1] * 2^(ByteBits * k)]
  <2>1. ASSUME NEW k \in 0 .. (n - 1)
        PROVE  f[k] = ((w \div 2^(ByteBits * k)) % 2^ByteBits) * 2^(ByteBits * k)
    <3>1. k \in 0 .. (2 * n - 1) /\ k < n /\ 0 + k + 1 = k + 1 /\ (k + 1) - 1 - 0 = k
      BY <1>1
    <3>2. b[0 + k + 1] = part(k + 1)
      <4> HIDE DEF n, part
      <4> QED BY <1>3, <3>1
    <3>3. part(k + 1) = (w \div 2^(ByteBits * k)) % 2^ByteBits
      BY <3>1 DEF Low
    <3>4. f[k] = b[0 + k + 1] * 2^(ByteBits * k)
      OBVIOUS
    <3> HIDE DEF f, part, w
    <3> QED BY <3>2, <3>3, <3>4
  <2>2. BytesAt(b, 0, n) = Total(f, 0 .. (n - 1))
    <3>1. n \in Nat
      BY <1>1
    <3> HIDE DEF n
    <3> QED BY <3>1, ReadIsTotal
  <2>3. ByteBits \in Nat \ {0} /\ n \in Nat
    BY <1>1, ByteBitsAssumption
  <2> HIDE DEF f, n, w
  <2>4. Total(f, 0 .. (n - 1)) = w % 2^(ByteBits * n)
    BY <1>4, <2>1, <2>3, DigitsOf
  <2> QED BY <2>2, <2>4
<1>6. BytesAt(b, n, n) = 0
  <2>1. ASSUME NEW k \in 0 .. (n - 1) PROVE b[n + k + 1] = 0
    <3>1. n + k \in 0 .. (2 * n - 1) /\ ~(n + k < n)
      BY <1>1
    <3> HIDE DEF n, part
    <3> QED BY <1>3, <3>1
  <2>2. n \in Nat
    BY <1>1
  <2> HIDE DEF n
  <2> QED BY <2>1, <2>2, ReadNothing
<1> QED BY <1>5, <1>6

(* What is put into an array comes out of it.                              *)
LEMMA ArraysAreKept ==
    ASSUME NEW w \in Word
    PROVE  ArraysKeep(w)
<1> SUFFICES ASSUME NEW t \in Type
             PROVE  LET regs == After(<<Ins("ARRAYSET", 0, 1, 2, 0), Ins("ARRAYGET", 3, 0, 1, 0),
                                        Ins("INC", 1, 0, 0, 1), Ins("ARRAYGET", 2, 0, 1, 0)>>,
                                      Registers(w), HeapOf(SomeArray(t))).regs
                    IN  /\ regs[3] = [isObject |-> t = "Reference",
                                      ul |-> w % 2^(ByteBits * GetPrimitiveSizeForType(t))]
                        /\ regs[2].ul = 0
  BY DEF ArraysKeep
<1> DEFINE n  == GetPrimitiveSizeForType(t)
           A  == SomeArray(t)
           b  == StoreAs(t, A.bytes, 0, Bare(w))
           B  == [A EXCEPT !.bytes = b]
           H  == HeapOf(A)
           G  == HeapOf(B)
           R  == Registers(w)
           R2 == [R EXCEPT ![3] = LoadAs(t, b, 0)]
           R3 == SetBits(R2, 1, 1)
           R4 == [R3 EXCEPT ![2] = LoadAs(t, b, n)]
           i1 == Ins("ARRAYSET", 0, 1, 2, 0)
           i2 == Ins("ARRAYGET", 3, 0, 1, 0)
           i3 == Ins("INC", 1, 0, 0, 1)
           i4 == Ins("ARRAYGET", 2, 0, 1, 0)
<1>1. n \in {1, 2, 4, 8} /\ 0 * n = 0 /\ 1 * n = n
  <2>1. Rank(t) <= Rank(t)
    BY TypeRanks
  <2>2. n \in {1, 2, 4, 8}
    BY <2>1, SizesDivide DEF Size
  <2> HIDE DEF n
  <2> QED BY <2>2
<1>2. /\ A.kind = "Array" /\ A.type = t /\ A.length = 2 /\ A.bytes = [k \in 1 .. (2 * n) |-> 0]
      /\ B.kind = "Array" /\ B.type = t /\ B.length = 2 /\ B.bytes = b
  BY DEF SomeArray
<1>3. BytesAt(b, 0, n) = w % 2^(ByteBits * n) /\ BytesAt(b, n, n) = 0
  <2>1. Bare(w).ul \in Word /\ Bare(w).ul = w
    BY Parts
  <2>2. b = StoreAs(t, [k \in 1 .. (2 * GetPrimitiveSizeForType(t)) |-> 0], 0, Bare(w))
    BY <1>2
  <2> HIDE DEF b
  <2> QED BY <2>1, <2>2, WordStored
<1>4. /\ DOMAIN R = 0 .. 3 /\ R[0] = Reference(1) /\ R[1] = Bare(0) /\ R[2] = Bare(w)
  BY RegistersAre
<1>5. DOMAIN H = {1} /\ H[1] = A /\ DOMAIN G = {1} /\ G[1] = B
  BY DEF HeapOf
<1>6. /\ i1.op = "ARRAYSET" /\ i1.a = 0 /\ i1.b = 1 /\ i1.c = 2
      /\ i2.op = "ARRAYGET" /\ i2.a = 3 /\ i2.b = 0 /\ i2.c = 1
      /\ i3.op = "INC" /\ i3.a = 1 /\ i3.imm = 1
      /\ i4.op = "ARRAYGET" /\ i4.a = 2 /\ i4.b = 0 /\ i4.c = 1
  BY Parts
<1>7. /\ DOMAIN R2 = 0 .. 3 /\ R2[0] = Reference(1) /\ R2[1] = Bare(0) /\ R2[3] = LoadAs(t, b, 0)
  <2> HIDE DEF b, R
  <2> QED BY <1>4
<1>8. [H EXCEPT ![1].bytes = b] = G
  <2>1. [H EXCEPT ![1].bytes = b] = [o \in {1} |-> [A EXCEPT !.bytes = b]]
    <3> HIDE DEF A, b
    <3> QED BY <1>5 DEF HeapOf
  <2> QED BY <2>1 DEF HeapOf
<1> HIDE DEF A, B, G, H, R, b, i1, i2, i3, i4, n, R2
<1>9. /\ DOMAIN R3 = 0 .. 3 /\ R3[0] = Reference(1) /\ R3[1] = Bare(1) /\ R3[3] = LoadAs(t, b, 0)
  <2>1. 0 \in 0 .. 3 /\ 1 \in 0 .. 3 /\ 3 \in 0 .. 3 /\ 0 # 1 /\ 3 # 1
    OBVIOUS
  <2> QED BY <1>7, <2>1, BitsSet
<1> HIDE DEF R3
<1>10. R4[3] = LoadAs(t, b, 0) /\ R4[2] = LoadAs(t, b, n)
  BY <1>9
<1> HIDE DEF R4
<1>11. Gives(i1, R, H, R, G)
  <2>1. R[0].ul = 1 /\ R[1].ul = 0
    BY <1>4, Parts
  <2>2. \A body : Guarded(1, "Array", R, H, body) = body
    BY <1>2, <1>5 DEF Guarded
  <2>3. Inside(A, 0) /\ Element(A, 0) = 0
    BY <1>1, <1>2 DEF Inside, Element, n
  <2>4. ArraySet(i1, R, H) = Outcome("Continue", R, [H EXCEPT ![1].bytes = StoreAs(t, @, 0, Bare(w))])
    <3>1. ArraySet(i1, R, H)
             = Guarded(1, "Array", R, H,
                       IF Inside(H[1], 0)
                       THEN Outcome("Continue", R,
                                    [H EXCEPT ![1].bytes = StoreAs(H[1].type, @, Element(H[1], 0), R[2])])
                       ELSE Outcome("Undefined", R, H))
      BY <1>6, <2>1 DEF ArraySet
    <3>2. H[1] = A /\ A.type = t /\ R[2] = Bare(w)
      BY <1>2, <1>4, <1>5
    <3> QED BY <2>2, <2>3, <3>1, <3>2
  <2>5. [H EXCEPT ![1].bytes = StoreAs(t, @, 0, Bare(w))] = [H EXCEPT ![1].bytes = b]
    BY <1>5 DEF b
  <2>6. Interpret(i1, R, H, <<>>, 2) = ArraySet(i1, R, H)
    BY <1>6, Handled
  <2> QED BY <1>8, <2>4, <2>5, <2>6 DEF Gives
<1>12. ASSUME NEW regs, NEW i, i \in {0, 1}, regs[0] = Reference(1), regs[1] = Bare(i),
              NEW r, NEW ins, ins.op = "ARRAYGET", ins.a = r, ins.b = 0, ins.c = 1
       PROVE  Gives(ins, regs, G, [regs EXCEPT ![r] = LoadAs(t, b, i * n)], G)
  <2>1. regs[0].ul = 1 /\ regs[1].ul = i
    BY <1>12, Parts
  <2>2. \A body : Guarded(1, "Array", regs, G, body) = body
    BY <1>2, <1>5 DEF Guarded
  <2>3. Inside(B, i) /\ Element(B, i) = i * n
    BY <1>1, <1>2, <1>12 DEF Inside, Element, n
  <2>4. ArrayGet(ins, regs, G) = Outcome("Continue", [regs EXCEPT ![r] = LoadAs(t, b, i * n)], G)
    <3>1. ArrayGet(ins, regs, G)
             = Guarded(1, "Array", regs, G,
                       IF Inside(G[1], i)
                       THEN Outcome("Continue",
                                    [regs EXCEPT ![r] = LoadAs(G[1].type, G[1].bytes, Element(G[1], i))], G)
                       ELSE Outcome("Undefined", regs, G))
      BY <1>12, <2>1 DEF ArrayGet
    <3>2. G[1] = B /\ B.type = t /\ B.bytes = b
      BY <1>2, <1>5
    <3> QED BY <2>2, <2>3, <3>1, <3>2
  <2>5. Interpret(ins, regs, G, <<>>, 2) = ArrayGet(ins, regs, G)
    BY <1>12, Handled
  <2> QED BY <2>4, <2>5 DEF Gives
<1>13. Gives(i2, R, G, R2, G)
  <2>1. Gives(i2, R, G, [R EXCEPT ![3] = LoadAs(t, b, 0 * n)], G)
    BY <1>4, <1>6, <1>12
  <2> QED BY <1>1, <2>1 DEF R2
<1>14. Gives(i4, R3, G, R4, G)
  <2>1. Gives(i4, R3, G, [R3 EXCEPT ![2] = LoadAs(t, b, 1 * n)], G)
    BY <1>6, <1>9, <1>12
  <2> QED BY <1>1, <2>1 DEF R4
<1>15. Gives(i3, R2, G, R3, G)
  <2>1. Step(i3, R2) = SetBits(R2, 1, Wrap(0 + 1))
    BY <1>6, <1>7, Parts DEF Step
  <2>2. Wrap(0 + 1) = 1
    <3>1. 1 \in Word /\ 0 + 1 = 1
      BY WidthFacts DEF Word
    <3> QED BY <3>1, SignedFacts
  <2>3. Interpret(i3, R2, G, <<>>, 2) = Outcome("Continue", Step(i3, R2), G)
    BY <1>6, Handled
  <2> QED BY <2>1, <2>2, <2>3 DEF Gives, R3
<1>16. After(<<i1, i2, i3, i4>>, R, H) = Outcome("Continue", R4, G)
  BY <1>11, <1>13, <1>14, <1>15, RunFour
<1>17. R4[3] = [isObject |-> t = "Reference", ul |-> w % 2^(ByteBits * n)] /\ R4[2].ul = 0
  BY <1>3, <1>10 DEF LoadAs, n
<1>18. After(<<i1, i2, i3, i4>>, R, H).regs = R4
  BY <1>16, Parts
<1> QED BY <1>17, <1>18 DEF A, H, R, i1, i2, i3, i4, n

(* The lowest byte, put through the sign that a char has.                  *)
LEMMA ByteComesBack ==
    ASSUME NEW w \in Word
    PROVE  LET x == Low(w, ByteBits)
               y == Wrap(SignedAs(x, ByteBits))
           IN  x \in Nat /\ Low(y, ByteBits) = x
<1> DEFINE p == 2^ByteBits
           m == 2^LongBits
           x == w % p
           n == SignedAs(x, ByteBits)
<1>1. ByteBits \in Nat \ {0} /\ LongBits = 7 * ByteBits + ByteBits /\ 7 * ByteBits \in Nat
  BY ByteBitsAssumption DEF LongBits
<1>2. p \in Nat \ {0}
  BY <1>1, PowersDouble
<1>3. PICK c \in Nat \ {0} : m = c * p
  <2>1. 2^(7 * ByteBits + ByteBits) = 2^(7 * ByteBits) * p /\ 2^(7 * ByteBits) \in Nat \ {0}
    BY <1>1, PowersAdd, PowersDouble
  <2> QED BY <1>1, <2>1
<1>4. x \in 0 .. (p - 1)
  <2>1. w \in Nat
    BY WidthFacts DEF Word
  <2> HIDE DEF p
  <2> QED BY <1>2, <2>1
<1>5. x % p = x
  <2> HIDE DEF p, x
  <2>1. x \in Nat /\ x < p
    BY <1>2, <1>4
  <2> QED BY <1>2, <2>1, SmallQuotient
<1>6. n = x \/ n = x - p
  <2> HIDE DEF x
  <2> QED BY <1>5 DEF SignedAs, Low
<1>7. p <= m /\ m \in Nat \ {0} /\ (c - 1) \in Nat /\ m - p = (c - 1) * p
  <2> HIDE DEF p, m
  <2> QED BY <1>2, <1>3
<1>8. (n % m) % p = x
  <2> HIDE DEF p, m, x, n
  <2>1. CASE n = x
    <3>1. x \in Nat /\ x < m
      BY <1>2, <1>4, <1>7
    <3>2. x % m = x
      BY <1>7, <3>1, SmallQuotient
    <3> QED BY <1>5, <2>1, <3>2
  <2>2. CASE n = x - p
    <3> DEFINE r == (c - 1) * p + x
    <3>1. r = n + m /\ r \in Nat /\ r < m /\ \E q \in Int : n = q * m + r
      <4>1. r = n + m /\ r \in Nat /\ r < m
        BY <1>2, <1>4, <1>7, <2>2
      <4>2. (-1) \in Int /\ n = (-1) * m + r
        BY <1>2, <1>4, <1>7, <2>2
      <4> QED BY <4>1, <4>2
    <3>2. n % m = r
      <4> HIDE DEF r
      <4>1. PICK q \in Int : n = q * m + r
        BY <3>1
      <4>2. (q * m + r) % m = r
        BY <1>7, <3>1, QuotientOf
      <4> QED BY <4>1, <4>2
    <3>3. r % p = x
      <4>1. x \in Nat /\ x < p /\ c - 1 \in Int
        BY <1>2, <1>4
      <4> QED BY <1>2, <4>1, QuotientOf
    <3> QED BY <3>2, <3>3
  <2> QED BY <1>6, <2>1, <2>2
<1>9. x \in Nat
  <2> HIDE DEF p, x
  <2> QED BY <1>2, <1>4
<1> QED BY <1>8, <1>9 DEF Low, Wrap

(* One byte read is that byte.                                             *)
LEMMA OneByteRead ==
    ASSUME NEW b, NEW o, b[o + 0 + 1] \in Nat
    PROVE  BytesAt(b, o, 1) = b[o + 0 + 1]
<1> DEFINE f == [k \in 0 .. (1 - 1) |-> b[o + k + 1] * 2^(ByteBits * k)]
           v == b[o + 0 + 1]
           one == 2^0
<1>1. 0 .. (1 - 1) = {} \union {0}
  OBVIOUS
<1>2. f[0] = v * one
  <2>1. ByteBits * 0 = 0
    BY ByteBitsAssumption
  <2>2. 0 \in 0 .. (1 - 1)
    OBVIOUS
  <2>3. f[0] = b[o + 0 + 1] * 2^(ByteBits * 0)
    BY <2>2
  <2> QED BY <2>1, <2>3
<1>3. one = 1
  BY NoPower
<1>4. BytesAt(b, o, 1) = Total(f, 0 .. (1 - 1))
  BY ReadIsTotal
<1> HIDE DEF f, v, one
<1>5. f[0] = v /\ v \in Nat
  BY <1>2, <1>3 DEF v
<1>6. Total(f, {} \union {0}) = f[0] + Total(f, {})
  <2>1. IsFiniteSet({}) /\ 0 \notin {} /\ \A x \in {} \union {0} : f[x] \in Int
    BY <1>5, FS_EmptySet
  <2> QED BY <2>1, SumWith
<1>7. Total(f, {}) = 0
  BY SumOfNone
<1>8. BytesAt(b, o, 1) = v
  BY <1>1, <1>4, <1>5, <1>6, <1>7
<1> QED BY <1>8 DEF v

LEMMA RunSeven ==
    ASSUME NEW a, NEW b, NEW c, NEW d, NEW e, NEW f, NEW g, NEW r0, NEW h0, NEW r1, NEW h1,
           NEW r2, NEW h2, NEW r3, NEW h3, NEW r4, NEW h4, NEW r5, NEW h5, NEW r6, NEW h6,
           NEW r7, NEW h7,
           Gives(a, r0, h0, r1, h1), Gives(b, r1, h1, r2, h2),
           Gives(c, r2, h2, r3, h3), Gives(d, r3, h3, r4, h4),
           Gives(e, r4, h4, r5, h5), Gives(f, r5, h5, r6, h6), Gives(g, r6, h6, r7, h7)
    PROVE  After(<<a, b, c, d, e, f, g>>, r0, h0) = Outcome("Continue", r7, h7)
<1> DEFINE p == <<a, b, c, d, e, f, g>>
           o(r, h) == Outcome("Continue", r, h)
           st == <<o(r0, h0), o(r1, h1), o(r2, h2), o(r3, h3), o(r4, h4), o(r5, h5), o(r6, h6),
                   o(r7, h7)>>
<1>1. Len(p) = 7 /\ p[1] = a /\ p[2] = b /\ p[3] = c /\ p[4] = d /\ p[5] = e /\ p[6] = f /\ p[7] = g
      /\ 1 .. 7 = {1, 2, 3, 4, 5, 6, 7}
      /\ st[1] = o(r0, h0) /\ st[2] = o(r1, h1) /\ st[3] = o(r2, h2) /\ st[4] = o(r3, h3)
      /\ st[5] = o(r4, h4) /\ st[6] = o(r5, h5) /\ st[7] = o(r6, h6) /\ st[8] = o(r7, h7)
  OBVIOUS
<1> HIDE DEF p, st
<1>2. \A r, h : o(r, h).regs = r /\ o(r, h).heap = h
  BY Parts
<1>3. /\ Interpret(a, r0, h0, <<>>, 2) = o(r1, h1) /\ Interpret(b, r1, h1, <<>>, 2) = o(r2, h2)
      /\ Interpret(c, r2, h2, <<>>, 2) = o(r3, h3) /\ Interpret(d, r3, h3, <<>>, 2) = o(r4, h4)
      /\ Interpret(e, r4, h4, <<>>, 2) = o(r5, h5) /\ Interpret(f, r5, h5, <<>>, 2) = o(r6, h6)
      /\ Interpret(g, r6, h6, <<>>, 2) = o(r7, h7)
  BY DEF Gives
<1>4. st[1] = Outcome("Continue", r0, h0) /\ Len(p) \in Nat
  BY <1>1
<1> HIDE DEF o
<1>5. \A k \in 1 .. Len(p) : st[k + 1] = Interpret(p[k], st[k].regs, st[k].heap, <<>>, 2)
  BY <1>1, <1>2, <1>3
<1>6. After(p, r0, h0) = st[Len(p) + 1]
  BY <1>4, <1>5, RunSome
<1> QED BY <1>1, <1>6 DEF p, o

(* A register that is given a word keeps its tag, and the others stay.     *)
LEMMA WordSet ==
    ASSUME NEW regs, DOMAIN regs = 0 .. 3, NEW r \in 0 .. 3, NEW v, NEW new, new = SetBits(regs, r, v)
    PROVE  /\ DOMAIN new = 0 .. 3
           /\ \A x : regs[r] = Bare(x) => new[r] = Bare(v)
           /\ \A x : regs[r] = Reference(x) => new[r] = Reference(v)
           /\ 0 # r => new[0] = regs[0]
           /\ 1 # r => new[1] = regs[1]
           /\ 2 # r => new[2] = regs[2]
           /\ 3 # r => new[3] = regs[3]
<1>1. r \in DOMAIN regs
  OBVIOUS
<1>2. 0 \in DOMAIN regs /\ 1 \in DOMAIN regs /\ 2 \in DOMAIN regs /\ 3 \in DOMAIN regs
  OBVIOUS
<1>3. /\ DOMAIN SetBits(regs, r, v) = DOMAIN regs
      /\ \A x : /\ regs[r] = Bare(x) => SetBits(regs, r, v)[r] = Bare(v)
                /\ regs[r] = Reference(x) => SetBits(regs, r, v)[r] = Reference(v)
      /\ \A k \in DOMAIN regs : k # r => SetBits(regs, r, v)[k] = regs[k]
  BY <1>1, BitsSet
<1> QED BY <1>2, <1>3

(* A string's characters, read one by one or from the array made of it.    *)
LEMMA StringsAreKept ==
    ASSUME NEW w \in Word
    PROVE  StringsKeep(w)
<1> DEFINE x  == Low(w, ByteBits)
           y  == Wrap(SignedAs(x, ByteBits))
           S  == SomeString(w)
           A  == [S EXCEPT !.kind = "Array"]
           H  == HeapOf(S)
           G  == [o \in {1} \union {2} |-> IF o = 2 THEN A ELSE H[o]]
           R  == Registers(w)
           R1 == SetBits(R, 1, 1)
           R2 == SetBits(R1, 2, y)
           R3 == SetBits(R2, 2, Low(y, ByteBits))
           R4 == SetBits(R3, 3, 2)
           R5 == [R4 EXCEPT ![1] = LoadAs("UByte", S.bytes, 1)]
           R6 == SetBits(R5, 0, 2)
           R7 == SetBits(R6, 3, 2)
           i1 == Ins("INC", 1, 0, 0, 1)
           i2 == Ins("STRGET", 2, 0, 1, 0)
           i3 == Ins("ZEX8", 2, 2, 0, 0)
           i4 == Ins("STR2ARRAY", 3, 0, 0, 0)
           i5 == Ins("ARRAYGET", 1, 3, 1, 0)
           i6 == Ins("STRLENGTH", 0, 0, 0, 0)
           i7 == Ins("ARRAYLENGTH", 3, 3, 0, 0)
<1>1. x \in Nat /\ Low(y, ByteBits) = x
  BY ByteComesBack
<1>2. /\ S.kind = "String" /\ S.type = "UByte" /\ S.length = 2 /\ S.bytes = <<0, x>>
      /\ A.kind = "Array" /\ A.type = "UByte" /\ A.length = 2 /\ A.bytes = S.bytes
  <2> HIDE DEF x
  <2> QED BY DEF SomeString, x
<1>3. DOMAIN H = {1} /\ H[1] = S /\ DOMAIN G = {1, 2} /\ G[1] = S /\ G[2] = A
  <2>1. DOMAIN H = {1} /\ H[1] = S
    BY DEF HeapOf
  <2> HIDE DEF H, S, A
  <2> QED BY <2>1
<1>4. /\ DOMAIN R = 0 .. 3 /\ R[0] = Reference(1) /\ R[1] = Bare(0) /\ R[2] = Bare(w)
      /\ R[3] = Reference(0)
  BY RegistersAre
<1>5. /\ i1.op = "INC" /\ i1.a = 1 /\ i1.imm = 1
      /\ i2.op = "STRGET" /\ i2.a = 2 /\ i2.b = 0 /\ i2.c = 1
      /\ i3.op = "ZEX8" /\ i3.a = 2 /\ i3.b = 2
      /\ i4.op = "STR2ARRAY" /\ i4.a = 3 /\ i4.b = 0
      /\ i5.op = "ARRAYGET" /\ i5.a = 1 /\ i5.b = 3 /\ i5.c = 1
      /\ i6.op = "STRLENGTH" /\ i6.a = 0 /\ i6.b = 0
      /\ i7.op = "ARRAYLENGTH" /\ i7.a = 3 /\ i7.b = 3
  BY Parts
<1>6. LoadAs("UByte", S.bytes, 1).ul = x
  <2>1. LoadAs("UByte", S.bytes, 1).ul = BytesAt(S.bytes, 1, 1)
    BY DEF LoadAs, GetPrimitiveSizeForType
  <2>2. S.bytes[1 + 0 + 1] = x
    <3> HIDE DEF x, S
    <3> QED BY <1>2
  <2>3. BytesAt(S.bytes, 1, 1) = S.bytes[1 + 0 + 1]
    <3> HIDE DEF x, S
    <3> QED BY <1>1, <2>2, OneByteRead
  <2> HIDE DEF x, S
  <2> QED BY <2>1, <2>2, <2>3
<1>7. 0 \in 0 .. 3 /\ 1 \in 0 .. 3 /\ 2 \in 0 .. 3 /\ 3 \in 0 .. 3
  OBVIOUS
<1> DEFINE s == S.bytes[2]
<1>8. s = x
  <2> HIDE DEF x, S
  <2> QED BY <1>2
<1> HIDE DEF x, y, S, A, H, G, R, i1, i2, i3, i4, i5, i6, i7
<1>9. /\ DOMAIN R1 = 0 .. 3 /\ R1[0] = Reference(1) /\ R1[1] = Bare(1) /\ R1[2] = Bare(w)
      /\ R1[3] = Reference(0)
  <2>1. DOMAIN R = 0 .. 3 /\ 1 \in 0 .. 3
    BY <1>7, <1>4
  <2>2. R1 = SetBits(R, 1, 1)
    OBVIOUS
  <2> HIDE DEF R1
  <2> QED BY <1>4, <2>1, <2>2, WordSet
<1> HIDE DEF R1
<1>10. /\ DOMAIN R2 = 0 .. 3 /\ R2[0] = Reference(1) /\ R2[1] = Bare(1) /\ R2[2] = Bare(y)
       /\ R2[3] = Reference(0)
  <2>1. DOMAIN R1 = 0 .. 3 /\ 2 \in 0 .. 3
    BY <1>7, <1>9
  <2>2. R2 = SetBits(R1, 2, y)
    OBVIOUS
  <2> HIDE DEF R2
  <2> QED BY <1>9, <2>1, <2>2, WordSet
<1> HIDE DEF R2
<1>11. /\ DOMAIN R3 = 0 .. 3 /\ R3[0] = Reference(1) /\ R3[1] = Bare(1) /\ R3[2] = Bare(x)
       /\ R3[3] = Reference(0)
  <2>1. DOMAIN R2 = 0 .. 3 /\ 2 \in 0 .. 3
    BY <1>7, <1>10
  <2>2. R3 = SetBits(R2, 2, Low(y, ByteBits))
    OBVIOUS
  <2> HIDE DEF R3
  <2> QED BY <1>1, <1>10, <2>1, <2>2, WordSet
<1> HIDE DEF R3
<1>12. /\ DOMAIN R4 = 0 .. 3 /\ R4[0] = Reference(1) /\ R4[1] = Bare(1) /\ R4[2] = Bare(x)
       /\ R4[3] = Reference(2)
  <2>1. DOMAIN R3 = 0 .. 3 /\ 3 \in 0 .. 3
    BY <1>7, <1>11
  <2>2. R4 = SetBits(R3, 3, 2)
    OBVIOUS
  <2> HIDE DEF R4
  <2> QED BY <1>11, <2>1, <2>2, WordSet
<1> HIDE DEF R4
<1>13. /\ DOMAIN R5 = 0 .. 3 /\ R5[0] = Reference(1) /\ R5[1].ul = x /\ R5[2] = Bare(x)
       /\ R5[3] = Reference(2)
  BY <1>6, <1>7, <1>12
<1> HIDE DEF R5
<1>14. /\ DOMAIN R6 = 0 .. 3 /\ R6[0] = Reference(2) /\ R6[1].ul = x /\ R6[2] = Bare(x)
       /\ R6[3] = Reference(2)
  <2>1. DOMAIN R5 = 0 .. 3 /\ 0 \in 0 .. 3
    BY <1>7, <1>13
  <2>2. R6 = SetBits(R5, 0, 2)
    OBVIOUS
  <2> HIDE DEF R6
  <2>3. DOMAIN R6 = 0 .. 3 /\ \A o : R5[0] = Reference(o) => R6[0] = Reference(2)
    BY <2>1, <2>2, WordSet
  <2>4. R6[1] = R5[1] /\ R6[2] = R5[2] /\ R6[3] = R5[3]
    BY <2>1, <2>2, WordSet
  <2> QED BY <1>13, <2>3, <2>4
<1> HIDE DEF R6
<1>15. /\ R7[0] = Reference(2) /\ R7[1].ul = x /\ R7[2] = Bare(x) /\ R7[3] = Reference(2)
  <2>1. DOMAIN R6 = 0 .. 3 /\ 3 \in 0 .. 3
    BY <1>7, <1>14
  <2>2. R7 = SetBits(R6, 3, 2)
    OBVIOUS
  <2> HIDE DEF R7
  <2>3. DOMAIN R7 = 0 .. 3 /\ \A o : R6[3] = Reference(o) => R7[3] = Reference(2)
    BY <2>1, <2>2, WordSet
  <2>4. R7[0] = R6[0] /\ R7[1] = R6[1] /\ R7[2] = R6[2]
    BY <2>1, <2>2, WordSet
  <2> QED BY <1>14, <2>3, <2>4
<1> HIDE DEF R7
<1>16. Gives(i1, R, H, R1, H)
  <2>1. Step(i1, R) = SetBits(R, 1, Wrap(0 + 1))
    BY <1>4, <1>5, Parts DEF Step
  <2>2. Wrap(0 + 1) = 1
    <3>1. 1 \in Word /\ 0 + 1 = 1
      BY WidthFacts DEF Word
    <3> QED BY <3>1, SignedFacts
  <2>3. Interpret(i1, R, H, <<>>, 2) = Outcome("Continue", Step(i1, R), H)
    BY <1>5, Handled
  <2> QED BY <2>1, <2>2, <2>3 DEF Gives, R1
<1>17. Gives(i2, R1, H, R2, H)
  <2>1. R1[0].ul = 1 /\ R1[1].ul = 1
    BY <1>9, Parts
  <2>2. \A body : Guarded(1, "String", R1, H, body) = body
    BY <1>2, <1>3 DEF Guarded
  <2>3. StringGet(i2, R1, H)
          = Guarded(1, "String", R1, H,
                    IF 1 < H[1].length
                    THEN Outcome("Continue",
                                 SetBits(R1, 2, Wrap(SignedAs(H[1].bytes[1 + 1], ByteBits))), H)
                    ELSE Outcome("Undefined", R1, H))
    BY <1>5, <2>1 DEF StringGet
  <2>4. H[1] = S /\ S.length = 2 /\ 1 < 2 /\ 1 + 1 = 2
    BY <1>2, <1>3
  <2>5. StringGet(i2, R1, H) = Outcome("Continue", SetBits(R1, 2, y), H)
    BY <1>8, <2>2, <2>3, <2>4 DEF y
  <2>6. Interpret(i2, R1, H, <<>>, 2) = StringGet(i2, R1, H)
    BY <1>5, Handled
  <2> QED BY <2>5, <2>6 DEF Gives, R2
<1>18. Gives(i3, R2, H, R3, H)
  <2>1. R2[2].ul = y
    BY <1>10, Parts
  <2>2. Interpret(i3, R2, H, <<>>, 2)
          = Outcome("Continue", SetBits(R2, i3.a, Low(R2[i3.b].ul, ByteBits)), H)
    BY <1>5, Handled
  <2> QED BY <1>5, <2>1, <2>2 DEF Gives, R3
<1>19. Gives(i4, R3, H, R4, G)
  <2>1. R3[0].ul = 1
    BY <1>11, Parts
  <2>2. \A body : Guarded(1, "String", R3, H, body) = body
    BY <1>2, <1>3 DEF Guarded
  <2>3. StringToArray(i4, R3, H, 2)
          = Guarded(1, "String", R3, H,
                    Outcome("Continue", SetBits(R3, 3, 2),
                            [o \in DOMAIN H \union {2} |->
                                IF o = 2 THEN [H[1] EXCEPT !.kind = "Array"] ELSE H[o]]))
    BY <1>5, <2>1 DEF StringToArray
  <2>4. [o \in DOMAIN H \union {2} |-> IF o = 2 THEN [H[1] EXCEPT !.kind = "Array"] ELSE H[o]] = G
    BY <1>3 DEF A, G
  <2>5. Interpret(i4, R3, H, <<>>, 2) = StringToArray(i4, R3, H, 2)
    BY <1>5, Handled
  <2> QED BY <2>2, <2>3, <2>4, <2>5 DEF Gives, R4
<1>20. Gives(i5, R4, G, R5, G)
  <2>1. R4[3].ul = 2 /\ R4[1].ul = 1
    BY <1>12, Parts
  <2>2. \A body : Guarded(2, "Array", R4, G, body) = body
    BY <1>2, <1>3 DEF Guarded
  <2>3. ArrayGet(i5, R4, G)
          = Guarded(2, "Array", R4, G,
                    IF Inside(G[2], 1)
                    THEN Outcome("Continue",
                                 [R4 EXCEPT ![1] = LoadAs(G[2].type, G[2].bytes, Element(G[2], 1))], G)
                    ELSE Outcome("Undefined", R4, G))
    BY <1>5, <2>1 DEF ArrayGet
  <2>4. Inside(A, 1) /\ Element(A, 1) = 1
    BY <1>2 DEF Inside, Element, GetPrimitiveSizeForType
  <2>5. G[2] = A /\ A.type = "UByte" /\ A.bytes = S.bytes
    BY <1>2, <1>3
  <2>6. ArrayGet(i5, R4, G) = Outcome("Continue", R5, G)
    BY <2>2, <2>3, <2>4, <2>5 DEF R5
  <2>7. Interpret(i5, R4, G, <<>>, 2) = ArrayGet(i5, R4, G)
    BY <1>5, Handled
  <2> QED BY <2>6, <2>7 DEF Gives
<1>21. Gives(i6, R5, G, R6, G)
  <2>1. R5[0].ul = 1
    BY <1>13, Parts
  <2>2. \A body : Guarded(1, "String", R5, G, body) = body
    BY <1>2, <1>3 DEF Guarded
  <2>3. Length(i6, "String", R5, G)
          = Guarded(1, "String", R5, G, Outcome("Continue", SetBits(R5, 0, G[1].length), G))
    BY <1>5, <2>1 DEF Length
  <2>4. G[1].length = 2
    BY <1>2, <1>3
  <2>5. Interpret(i6, R5, G, <<>>, 2) = Length(i6, "String", R5, G)
    BY <1>5, Handled
  <2> QED BY <2>2, <2>3, <2>4, <2>5 DEF Gives, R6
<1>22. Gives(i7, R6, G, R7, G)
  <2>1. R6[3].ul = 2
    BY <1>14, Parts
  <2>2. \A body : Guarded(2, "Array", R6, G, body) = body
    BY <1>2, <1>3 DEF Guarded
  <2>3. Length(i7, "Array", R6, G)
          = Guarded(2, "Array", R6, G, Outcome("Continue", SetBits(R6, 3, G[2].length), G))
    BY <1>5, <2>1 DEF Length
  <2>4. G[2].length = 2
    BY <1>2, <1>3
  <2>5. Interpret(i7, R6, G, <<>>, 2) = Length(i7, "Array", R6, G)
    BY <1>5, Handled
  <2> QED BY <2>2, <2>3, <2>4, <2>5 DEF Gives, R7
<1>23. After(<<i1, i2, i3, i4, i5, i6, i7>>, R, H) = Outcome("Continue", R7, G)
  BY <1>16, <1>17, <1>18, <1>19, <1>20, <1>21, <1>22, RunSeven
<1>24. After(<<i1, i2, i3, i4, i5, i6, i7>>, R, H).regs = R7
  BY <1>23, Parts
<1>25. R7[1].ul = R7[2].ul /\ R7[0].ul = R7[3].ul
  BY <1>15, Parts
<1> QED BY <1>24, <1>25 DEF StringsKeep, H, R, S, i1, i2, i3, i4, i5, i6, i7

(* Whatever word or floating-point number a register holds, and however    *)
(* wide a byte is: shifts and conversions give the nearest integer, what   *)
(* is cut comes back by extension, and values go through arrays, strings,  *)
(* moves and futures unchanged.                                            *)
THEOREM InstructionsAreExact == AllSpec => []InstructionsExact
<1>1. ProblemInv /\ UNCHANGED problem => ProblemInv'
  BY DEF ProblemInv
<1>2. ProblemInv => InstructionsExact
  <2> SUFFICES ASSUME ProblemInv PROVE InstructionsExact
    OBVIOUS
  <2>1. ASSUME problem.kind = "word"
        PROVE  /\ ShiftsExactly(problem.word) /\ ExtendsBack(problem.word)
               /\ ArraysKeep(problem.word) /\ StringsKeep(problem.word)
               /\ MovesKeep(problem.word) /\ FuturesAnswer(problem.word)
    <3>1. problem.word \in Word
      BY <2>1, WordsAssumption DEF ProblemInv
    <3> QED BY <3>1, ShiftsAreExact, ExtensionsAreExact, ArraysAreKept, StringsAreKept,
               MovesAreKept, FuturesAreAnswered
  <2>2. ASSUME problem.kind = "float"
        PROVE  ConvertsExactly(problem.float.format, problem.float.fp)
    <3>1. problem.float \in Floats
      BY <2>2 DEF ProblemInv
    <3> QED BY <3>1, FloatsAssumption, ConversionsAreExact
  <2> QED BY <2>1, <2>2 DEF InstructionsExact
<1> QED BY <1>1, <1>2, ProblemStarts, ProblemStays, PTL DEF AllSpec

=============================================================================
