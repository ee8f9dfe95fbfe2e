-------------------------- MODULE OldGenerationProofs --------------------------
(***************************************************************************)
(* Proofs about the old generation, for regions of any size and number,    *)
(* objects of any sizes, and promotions at any point of a collection.      *)
(***************************************************************************)
EXTENDS OldGeneration, TLAPS

-----------------------------------------------------------------------------
(* The inductive invariant, in parts.                                      *)

Cell == [size : 0 .. RegionSize, mark : {0, 1}, heapId : {"none", "NURSERY", "OLD_GEN"}]

Memory == [0 .. (RegionSize - 1) -> Cell]

Region == [id : Nat \ {0}, live : Int, allocPointer : 0 .. RegionSize,
           memory : Memory]

(* Whole objects fill the memory of a region up to address end: at its     *)
(* start and behind every object there is one, and none inside of another. *)
FilledTo(memory, end) ==
    /\ end > 0 => memory[0].size > 0
    /\ \A a \in 0 .. (end - 1) : memory[a].size > 0 =>
          /\ a + memory[a].size <= end
          /\ \A b \in (a + 1) .. (a + memory[a].size - 1) : memory[b].size = 0
          /\ a + memory[a].size < end => memory[a + memory[a].size].size > 0

Filled(r) == FilledTo(r.memory, r.allocPointer)

(* The regions are numbered from the end of the chain.                     *)
ChainOK(chain) ==
    /\ chain \in Seq(Region)
    /\ \A k \in 1 .. Len(chain) : chain[k].id = Len(chain) + 1 - k
    /\ \A k \in 1 .. Len(chain) : Filled(chain[k])

(* Address a of region r is that of an object, or behind the last one.     *)
OnObject(r, a) ==
    \/ a = r.allocPointer
    \/ a \in 0 .. (r.allocPointer - 1) /\ r.memory[a].size > 0

SweepStands ==
    phase = "Sweep" =>
        /\ at \in [region : 0 .. Len(regions), address : 0 .. RegionSize]
        /\ at.region # 0 => OnObject(Swept, at.address)

ShrinkStands == phase = "Shrink" => at.region \in 0 .. Len(regions)

IInv == /\ ChainOK(regions) /\ regions # <<>>
        /\ allocRegion \in 1 .. Len(regions)
        /\ used \in Int /\ epoch \in {0, 1}
        /\ SweepStands /\ ShrinkStands

-----------------------------------------------------------------------------
(* What the operators on the chain do.                                     *)

LEMMA NewRegionOK ==
    ASSUME NEW id \in Nat \ {0}
    PROVE  NewRegion(id) \in Region /\ NewRegion(id).id = id /\ Filled(NewRegion(id))
<1>1. RegionSize \in Nat \ {0}
  BY HeapAssumption
<1>2. Inside \in Cell
  BY <1>1 DEF Inside, Header, Cell
<1>3. [a \in 0 .. (RegionSize - 1) |-> Inside] \in [0 .. (RegionSize - 1) -> Cell]
  BY <1>2
<1>4. NewRegion(id) \in Region
  BY <1>1, <1>3 DEF NewRegion, Region, Memory
<1>5. NewRegion(id).id = id /\ NewRegion(id).allocPointer = 0
  BY DEF NewRegion
<1>6. 0 .. (0 - 1) = {}
  OBVIOUS
<1> QED BY <1>4, <1>5, <1>6 DEF Filled, FilledTo

(* grow() puts new, empty regions in front.                                *)
LEMMA GrownOK ==
    ASSUME NEW chain, ChainOK(chain), NEW count \in Nat
    PROVE  /\ ChainOK(Grown(chain, count))
           /\ Len(Grown(chain, count)) = Len(chain) + count
           /\ \A k \in 1 .. Len(chain) : Grown(chain, count)[k + count] = chain[k]
<1> DEFINE n   == Len(chain)
           new == [k \in 1 .. count |-> NewRegion(n + count + 1 - k)]
           all == new \o chain
<1>1. chain \in Seq(Region) /\ n \in Nat
  BY DEF ChainOK
<1>2. Grown(chain, count) = all
  BY DEF Grown
<1> HIDE DEF n
<1>3. \A k \in 1 .. count : /\ n + count + 1 - k \in Nat \ {0}
                            /\ new[k] \in Region /\ Filled(new[k])
                            /\ new[k].id = n + count + 1 - k
  BY <1>1, NewRegionOK
<1>4. new \in Seq(Region) /\ Len(new) = count
  <2>1. new \in [1 .. count -> Region]
    BY <1>3
  <2> QED BY <2>1
<1> HIDE DEF new
<1>5. /\ all \in Seq(Region) /\ Len(all) = n + count
      /\ \A k \in 1 .. count : all[k] = new[k]
      /\ \A k \in 1 .. n : all[k + count] = chain[k]
  BY <1>1, <1>4 DEF n
<1>6. \A k \in 1 .. Len(all) : all[k].id = Len(all) + 1 - k /\ Filled(all[k])
  <2> SUFFICES ASSUME NEW k \in 1 .. (n + count)
               PROVE  all[k].id = n + count + 1 - k /\ Filled(all[k])
    BY <1>5
  <2>1. CASE k \in 1 .. count
    BY <1>3, <1>5, <2>1
  <2>2. CASE k \notin 1 .. count
    <3>1. k - count \in 1 .. n /\ (k - count) + count = k
      BY <1>1, <2>2
    <3>2. all[k] = chain[k - count]
      BY <1>5, <3>1
    <3>3. chain[k - count].id = n + 1 - (k - count) /\ Filled(chain[k - count])
      BY <3>1 DEF ChainOK, n
    <3> QED BY <1>1, <3>1, <3>2, <3>3
  <2> QED BY <2>1, <2>2
<1> HIDE DEF all
<1> QED BY <1>2, <1>5, <1>6 DEF ChainOK, n

(* createObject() puts an object behind the last one.                      *)
LEMMA FilledFurther ==
    ASSUME NEW old \in Memory, NEW mem \in Memory, NEW end \in Nat, NEW size \in Nat \ {0},
           FilledTo(old, end), end + size <= RegionSize,
           \A a \in 0 .. (end - 1) : mem[a] = old[a],
           mem[end].size = size,
           \A a \in (end + 1) .. (end + size - 1) : mem[a].size = 0
    PROVE  FilledTo(mem, end + size)
<1>1. RegionSize \in Nat \ {0}
  BY HeapAssumption
<1>2. \A a \in 0 .. (RegionSize - 1) : old[a].size \in Nat /\ mem[a].size \in Nat
  BY <1>1 DEF Memory, Cell
<1>3. mem[0].size > 0
  <2>1. CASE end = 0
    BY <2>1
  <2>2. CASE end # 0
    <3>1. 0 \in 0 .. (end - 1)
      BY <2>2
    <3> QED BY <3>1 DEF FilledTo
  <2> QED BY <2>1, <2>2
<1>4. ASSUME NEW a \in 0 .. (end + size - 1), mem[a].size > 0
      PROVE  /\ a + mem[a].size <= end + size
             /\ \A b \in (a + 1) .. (a + mem[a].size - 1) : mem[b].size = 0
             /\ a + mem[a].size < end + size => mem[a + mem[a].size].size > 0
  <2>1. CASE a = end
    BY <2>1
  <2>2. CASE a < end
    <3>1. PICK m \in Nat : m = mem[a].size
      BY <1>1, <1>2
    <3>2. a \in 0 .. (end - 1) /\ old[a].size = m /\ m > 0
      BY <1>4, <2>2, <3>1
    <3>3. /\ a + m <= end
          /\ \A b \in (a + 1) .. (a + m - 1) : old[b].size = 0
          /\ a + m < end => old[a + m].size > 0
      BY <3>2 DEF FilledTo
    <3>4. \A b \in (a + 1) .. (a + m - 1) : b \in 0 .. (end - 1)
      BY <3>2, <3>3
    <3>5. \A b \in (a + 1) .. (a + m - 1) : mem[b].size = 0
      BY <3>3, <3>4
    <3>6. mem[a + m].size > 0
      <4>1. CASE a + m = end
        BY <4>1
      <4>2. CASE a + m # end
        <5>1. a + m \in 0 .. (end - 1) /\ a + m < end
          BY <3>2, <3>3, <4>2
        <5> QED BY <3>3, <5>1
      <4> QED BY <4>1, <4>2
    <3> QED BY <3>1, <3>3, <3>5, <3>6
  <2>3. CASE a > end
    <3>1. a \in (end + 1) .. (end + size - 1)
      BY <2>3
    <3> QED BY <1>4, <3>1
  <2> QED BY <2>1, <2>2, <2>3
<1> QED BY <1>3, <1>4 DEF FilledTo

LEMMA PlaceOK ==
    ASSUME NEW chain, ChainOK(chain), NEW k \in 1 .. Len(chain), NEW size \in 1 .. RegionSize,
           Fits(chain[k], size), NEW header \in Cell, header.size = size
    PROVE  /\ ChainOK(Place(chain, k, size, header))
           /\ Len(Place(chain, k, size, header)) = Len(chain)
           /\ \A j \in 1 .. Len(chain) : \A a :
                  OnObject(chain[j], a) => OnObject(Place(chain, k, size, header)[j], a)
<1>1. chain \in Seq(Region) /\ Filled(chain[k]) /\ RegionSize \in Nat \ {0}
  BY HeapAssumption DEF ChainOK
<1>2. PICK old \in Region : old = chain[k]
  BY <1>1
<1>3. PICK end \in Nat, live \in Int, before \in Memory :
          old.allocPointer = end /\ old.live = live /\ old.memory = before
  BY <1>1 DEF Region
<1>4. end + size <= RegionSize /\ size \in Nat \ {0} /\ FilledTo(before, end)
  BY <1>1, <1>2, <1>3 DEF Fits, Filled
<1>5. Inside \in Cell /\ Inside.size = 0
  BY <1>1 DEF Inside, Header, Cell
<1>6. PICK mem \in Memory :
          mem = [a \in DOMAIN before |->
                    IF a = end THEN header
                    ELSE IF a \in end .. (end + size - 1) THEN Inside ELSE before[a]]
  <2> DEFINE mem == [a \in 0 .. (RegionSize - 1) |->
                        IF a = end THEN header
                        ELSE IF a \in end .. (end + size - 1) THEN Inside ELSE before[a]]
  <2>1. mem \in Memory /\ DOMAIN before = 0 .. (RegionSize - 1)
    BY <1>5 DEF Memory
  <2> QED BY <2>1
<1>7. /\ \A a \in 0 .. (end - 1) : mem[a] = before[a]
      /\ mem[end] = header
      /\ \A a \in (end + 1) .. (end + size - 1) : mem[a] = Inside
  <2>1. mem = [a \in 0 .. (RegionSize - 1) |->
                  IF a = end THEN header
                  ELSE IF a \in end .. (end + size - 1) THEN Inside ELSE before[a]]
    <3>1. DOMAIN before = 0 .. (RegionSize - 1)
      BY DEF Memory
    <3> QED BY <1>6, <3>1
  <2>2. \A a \in 0 .. (end + size - 1) : a \in 0 .. (RegionSize - 1)
    BY <1>1, <1>4
  <2>3. \A a \in 0 .. (RegionSize - 1) :
            mem[a] = IF a = end THEN header
                     ELSE IF a \in end .. (end + size - 1) THEN Inside ELSE before[a]
    BY <2>1, Zenon
  <2>4. /\ end \in 0 .. (end + size - 1)
        /\ \A a \in 0 .. (end - 1) : a \in 0 .. (end + size - 1) /\ a < end
        /\ \A a \in (end + 1) .. (end + size - 1) : a \in 0 .. (end + size - 1) /\ a # end
    BY <1>4
  <2> QED BY <2>2, <2>3, <2>4
<1>8. FilledTo(mem, end + size)
  BY <1>4, <1>5, <1>7, FilledFurther
<1>9. (live + size) % SizeRange \in Int /\ end + size \in 0 .. RegionSize
  BY <1>4, HeapAssumption
<1>10. PICK new \in Region :
          /\ new = [id |-> old.id, live |-> (live + size) % SizeRange,
                    allocPointer |-> end + size, memory |-> mem]
          /\ new.id = old.id /\ new.memory = mem /\ new.allocPointer = end + size
  <2> DEFINE new == [id |-> old.id, live |-> (live + size) % SizeRange,
                     allocPointer |-> end + size, memory |-> mem]
  <2>1. new \in Region
    BY <1>9 DEF Region
  <2> QED BY <2>1
<1>11. Place(chain, k, size, header) = [chain EXCEPT ![k] = new]
  BY <1>2, <1>3, <1>6, <1>10 DEF Place
<1>12. \A a : OnObject(old, a) => OnObject(new, a)
  <2> SUFFICES ASSUME NEW a, OnObject(old, a) PROVE OnObject(new, a)
    OBVIOUS
  <2>1. CASE a = end
    <3>1. end \in 0 .. (end + size - 1) /\ mem[end].size > 0
      BY <1>4, <1>7
    <3> QED BY <1>10, <2>1, <3>1 DEF OnObject
  <2>2. CASE a # end
    <3>1. a \in 0 .. (end - 1) /\ before[a].size > 0
      BY <1>3, <2>2 DEF OnObject
    <3>2. a \in 0 .. (end + size - 1) /\ mem[a].size > 0
      BY <1>4, <1>7, <3>1
    <3> QED BY <1>10, <3>2 DEF OnObject
  <2> QED BY <2>1, <2>2
<1>13. /\ [chain EXCEPT ![k] = new] \in Seq(Region)
       /\ Len([chain EXCEPT ![k] = new]) = Len(chain)
       /\ \A j \in 1 .. Len(chain) : [chain EXCEPT ![k] = new][j] = IF j = k THEN new ELSE chain[j]
  BY <1>1
<1>14. \A j \in 1 .. Len(chain) : /\ Place(chain, k, size, header)[j].id = Len(chain) + 1 - j
                                  /\ Filled(Place(chain, k, size, header)[j])
  BY <1>2, <1>8, <1>10, <1>11, <1>13 DEF ChainOK, Filled
<1>15. \A j \in 1 .. Len(chain) : \A a :
           OnObject(chain[j], a) => OnObject(Place(chain, k, size, header)[j], a)
  BY <1>2, <1>11, <1>12, <1>13
<1> QED BY <1>11, <1>13, <1>14, <1>15 DEF ChainOK

LEMMA ReplaceOK ==
    ASSUME NEW chain, ChainOK(chain), NEW k \in 1 .. Len(chain), NEW new \in Region,
           new.id = chain[k].id, Filled(new)
    PROVE  /\ ChainOK([chain EXCEPT ![k] = new])
           /\ Len([chain EXCEPT ![k] = new]) = Len(chain)
           /\ \A j \in 1 .. Len(chain) :
                  [chain EXCEPT ![k] = new][j] = IF j = k THEN new ELSE chain[j]
<1>1. chain \in Seq(Region)
  BY DEF ChainOK
<1>2. /\ [chain EXCEPT ![k] = new] \in Seq(Region)
      /\ Len([chain EXCEPT ![k] = new]) = Len(chain)
      /\ \A j \in 1 .. Len(chain) :
             [chain EXCEPT ![k] = new][j] = IF j = k THEN new ELSE chain[j]
  BY <1>1
<1> QED BY <1>2 DEF ChainOK

(* Only sizes tell where the objects are.                                  *)
LEMMA SameSizes ==
    ASSUME NEW old \in Region, NEW new \in Region, Filled(old),
           new.allocPointer = old.allocPointer,
           \A a \in 0 .. (RegionSize - 1) : new.memory[a].size = old.memory[a].size
    PROVE  Filled(new)
<1>1. PICK end \in 0 .. RegionSize, m \in Memory, n \in Memory :
          /\ end = old.allocPointer /\ end = new.allocPointer
          /\ m = old.memory /\ n = new.memory
  BY DEF Region
<1>2. RegionSize \in Nat \ {0} /\ \A a \in 0 .. (end - 1) : a \in 0 .. (RegionSize - 1)
  BY HeapAssumption
<1>3. \A a \in 0 .. (end - 1) : m[a].size = n[a].size /\ m[a].size \in Nat
  <2>1. \A a \in 0 .. (end - 1) : m[a].size = n[a].size
    BY <1>1, <1>2
  <2>2. \A a \in 0 .. (RegionSize - 1) : m[a].size \in Nat
    BY <1>2 DEF Memory, Cell
  <2> QED BY <1>2, <2>1, <2>2
<1>4. FilledTo(m, end)
  BY <1>1 DEF Filled
<1>5. end > 0 => n[0].size > 0
  <2> SUFFICES ASSUME end > 0 PROVE n[0].size > 0
    OBVIOUS
  <2>1. 0 \in 0 .. (end - 1)
    OBVIOUS
  <2> QED BY <1>3, <1>4, <2>1 DEF FilledTo
<1>6. ASSUME NEW a \in 0 .. (end - 1), n[a].size > 0
      PROVE  /\ a + n[a].size <= end
             /\ \A b \in (a + 1) .. (a + n[a].size - 1) : n[b].size = 0
             /\ a + n[a].size < end => n[a + n[a].size].size > 0
  <2>1. PICK s \in Nat \ {0} : s = n[a].size /\ s = m[a].size
    BY <1>3, <1>6
  <2>2. /\ a + s <= end
        /\ \A b \in (a + 1) .. (a + s - 1) : m[b].size = 0
        /\ a + s < end => m[a + s].size > 0
    BY <1>4, <2>1 DEF FilledTo
  <2>3. /\ \A b \in (a + 1) .. (a + s - 1) : b \in 0 .. (end - 1)
        /\ a + s < end => a + s \in 0 .. (end - 1)
    BY <2>2
  <2> QED BY <1>3, <2>1, <2>2, <2>3
<1> QED BY <1>1, <1>5, <1>6 DEF Filled, FilledTo

(* The place of a region in the chain.                                     *)
LEMMA IndexIs ==
    ASSUME NEW chain, ChainOK(chain), NEW id \in 1 .. Len(chain)
    PROVE  /\ (CHOOSE k \in DOMAIN chain : chain[k].id = id) = Len(chain) + 1 - id
           /\ Len(chain) + 1 - id \in 1 .. Len(chain)
<1>1. chain \in Seq(Region) /\ Len(chain) \in Nat /\ DOMAIN chain = 1 .. Len(chain)
  BY DEF ChainOK
<1>2. Len(chain) + 1 - id \in 1 .. Len(chain)
  BY <1>1
<1>3. chain[Len(chain) + 1 - id].id = id
  BY <1>1, <1>2 DEF ChainOK
<1>4. \A k \in DOMAIN chain : chain[k].id = id => k = Len(chain) + 1 - id
  BY <1>1 DEF ChainOK
<1> QED BY <1>1, <1>2, <1>3, <1>4

LEMMA IndexFacts ==
    ASSUME ChainOK(regions), NEW id \in 1 .. Len(regions)
    PROVE  IndexOf(id) = Len(regions) + 1 - id /\ IndexOf(id) \in 1 .. Len(regions)
BY IndexIs DEF IndexOf

LEMMA IndexFactsAfter ==
    ASSUME ChainOK(regions'), NEW id \in 1 .. Len(regions')
    PROVE  IndexOf(id)' = Len(regions') + 1 - id /\ IndexOf(id)' \in 1 .. Len(regions')
BY IndexIs DEF IndexOf

LEMMA ChainFacts ==
    ASSUME ChainOK(regions), regions # <<>>
    PROVE  /\ regions \in Seq(Region) /\ Len(regions) \in Nat \ {0}
           /\ regions[1].id = Len(regions) /\ Ids = 1 .. Len(regions)
           /\ \A id \in 1 .. Len(regions) : Next0(id) \in 0 .. Len(regions)
<1>1. regions \in Seq(Region) /\ Len(regions) \in Nat \ {0}
  BY DEF ChainOK
<1>2. regions[1].id = Len(regions)
  BY <1>1 DEF ChainOK
<1>3. \A k \in 1 .. Len(regions) : regions[k].id = Len(regions) + 1 - k
  BY DEF ChainOK
<1>4. Ids = 1 .. Len(regions)
  <2>1. \A k \in DOMAIN regions : regions[k].id \in 1 .. Len(regions)
    BY <1>1, <1>3
  <2>2. \A id \in 1 .. Len(regions) : Len(regions) + 1 - id \in DOMAIN regions
                                      /\ regions[Len(regions) + 1 - id].id = id
    BY <1>1, <1>3
  <2> QED BY <2>1, <2>2 DEF Ids
<1>5. ASSUME NEW id \in 1 .. Len(regions) PROVE Next0(id) \in 0 .. Len(regions)
  <2>1. IndexOf(id) = Len(regions) + 1 - id /\ IndexOf(id) \in 1 .. Len(regions)
    BY <1>5, IndexFacts
  <2>2. CASE IndexOf(id) = Len(regions)
    BY <1>1, <2>2 DEF Next0
  <2>3. CASE IndexOf(id) # Len(regions)
    <3>1. IndexOf(id) + 1 \in 1 .. Len(regions)
      BY <1>1, <2>1, <2>3
    <3>2. regions[IndexOf(id) + 1].id = Len(regions) + 1 - (IndexOf(id) + 1)
      BY <1>3, <3>1
    <3> QED BY <1>1, <2>1, <2>3, <3>1, <3>2 DEF Next0
  <2> QED BY <2>2, <2>3
<1> QED BY <1>1, <1>2, <1>4, <1>5

LEMMA Initially == Init => IInv
<1> SUFFICES ASSUME Init PROVE IInv
  OBVIOUS
<1>1. InitialRegions \in Nat \ {0}
  BY HeapAssumption
<1>2. ChainOK(<<>>)
  BY DEF ChainOK
<1>3. ChainOK(regions) /\ Len(regions) = InitialRegions
  BY <1>1, <1>2, GrownOK DEF Init
<1>4. regions # <<>> /\ allocRegion \in 1 .. Len(regions)
  BY <1>1, <1>3 DEF Init
<1> QED BY <1>3, <1>4 DEF Init, IInv, SweepStands, ShrinkStands

-----------------------------------------------------------------------------
(* The kinds of steps.                                                     *)

(* The chain grows in front and objects are placed: the sweep stands where *)
(* it stood, on an object.                                                 *)
LEMMA ChainStep ==
    ASSUME IInv, ChainOK(regions'), NEW d \in Nat, Len(regions') = Len(regions) + d,
           \A j \in 1 .. Len(regions) : \A a :
               OnObject(regions[j], a) => OnObject(regions'[j + d], a),
           allocRegion' \in 1 .. Len(regions'), used' \in Int,
           UNCHANGED <<phase, epoch, at>>
    PROVE  IInv'
<1>1. Len(regions) \in Nat \ {0}
  BY ChainFacts DEF IInv
<1>2. regions' # <<>> /\ 0 .. Len(regions) \subseteq 0 .. Len(regions')
  <2>1. Len(regions') > 0
    BY <1>1
  <2> QED BY <1>1, <2>1
<1>3. SweepStands'
  <2> SUFFICES ASSUME phase = "Sweep"
               PROVE  /\ at \in [region : 0 .. Len(regions'), address : 0 .. RegionSize]
                      /\ at.region # 0 => OnObject(Swept', at.address)
    BY DEF SweepStands, OnObject
  <2>1. /\ at \in [region : 0 .. Len(regions), address : 0 .. RegionSize]
        /\ at.region # 0 => OnObject(Swept, at.address)
    BY DEF IInv, SweepStands
  <2>2. ASSUME at.region # 0 PROVE OnObject(Swept', at.address)
    <3>1. PICK id \in 1 .. Len(regions) : id = at.region
      BY <1>1, <2>1, <2>2
    <3>2. IndexOf(id) = Len(regions) + 1 - id /\ IndexOf(id) \in 1 .. Len(regions)
      BY IndexFacts DEF IInv
    <3>3. IndexOf(id)' = IndexOf(id) + d
      <4>1. id \in 1 .. Len(regions')
        BY <1>1
      <4>2. IndexOf(id)' = Len(regions') + 1 - id
        BY <4>1, IndexFactsAfter
      <4> QED BY <1>1, <3>2, <4>2
    <3>4. Swept = regions[IndexOf(id)] /\ Swept' = regions'[IndexOf(id)']
      BY <3>1 DEF Swept
    <3> QED BY <2>1, <2>2, <3>2, <3>3, <3>4
  <2> QED BY <1>2, <2>1, <2>2
<1>4. ShrinkStands'
  BY <1>2 DEF IInv, ShrinkStands
<1> QED BY <1>2, <1>3, <1>4 DEF IInv

LEMMA PromotePreserves ==
    ASSUME IInv, NEW d \in Nat, NEW chain, ChainOK(chain), Len(chain) = Len(regions) + d,
           \A j \in 1 .. Len(regions) : chain[j + d] = regions[j],
           NEW k \in 1 .. Len(chain), NEW size \in Sizes, Fits(chain[k], size),
           PromoteInto(chain, k, size)
    PROVE  IInv'
<1>1. size \in 1 .. RegionSize /\ RegionSize \in Nat \ {0} /\ Len(regions) \in Nat \ {0}
  BY HeapAssumption, ChainFacts DEF IInv
<1>2. Copied(size) \in Cell /\ Copied(size).size = size
  BY <1>1 DEF Copied, Header, Cell
<1>3. /\ regions' = Place(chain, k, size, Copied(size)) /\ allocRegion' = chain[k].id
      /\ used' = (used + size) % SizeRange /\ UNCHANGED <<phase, epoch, at>>
  BY DEF PromoteInto
<1>4. /\ ChainOK(regions') /\ Len(regions') = Len(chain)
      /\ \A j \in 1 .. Len(chain) : \A a :
             OnObject(chain[j], a) => OnObject(regions'[j], a)
  BY <1>1, <1>2, <1>3, PlaceOK
<1>5. allocRegion' \in 1 .. Len(regions')
  <2>1. chain[k].id = Len(chain) + 1 - k
    BY DEF ChainOK
  <2> QED BY <1>1, <1>3, <1>4, <2>1
<1>6. used' \in Int
  <2>1. SizeRange \in Nat \ {0}
    <3>1. SizeRange \in Nat /\ SizeRange > SystemRegions * RegionSize /\ SystemRegions \in Nat
      BY HeapAssumption
    <3>2. SystemRegions * RegionSize \in Nat
      BY <1>1, <3>1
    <3> QED BY <3>1, <3>2
  <2>2. used + size \in Int
    BY <1>1 DEF IInv
  <2> QED BY <1>3, <2>1, <2>2
<1>7. \A j \in 1 .. Len(regions) : j + d \in 1 .. Len(chain)
  BY <1>1
<1>8. \A j \in 1 .. Len(regions) : \A a :
          OnObject(regions[j], a) => OnObject(regions'[j + d], a)
  BY <1>4, <1>7
<1> QED BY <1>3, <1>4, <1>5, <1>6, <1>8, ChainStep

(* A region is replaced by one with its objects in the same places.        *)
LEMMA TouchPreserves ==
    ASSUME IInv, NEW k \in 1 .. Len(regions), NEW new \in Region, new.id = regions[k].id,
           new.allocPointer = regions[k].allocPointer,
           \A a \in 0 .. (RegionSize - 1) : new.memory[a].size = regions[k].memory[a].size,
           regions' = [regions EXCEPT ![k] = new]
    PROVE  /\ ChainOK(regions') /\ Len(regions') = Len(regions) + 0
           /\ \A j \in 1 .. Len(regions) : \A a :
                  OnObject(regions[j], a) => OnObject(regions'[j + 0], a)
           /\ \A id \in 1 .. Len(regions) : IndexOf(id)' = IndexOf(id)
<1>1. /\ regions \in Seq(Region) /\ Len(regions) \in Nat \ {0}
      /\ ChainOK(regions) /\ regions[k] \in Region /\ Filled(regions[k])
  BY ChainFacts DEF IInv, ChainOK
<1>2. Filled(new)
  BY <1>1, SameSizes
<1>3. /\ ChainOK(regions') /\ Len(regions') = Len(regions)
      /\ \A j \in 1 .. Len(regions) : regions'[j] = IF j = k THEN new ELSE regions[j]
  <2>1. /\ ChainOK([regions EXCEPT ![k] = new])
        /\ Len([regions EXCEPT ![k] = new]) = Len(regions)
        /\ \A j \in 1 .. Len(regions) :
               [regions EXCEPT ![k] = new][j] = IF j = k THEN new ELSE regions[j]
    BY ONLY <1>1, <1>2, ReplaceOK, new \in Region, new.id = regions[k].id, k \in 1 .. Len(regions)
  <2> QED BY <2>1
<1>4. \A a : OnObject(regions[k], a) => OnObject(new, a)
  <2> SUFFICES ASSUME NEW a, OnObject(regions[k], a), a # regions[k].allocPointer
               PROVE  OnObject(new, a)
    BY DEF OnObject
  <2>1. a \in 0 .. (regions[k].allocPointer - 1) /\ regions[k].memory[a].size > 0
    BY DEF OnObject
  <2>2. regions[k].allocPointer \in 0 .. RegionSize /\ RegionSize \in Nat
    BY <1>1, HeapAssumption DEF Region
  <2>3. a \in 0 .. (RegionSize - 1)
    BY <2>1, <2>2
  <2> QED BY <2>1, <2>3 DEF OnObject
<1>5. \A j \in 1 .. Len(regions) : j + 0 = j
  BY <1>1
<1>6. \A id \in 1 .. Len(regions) : IndexOf(id)' = IndexOf(id)
  BY <1>1, <1>3, IndexFacts, IndexFactsAfter
<1> QED BY <1>1, <1>3, <1>4, <1>5, <1>6

(* Marking touches no size.                                                *)
LEMMA MarkTouches ==
    ASSUME IInv, NEW rest, MarkAny(rest)
    PROVE  \/ UNCHANGED regions
           \/ \E k \in 1 .. Len(regions), new \in Region :
                  /\ new.id = regions[k].id /\ new.allocPointer = regions[k].allocPointer
                  /\ \A a \in 0 .. (RegionSize - 1) :
                         new.memory[a].size = regions[k].memory[a].size
                  /\ regions' = [regions EXCEPT ![k] = new]
<1>1. CASE UNCHANGED regions
  BY <1>1
<1>2. CASE regions' # regions
  <2>1. PICK o \in Objects : MarkObject(o, rest)
    BY <1>2 DEF MarkAny
  <2>2. o[1] \in Ids /\ o[2] \in 0 .. (RegionSize - 1)
    BY <2>1 DEF Objects
  <2>3. PICK k \in 1 .. Len(regions), c \in 0 .. (RegionSize - 1) :
            k = IndexOf(o[1]) /\ c = o[2]
    <3>1. IndexOf(o[1]) \in 1 .. Len(regions)
      BY <2>2, ChainFacts, IndexFacts DEF IInv
    <3> QED BY <2>2, <3>1
  <2>4. PICK old \in Region : old = regions[k]
    <3>1. regions[k] \in Region
      BY ChainFacts DEF IInv
    <3> QED BY <3>1
  <2>5. PICK m \in Memory : m = old.memory
    BY DEF Region
  <2>6. PICK cell \in Cell : cell = [m[c] EXCEPT !.mark = epoch] /\ cell.size = m[c].size
    <3>1. m[c] \in Cell /\ epoch \in {0, 1}
      BY DEF Memory, IInv
    <3>2. [m[c] EXCEPT !.mark = epoch] \in Cell /\ [m[c] EXCEPT !.mark = epoch].size = m[c].size
      BY <3>1 DEF Cell
    <3> QED BY <3>2
  <2>7. PICK n \in Memory :
            /\ n = [m EXCEPT ![c] = cell]
            /\ \A a \in 0 .. (RegionSize - 1) : n[a].size = m[a].size
    <3>1. /\ [m EXCEPT ![c] = cell] \in Memory
          /\ \A a \in 0 .. (RegionSize - 1) : [m EXCEPT ![c] = cell][a].size = m[a].size
      BY <2>6 DEF Memory
    <3> QED BY <3>1
  <2>8. PICK new \in Region :
            /\ new = [old EXCEPT !.memory = n]
            /\ new.id = old.id /\ new.allocPointer = old.allocPointer /\ new.memory = n
    <3>1. /\ [old EXCEPT !.memory = n] \in Region
          /\ [old EXCEPT !.memory = n].id = old.id
          /\ [old EXCEPT !.memory = n].allocPointer = old.allocPointer
          /\ [old EXCEPT !.memory = n].memory = n
      BY DEF Region
    <3> QED BY <3>1
  <2>9. regions' = [regions EXCEPT ![k] = new]
    <3>1. regions' = [regions EXCEPT ![IndexOf(o[1])].memory[o[2]].mark = epoch]
      BY <1>2, <2>1 DEF MarkObject
    <3>2. regions' = [regions EXCEPT ![k].memory[c].mark = epoch]
      BY <2>3, <3>1
    <3>3. [m EXCEPT ![c].mark = epoch] = n
      BY <2>6, <2>7, Zenon
    <3>4. [old EXCEPT !.memory[c].mark = epoch] = new
      <4>1. [old EXCEPT !.memory[c].mark = epoch] = [old EXCEPT !.memory = [m EXCEPT ![c].mark = epoch]]
        BY <2>5, Zenon
      <4> QED BY <2>8, <3>3, <4>1, Zenon
    <3>5. regions' = [regions EXCEPT ![k] = [old EXCEPT !.memory[c].mark = epoch]]
      BY <2>4, <3>2, Zenon
    <3> QED BY <3>4, <3>5, Zenon
  <2>10. /\ new.id = regions[k].id /\ new.allocPointer = regions[k].allocPointer
         /\ \A a \in 0 .. (RegionSize - 1) :
                new.memory[a].size = regions[k].memory[a].size
    <3>1. m = regions[k].memory
      BY <2>4, <2>5
    <3> QED BY <2>4, <2>7, <2>8, <3>1
  <2> QED BY <2>9, <2>10, Zenon
<1> QED BY <1>1, <1>2

(* Steps in which nothing but marks, flags and the position changes.       *)
LEMMA QuietPreserves ==
    ASSUME IInv, UNCHANGED <<allocRegion, used>>, epoch' \in {0, 1},
           \/ UNCHANGED regions
           \/ \E rest : MarkAny(rest),
           phase' = "Sweep" =>
               /\ UNCHANGED regions
               /\ at' \in [region : 0 .. Len(regions), address : 0 .. RegionSize]
               /\ at'.region # 0 => OnObject(regions[IndexOf(at'.region)], at'.address),
           phase' = "Shrink" => UNCHANGED regions /\ at'.region \in 0 .. Len(regions)
    PROVE  IInv'
<1>1. ChainOK(regions') /\ Len(regions') = Len(regions) /\ Len(regions) \in Nat \ {0}
  <2>1. Len(regions) \in Nat \ {0} /\ ChainOK(regions)
    BY ChainFacts DEF IInv
  <2>2. CASE UNCHANGED regions
    BY <2>1, <2>2
  <2>3. CASE regions' # regions
    <3>1. ChainOK(regions') /\ Len(regions') = Len(regions) + 0
      BY <2>3, MarkTouches, TouchPreserves
    <3> QED BY <2>1, <3>1
  <2> QED BY <2>1, <2>2, <2>3
<1>2. regions' # <<>>
  <2>1. Len(regions') # 0
    BY <1>1
  <2> QED BY <2>1
<1>3. SweepStands'
  <2>1. UNCHANGED regions => \A id : IndexOf(id)' = IndexOf(id)
    BY DEF IndexOf
  <2> QED BY <2>1 DEF SweepStands, OnObject, Swept
<1>4. ShrinkStands'
  BY DEF ShrinkStands
<1> QED BY <1>1, <1>2, <1>3, <1>4 DEF IInv

(* The sweep goes from an object to the next, or behind the last one.      *)
LEMMA SweepPreserves ==
    ASSUME IInv, SweepObject PROVE IInv'
<1>1. /\ phase = "Sweep" /\ at.region # 0 /\ at.address < Swept.allocPointer
      /\ at' = [at EXCEPT !.address = @ + Swept.memory[at.address].size]
      /\ UNCHANGED <<allocRegion, phase, epoch>>
  BY DEF SweepObject
<1>2. /\ at \in [region : 0 .. Len(regions), address : 0 .. RegionSize]
      /\ OnObject(Swept, at.address) /\ Len(regions) \in Nat \ {0}
  BY <1>1, ChainFacts DEF IInv, SweepStands
<1>3. PICK id \in 1 .. Len(regions), k \in 1 .. Len(regions), old \in Region, c \in Nat :
          id = at.region /\ k = IndexOf(id) /\ old = regions[k] /\ old = Swept /\ c = at.address
  <2>1. at.region \in 1 .. Len(regions)
    BY <1>1, <1>2
  <2>2. IndexOf(at.region) \in 1 .. Len(regions)
    BY <2>1, IndexFacts DEF IInv
  <2>3. regions[IndexOf(at.region)] \in Region
    BY <2>2, ChainFacts DEF IInv
  <2> QED BY <1>2, <2>1, <2>2, <2>3 DEF Swept
<1>4. PICK end \in 0 .. RegionSize, m \in Memory, live \in Int :
          end = old.allocPointer /\ m = old.memory /\ live = old.live
  BY DEF Region
<1>5. RegionSize \in Nat \ {0} /\ c \in 0 .. (end - 1) /\ c \in 0 .. (RegionSize - 1)
  <2>1. c < end
    BY <1>1, <1>3, <1>4
  <2>2. RegionSize \in Nat \ {0}
    BY HeapAssumption
  <2> QED BY <2>1, <2>2
<1>6. PICK n \in Nat \ {0} : n = m[c].size
  <2>1. m[c].size > 0
    BY <1>2, <1>3, <1>4, <1>5 DEF OnObject
  <2>2. m[c].size \in Nat
    BY <1>5 DEF Memory, Cell
  <2> QED BY <2>1, <2>2
<1>7. Filled(old)
  BY <1>3 DEF IInv, ChainOK
<1>8. c + n <= end /\ (c + n < end => m[c + n].size > 0)
  <2>1. FilledTo(m, end)
    BY <1>4, <1>7 DEF Filled
  <2>2. m[c].size > 0
    BY <1>6
  <2>3. c + m[c].size <= end /\ (c + m[c].size < end => m[c + m[c].size].size > 0)
    BY <1>5, <2>1, <2>2 DEF FilledTo
  <2> QED BY <1>6, <2>3
<1>9. OnObject(old, c + n) /\ c + n \in 0 .. RegionSize
  <2>1. c + n = end \/ (c + n \in 0 .. (end - 1) /\ m[c + n].size > 0)
    BY <1>5, <1>8
  <2> QED BY <1>4, <1>5, <1>8, <2>1 DEF OnObject
<1>10. PICK new \in Region :
           /\ new = [old EXCEPT !.live = (live - n) % SizeRange]
           /\ new.id = old.id /\ new.allocPointer = old.allocPointer /\ new.memory = old.memory
  <2>1. (live - n) % SizeRange \in Int
    BY HeapAssumption
  <2>2. /\ [old EXCEPT !.live = (live - n) % SizeRange] \in Region
        /\ [old EXCEPT !.live = (live - n) % SizeRange].id = old.id
        /\ [old EXCEPT !.live = (live - n) % SizeRange].allocPointer = old.allocPointer
        /\ [old EXCEPT !.live = (live - n) % SizeRange].memory = old.memory
    BY <2>1 DEF Region
  <2> QED BY <2>2
<1>11. \/ UNCHANGED <<regions, used>>
       \/ regions' = [regions EXCEPT ![k] = new] /\ used' = (used - n) % SizeRange
  <2>1. Swept.memory[at.address].size = n /\ IndexOf(at.region) = k
    BY <1>3, <1>4, <1>6
  <2>2. \/ UNCHANGED <<regions, used>>
        \/ regions' = Deallocated(regions, k, n) /\ used' = (used - n) % SizeRange
    BY <2>1 DEF SweepObject
  <2>3. Deallocated(regions, k, n) = [regions EXCEPT ![k].live = (@ - n) % SizeRange]
    BY DEF Deallocated
  <2>4. [old EXCEPT !.live = (@ - n) % SizeRange] = new
    BY <1>4, <1>10
  <2>5. Deallocated(regions, k, n) = [regions EXCEPT ![k] = new]
    BY <1>3, <2>3, <2>4
  <2> QED BY <2>2, <2>5
<1>12. used' \in Int
  BY <1>11, HeapAssumption DEF IInv
<1>13. /\ at' \in [region : 0 .. Len(regions), address : 0 .. RegionSize]
       /\ at'.region = id /\ at'.address = c + n
  <2>1. at' = [at EXCEPT !.address = c + n]
    BY <1>1, <1>3, <1>4, <1>6
  <2> QED BY <1>2, <1>3, <1>9, <2>1
<1>14. /\ ChainOK(regions') /\ Len(regions') = Len(regions)
       /\ IndexOf(id)' = k /\ OnObject(regions'[k], c + n)
  <2>1. CASE UNCHANGED regions
    <3>1. IndexOf(id)' = IndexOf(id)
      BY <2>1 DEF IndexOf
    <3> QED BY <1>3, <1>9, <2>1, <3>1 DEF IInv
  <2>2. CASE regions' = [regions EXCEPT ![k] = new]
    <3>1. \A a \in 0 .. (RegionSize - 1) : new.memory[a].size = regions[k].memory[a].size
      BY <1>3, <1>10
    <3>2. /\ ChainOK(regions') /\ Len(regions') = Len(regions) + 0
          /\ OnObject(regions[k], c + n) => OnObject(regions'[k + 0], c + n)
          /\ IndexOf(id)' = IndexOf(id)
      BY <1>3, <1>10, <2>2, <3>1, TouchPreserves
    <3>3. k + 0 = k /\ Len(regions) + 0 = Len(regions)
      BY <1>2
    <3> QED BY <1>3, <1>9, <3>2, <3>3
  <2> QED BY <1>11, <2>1, <2>2
<1>15. SweepStands' /\ ShrinkStands'
  <2>1. Swept' = regions'[k]
    BY <1>13, <1>14 DEF Swept
  <2>2. phase' # "Shrink"
    BY <1>1
  <2> QED BY <1>13, <1>14, <2>1, <2>2 DEF SweepStands, ShrinkStands, OnObject
<1>16. regions' # <<>> /\ allocRegion' \in 1 .. Len(regions') /\ epoch' \in {0, 1}
  <2>1. Len(regions') # 0
    BY <1>2, <1>14
  <2> QED BY <1>1, <1>14, <2>1 DEF IInv
<1> QED BY <1>12, <1>14, <1>15, <1>16 DEF IInv

LEMMA StutterPreserves ==
    ASSUME IInv, UNCHANGED <<regions, allocRegion, used, phase, epoch, at>> PROVE IInv'
<1>1. Swept' = Swept
  BY DEF Swept, IndexOf
<1>2. SweepStands' /\ ShrinkStands'
  BY <1>1 DEF IInv, SweepStands, ShrinkStands, OnObject
<1> QED BY <1>2 DEF IInv

(* A region's first object is at its start.                                *)
LEMMA StartsOnObject ==
    ASSUME IInv, NEW id \in 1 .. Len(regions)
    PROVE  OnObject(regions[IndexOf(id)], 0)
<1>1. PICK k \in 1 .. Len(regions) : k = IndexOf(id)
  BY IndexFacts DEF IInv
<1>2. PICK r \in Region : r = regions[k] /\ Filled(r)
  <2>1. regions[k] \in Region /\ Filled(regions[k])
    BY ChainFacts DEF IInv, ChainOK
  <2> QED BY <2>1
<1>3. r.allocPointer \in 0 .. RegionSize /\ RegionSize \in Nat
  BY HeapAssumption DEF Region
<1>4. r.allocPointer > 0 => r.memory[0].size > 0
  BY <1>2 DEF Filled, FilledTo
<1> QED BY <1>1, <1>2, <1>3, <1>4 DEF OnObject

LEMMA GrowPreserves ==
    ASSUME IInv, NEW size \in Sizes, PromoteAndGrow(size) PROVE IInv'
<1> DEFINE target == IF used * GrowthFactor < MaxSize THEN used * GrowthFactor ELSE MaxSize
           needed == (target - Len(regions) * RegionSize) % SizeRange
<1>1. /\ used \in Int /\ Len(regions) \in Nat \ {0} /\ ChainOK(regions)
      /\ RegionSize \in Nat \ {0} /\ GrowthFactor \in Nat /\ MaxSize \in Nat
  BY HeapAssumption, ChainFacts DEF IInv
<1>2. SizeRange \in Nat \ {0}
  <2>1. /\ SystemRegions \in Nat /\ RegionSize \in Nat
        /\ SizeRange \in Nat /\ SizeRange > SystemRegions * RegionSize
    BY HeapAssumption
  <2>2. SystemRegions * RegionSize >= 0
    BY <2>1
  <2> QED BY <2>1, <2>2
<1>3. target - Len(regions) * RegionSize \in Int
  <2>1. target \in Int /\ Len(regions) * RegionSize \in Int
    BY <1>1
  <2> QED BY <2>1
<1>4. needed + RegionSize - 1 \in Int
  <2>1. needed \in Int
    BY <1>2, <1>3
  <2> QED BY <1>1, <2>1
<1> HIDE DEF target, needed
<1>5. PICK n \in Nat : n = (needed + RegionSize - 1) % SizeRange
  BY <1>2, <1>4
<1>6. PICK count \in Nat : count = RegionsNeeded
  <2>1. RegionsNeeded = ((needed + RegionSize - 1) % SizeRange) \div RegionSize
    BY Zenon DEF RegionsNeeded, target, needed
  <2>2. n \div RegionSize \in Nat
    BY <1>1
  <2> QED BY <1>5, <2>1, <2>2
<1>7. PICK chain : /\ chain = Grown(regions, count) /\ ChainOK(chain)
                   /\ Len(chain) = Len(regions) + count
                   /\ \A j \in 1 .. Len(regions) : chain[j + count] = regions[j]
  <2>1. /\ ChainOK(Grown(regions, count)) /\ Len(Grown(regions, count)) = Len(regions) + count
        /\ \A j \in 1 .. Len(regions) : Grown(regions, count)[j + count] = regions[j]
    BY <1>1, GrownOK
  <2> QED BY <2>1
<1>8. Fits(chain[1], size) /\ PromoteInto(chain, 1, size)
  BY <1>6, <1>7 DEF PromoteAndGrow
<1>9. 1 \in 1 .. Len(chain)
  BY <1>1, <1>7
<1> QED BY <1>7, <1>8, <1>9, PromotePreserves

LEMMA ShrinkPreserves ==
    ASSUME IInv, ShrinkStep PROVE IInv'
<1>1. /\ phase = "Shrink" /\ at.region # 0 /\ at' = [region |-> Next0(at.region)]
      /\ regions' = [regions EXCEPT ![IndexOf(at.region)].allocPointer =
                        IF Swept.live = 0 THEN 0 ELSE @]
      /\ UNCHANGED <<allocRegion, used, phase, epoch>>
  BY DEF ShrinkStep
<1>2. at.region \in 0 .. Len(regions) /\ Len(regions) \in Nat \ {0} /\ ChainOK(regions)
  BY <1>1, ChainFacts DEF IInv, ShrinkStands
<1>3. PICK id \in 1 .. Len(regions), k \in 1 .. Len(regions), old \in Region :
          id = at.region /\ k = IndexOf(id) /\ old = regions[k] /\ old = Swept /\ Filled(old)
  <2>1. at.region \in 1 .. Len(regions)
    BY <1>1, <1>2
  <2>2. IndexOf(at.region) \in 1 .. Len(regions)
    BY <1>2, <2>1, IndexFacts
  <2>3. regions[IndexOf(at.region)] \in Region /\ Filled(regions[IndexOf(at.region)])
    BY <2>2, ChainFacts DEF IInv, ChainOK
  <2> QED BY <2>1, <2>2, <2>3 DEF Swept
<1>4. PICK end \in 0 .. RegionSize : end = IF old.live = 0 THEN 0 ELSE old.allocPointer
  BY HeapAssumption DEF Region
<1>5. PICK new \in Region :
          new = [old EXCEPT !.allocPointer = end] /\ new.id = old.id
          /\ new.memory = old.memory /\ new.allocPointer = end
  <2>1. /\ [old EXCEPT !.allocPointer = end] \in Region
        /\ [old EXCEPT !.allocPointer = end].id = old.id
        /\ [old EXCEPT !.allocPointer = end].memory = old.memory
        /\ [old EXCEPT !.allocPointer = end].allocPointer = end
    BY DEF Region
  <2> QED BY <2>1
<1>6. Filled(new)
  <2>1. CASE end = 0
    <3>1. 0 .. (0 - 1) = {}
      OBVIOUS
    <3> QED BY <1>5, <2>1, <3>1 DEF Filled, FilledTo
  <2>2. CASE end = old.allocPointer
    BY <1>3, <1>5, <2>2 DEF Filled
  <2> QED BY <1>4, <2>1, <2>2
<1>7. regions' = [regions EXCEPT ![k] = new]
  <2>1. (IF Swept.live = 0 THEN 0 ELSE regions[k].allocPointer) = end
    BY <1>3, <1>4
  <2>2. regions' = [regions EXCEPT ![k].allocPointer = end]
    BY <1>1, <1>3, <2>1
  <2> QED BY <1>3, <1>5, <2>2
<1>8. ChainOK(regions') /\ Len(regions') = Len(regions)
  <2>1. ChainOK([regions EXCEPT ![k] = new]) /\ Len([regions EXCEPT ![k] = new]) = Len(regions)
    <3>1. new.id = regions[k].id
      BY <1>3, <1>5
    <3> QED BY <1>2, <1>6, <3>1, ReplaceOK
  <2> QED BY <1>7, <2>1
<1>9. at'.region \in 0 .. Len(regions)
  <2>1. Next0(id) \in 0 .. Len(regions)
    BY ChainFacts DEF IInv
  <2> QED BY <1>1, <1>3, <2>1
<1>10. regions' # <<>>
  <2>1. Len(regions') # 0
    BY <1>2, <1>8
  <2> QED BY <2>1
<1>11. SweepStands' /\ ShrinkStands'
  BY <1>1, <1>8, <1>9 DEF SweepStands, ShrinkStands
<1> QED BY <1>1, <1>8, <1>10, <1>11 DEF IInv

-----------------------------------------------------------------------------
LEMMA StepPreserves == IInv /\ [Next]_vars => IInv'
<1> SUFFICES ASSUME IInv, [Next]_vars PROVE IInv'
  OBVIOUS
<1>1. /\ Len(regions) \in Nat \ {0} /\ ChainOK(regions) /\ regions[1].id = Len(regions)
      /\ \A id \in 1 .. Len(regions) : Next0(id) \in 0 .. Len(regions)
      /\ epoch \in {0, 1} /\ RegionSize \in Nat \ {0}
  BY HeapAssumption, ChainFacts DEF IInv
<1>2. ASSUME NEW size \in Sizes, Promote(size) PROVE IInv'
  <2>1. PICK k \in Candidates(size) : PromoteInto(regions, k, size)
    BY <1>2 DEF Promote
  <2>2. allocRegion \in 1 .. Len(regions)
    BY DEF IInv
  <2>3. k \in 1 .. Len(regions) /\ Fits(regions[k], size)
    BY <1>1, <2>2, IndexFacts DEF Candidates
  <2>4. Len(regions) = Len(regions) + 0 /\ \A j \in 1 .. Len(regions) : j + 0 = j
    BY <1>1
  <2> QED BY <1>1, <2>1, <2>3, <2>4, PromotePreserves
<1>3. ASSUME NEW size \in Sizes, PromoteAndGrow(size) PROVE IInv'
  BY <1>3, GrowPreserves
<1>4. ASSUME NEW size \in Sizes, PromoteToNull(size) PROVE IInv'
  BY <1>4, StutterPreserves DEF PromoteToNull
<1>5. CASE StartCollection
  BY <1>1, <1>5, QuietPreserves DEF StartCollection
<1>6. CASE RootsStep
  <2>1. MarkAny(queue) /\ UNCHANGED <<allocRegion, used, phase, epoch>> /\ phase = "Roots"
    BY <1>6 DEF RootsStep
  <2> QED BY <1>1, <2>1, QuietPreserves
<1>7. CASE RootsEnd
  <2>1. MarkAny(queue) /\ UNCHANGED <<allocRegion, used, epoch>> /\ phase' = "Mark"
    BY <1>7 DEF RootsEnd
  <2> QED BY <1>1, <2>1, QuietPreserves
<1>8. CASE MarkStep
  <2>1. UNCHANGED <<allocRegion, used, epoch>> /\ phase = "Mark"
    BY <1>8 DEF MarkStep
  <2>2. CASE queue = <<>>
    <3>1. /\ phase' = "Sweep" /\ UNCHANGED regions
          /\ at' = [region |-> Len(regions), address |-> 0]
      BY <1>1, <1>8, <2>2 DEF MarkStep
    <3>2. at' \in [region : 0 .. Len(regions), address : 0 .. RegionSize]
      BY <1>1, <3>1
    <3>3. OnObject(regions[IndexOf(at'.region)], at'.address)
      BY <1>1, <3>1, StartsOnObject
    <3> QED BY <1>1, <2>1, <3>1, <3>2, <3>3, QuietPreserves
  <2>3. CASE queue # <<>>
    <3>1. /\ \E rest : MarkAny(rest)
          /\ UNCHANGED phase
      BY <1>8, <2>3 DEF MarkStep
    <3> QED BY <1>1, <2>1, <3>1, QuietPreserves
  <2> QED BY <2>2, <2>3
<1>9. CASE SweepNextRegion
  <2>1. /\ phase = "Sweep" /\ at.region # 0
        /\ at' = [region |-> Next0(at.region), address |-> 0]
        /\ UNCHANGED <<regions, allocRegion, used, phase, epoch>>
    BY <1>9 DEF SweepNextRegion
  <2>2. at.region \in 1 .. Len(regions)
    BY <1>1, <2>1 DEF IInv, SweepStands
  <2>3. PICK next \in 0 .. Len(regions) : next = Next0(at.region)
    BY <1>1, <2>2
  <2>4. at' \in [region : 0 .. Len(regions), address : 0 .. RegionSize]
    BY <1>1, <2>1, <2>3
  <2>5. at'.region = next /\ at'.address = 0
    BY <2>1, <2>3
  <2>6. next # 0 => OnObject(regions[IndexOf(next)], 0)
    BY <1>1, StartsOnObject
  <2> QED BY <1>1, <2>1, <2>4, <2>5, <2>6, QuietPreserves
<1>10. CASE SweepObject
  BY <1>10, SweepPreserves
<1>11. CASE SweepEnd
  <2>1. /\ UNCHANGED <<regions, allocRegion, used, epoch>> /\ phase' = "Shrink"
        /\ at' = [region |-> Len(regions)]
    BY <1>1, <1>11 DEF SweepEnd
  <2>2. at'.region \in 0 .. Len(regions)
    BY <1>1, <2>1
  <2> QED BY <1>1, <2>1, <2>2, QuietPreserves
<1>12. CASE ShrinkStep
  BY <1>12, ShrinkPreserves
<1>13. CASE ShrinkEnd
  BY <1>1, <1>13, QuietPreserves DEF ShrinkEnd
<1>14. CASE UNCHANGED vars
  BY <1>14, StutterPreserves DEF vars
<1> QED BY <1>2, <1>3, <1>4, <1>5, <1>6, <1>7, <1>8, <1>9, <1>10, <1>11, <1>12, <1>13, <1>14
       DEF Next, StepCollection

(* The chain is numbered and its regions are filled with whole objects, at *)
(* every point of a collection, and the sweep stands on an object of one.  *)
THEOREM Invariance == Spec => []IInv
<1> QED BY Initially, StepPreserves, PTL DEF Spec

(* sweepStep() always stands in front of whole objects that fill the rest  *)
(* of the region it walks, whatever is promoted into it between its steps. *)
THEOREM SweepStaysOnObjects == Spec => []SweepOnObjects
<1>1. IInv => SweepOnObjects
  <2> SUFFICES ASSUME IInv, phase = "Sweep", at.region # 0, at.address # Swept.allocPointer
               PROVE  /\ at.address < Swept.allocPointer
                      /\ Swept.memory[at.address].size > 0
                      /\ \A a \in at.address .. (Swept.allocPointer - 1) :
                            LET n == Swept.memory[a].size
                            IN  n > 0 => /\ a + n <= Swept.allocPointer
                                         /\ \A b \in (a + 1) .. (a + n - 1) :
                                               Swept.memory[b].size = 0
                                         /\ a + n < Swept.allocPointer =>
                                               Swept.memory[a + n].size > 0
    BY DEF SweepOnObjects
  <2>1. at.region \in 1 .. Len(regions) /\ OnObject(Swept, at.address)
    BY ChainFacts DEF IInv, SweepStands
  <2>2. Swept \in Region /\ Filled(Swept)
    <3>1. IndexOf(at.region) \in 1 .. Len(regions)
      BY <2>1, IndexFacts DEF IInv
    <3> QED BY <3>1, ChainFacts DEF Swept, IInv, ChainOK
  <2>3. PICK end \in Nat, m \in Memory, c \in Nat :
            /\ c < end /\ end = Swept.allocPointer /\ m = Swept.memory
            /\ c = at.address /\ m[c].size > 0
    <3>1. Swept.allocPointer \in Nat /\ Swept.memory \in Memory
      BY <2>2, HeapAssumption DEF Region
    <3>2. at.address \in 0 .. (Swept.allocPointer - 1) /\ Swept.memory[at.address].size > 0
      BY <2>1 DEF OnObject
    <3> QED BY <3>1, <3>2
  <2>4. FilledTo(m, end)
    BY <2>2, <2>3 DEF Filled
  <2>5. \A a \in c .. (end - 1) : m[a].size > 0 =>
            /\ a + m[a].size <= end
            /\ \A b \in (a + 1) .. (a + m[a].size - 1) : m[b].size = 0
            /\ a + m[a].size < end => m[a + m[a].size].size > 0
    <3>1. \A a \in c .. (end - 1) : a \in 0 .. (end - 1)
      OBVIOUS
    <3> QED BY <2>4, <3>1, Zenon DEF FilledTo
  <2> QED BY <2>3, <2>5
<1> QED BY <1>1, Invariance, PTL
==============================================================================
