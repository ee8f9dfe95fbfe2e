---------------------------- MODULE NurseryProofs ----------------------------
(***************************************************************************)
(* Proofs about the collection of the nursery, for spaces of any size, any *)
(* number of references, registers and objects, any promotion age and any  *)
(* growth, and pauses wherever the collector may pause.                    *)
(***************************************************************************)
EXTENDS Nursery, FiniteSetTheorems, TLAPS

-----------------------------------------------------------------------------
(* The inductive invariant, in parts.  Those about the heap are operators  *)
(* of a heap h, as a step of the collector makes one from another: sp are  *)
(* the spaces in use, c is the one that is being copied from.              *)

Ptr == Space \X Int

Object == [id : Nat \ {0}, forward : Ptr, age : Nat, heapID : {"nursery"}, next : Ptr]

HeapTyped(h) == h \in [Space -> Seq(Object)]

DenotesIn(h, sp, p, i) ==
    IF i = 0 THEN p = Null
    ELSE p[1] \in sp /\ p[2] \in 1 .. Len(h[p[1]]) /\ h[p[1]][p[2]].id = i

(* Only objects of the space copied from have a copy, and in another one.  *)
ForwardsIn(h, sp, c) ==
    \A s \in sp : \A i \in 1 .. Len(h[s]) : h[s][i].forward # Null =>
        s = c /\ h[s][i].forward[1] # c /\ DenotesIn(h, sp, h[s][i].forward, h[s][i].id)

(* Of the objects without a copy no two have the same number.              *)
UniqueIn(h, sp) ==
    \A s, t \in sp : \A i \in 1 .. Len(h[s]), j \in 1 .. Len(h[t]) :
        h[s][i].forward = Null /\ h[t][j].forward = Null /\ h[s][i].id = h[t][j].id
            => s = t /\ i = j

(* Their fields lead to what the program put there, but for the young      *)
(* children of promoted objects.                                           *)
ChildrenIn(h, sp, fld) ==
    \A s \in sp : \A i \in 1 .. Len(h[s]) : h[s][i].forward = Null =>
        \/ s = Old /\ h[s][i].next[1] # Old
        \/ DenotesIn(h, sp, h[s][i].next, fld[h[s][i].id])

NumbersIn(h, sp, n) == \A s \in sp : \A i \in 1 .. Len(h[s]) : h[s][i].id <= n

HeapOK(h, sp, c, fld) ==
    /\ ForwardsIn(h, sp, c) /\ UniqueIn(h, sp)
    /\ ChildrenIn(h, sp, fld) /\ NumbersIn(h, sp, made)

(* Each copy in the other space is that of an object of its own.           *)
CopiesIn(h) ==
    \A j \in 1 .. Len(h[to]) : \E i \in 1 .. Len(h[from]) : h[from][i].forward = <<to, j>>

Copying == IF Collecting THEN from ELSE -2

Types ==
    /\ pc \in {"run", "collect", "stale", "fault"}
    /\ phase \in {"Idle", "Roots", "RememberedSet", "CheneyScan"}
    /\ scan \in Nat /\ worked \in BOOLEAN /\ paused \in BOOLEAN /\ unscanned \in SUBSET Ref
    /\ from \in Space \ {Old} /\ remembered = {} /\ HeapTyped(heap)
    /\ refs \in [Ref -> Ptr] /\ regs \in [Register -> Ptr]
    /\ made \in 0 .. MaxObjects
    /\ means \in [Ref -> Int] /\ holds \in [Register -> Int]
    /\ field \in [1 .. MaxObjects -> Int]

(* A reference that was forwarded leads out of the space copied from.      *)
Scanned(r) ==
    phase \in {"RememberedSet", "CheneyScan"} \/ (phase = "Roots" /\ r \notin unscanned)

RefsOK ==
    \A r \in Ref : refs[r] # Unused /\ ~Outgrown(r) =>
        /\ DenotesIn(heap, Spaces, refs[r], means[r])
        /\ Scanned(r) => refs[r][1] # from

RegistersOK ==
    \A x \in fresh \cap Register :
        /\ DenotesIn(heap, Spaces, regs[x], holds[x])
        /\ phase \in {"RememberedSet", "CheneyScan"} => regs[x][1] # from

(* The scan leaves no field behind that leads to the space copied from.    *)
ScanOK ==
    phase = "CheneyScan" =>
        /\ scan \in 1 .. (Len(heap[to]) + 1)
        /\ \A i \in 1 .. (scan - 1) : heap[to][i].next[1] # from

ControlOK ==
    /\ pc = "collect" => Collecting
    /\ pc = "run" /\ Collecting => paused
    /\ ~Collecting => heap[to] = <<>>
    /\ \A i \in (made + 1) .. MaxObjects : field[i] = 0

RoomOK ==
    /\ pc = "fault" => paused
    /\ pc # "fault" => Len(heap[from]) <= Size(from) /\ Len(heap[to]) <= Size(to)
    /\ Collecting /\ ~paused => CopiesIn(heap)

IInv == /\ Types /\ HeapOK(heap, Spaces, Copying, field)
        /\ RefsOK /\ RegistersOK /\ ScanOK /\ ControlOK /\ RoomOK

-----------------------------------------------------------------------------
(* Spaces and pointers.                                                    *)

LEMMA ToFacts ==
    ASSUME from \in Space \ {Old}
    PROVE  /\ to \in Space \ {Old} /\ to # from /\ Size(to) = Size(from)
           /\ Size(from) \in Nat /\ Old \in Space /\ from # Old /\ to # Old
           /\ (to \div 2) = (from \div 2)
           /\ (IF to % 2 = 0 THEN to + 1 ELSE to - 1) = from
<1>1. Resizes \in Nat /\ Capacity \in Nat \ {0}
  BY SizeAssumption
<1>2. from \in 0 .. (2 * Resizes + 1) /\ from \in Nat
  BY <1>1 DEF Space, Old
<1>3. CASE from % 2 = 0
  <2>1. to = from + 1
    BY <1>3 DEF to
  <2>2. from # 2 * Resizes + 1
    BY <1>1, <1>2, <1>3
  <2>3. (from + 1) \div 2 = from \div 2 /\ (from + 1) % 2 = 1 /\ from \div 2 \in Nat
    BY <1>2, <1>3
  <2>4. to \in 0 .. (2 * Resizes + 1)
    BY <1>1, <1>2, <2>1, <2>2
  <2> QED BY <1>1, <1>2, <2>1, <2>3, <2>4 DEF Space, Old, Size
<1>4. CASE from % 2 # 0
  <2>1. to = from - 1
    BY <1>4 DEF to
  <2>2. (from - 1) \div 2 = from \div 2 /\ (from - 1) % 2 = 0 /\ from \div 2 \in Nat
    BY <1>2, <1>4
  <2>3. from # 0
    BY <1>4
  <2>4. to \in 0 .. (2 * Resizes + 1)
    BY <1>1, <1>2, <2>1, <2>3
  <2> QED BY <1>1, <1>2, <2>1, <2>2, <2>4 DEF Space, Old, Size
<1> QED BY <1>3, <1>4

LEMMA NullFacts ==
    /\ Old \in Space /\ Null \in Ptr /\ Unused \in Ptr /\ Null # Unused
    /\ Null[1] = Old /\ Unused[1] = Old /\ Unused[2] = -1
<1>1. Old \in Space
  BY SizeAssumption DEF Space, Old
<1> QED BY <1>1 DEF Ptr, Null, Unused

(* A reference into the spaces in use is of the nursery there is, or leads *)
(* to an old object.                                                       *)
LEMMA SpacesInUse ==
    ASSUME from \in Space \ {Old}, NEW s \in {from, to, Old}
    PROVE  s = Old \/ ~((s \div 2) < (from \div 2))
<1>1. (from \div 2) \in Int /\ (to \div 2) = (from \div 2)
  BY ToFacts, SizeAssumption DEF Space, Old
<1> QED BY <1>1

LEMMA NotOutgrown ==
    ASSUME from \in Space \ {Old}, NEW r \in Ref, refs[r][1] \in {from, to, Old}
    PROVE  ~Outgrown(r)
BY SpacesInUse DEF Outgrown

LEMMA OutgrownStays ==
    ASSUME NEW r \in Ref, refs'[r] = refs[r], from' = from
    PROVE  Outgrown(r)' <=> Outgrown(r)
BY DEF Outgrown

(* What a pointer is said to lead to is told by the objects' numbers.      *)
LEMMA DenotesSame ==
    ASSUME NEW h, NEW g, NEW sp, NEW p, NEW i, DenotesIn(h, sp, p, i),
           \A s \in sp : /\ 1 .. Len(h[s]) \subseteq 1 .. Len(g[s])
                         /\ \A k \in 1 .. Len(h[s]) : g[s][k].id = h[s][k].id
    PROVE  DenotesIn(g, sp, p, i)
<1>1. CASE i = 0
  BY <1>1 DEF DenotesIn
<1>2. CASE i # 0
  <2>1. p[1] \in sp /\ p[2] \in 1 .. Len(h[p[1]]) /\ h[p[1]][p[2]].id = i
    BY <1>2 DEF DenotesIn
  <2>2. p[2] \in 1 .. Len(g[p[1]]) /\ g[p[1]][p[2]].id = i
    BY <2>1
  <2> QED BY <1>2, <2>1, <2>2 DEF DenotesIn
<1> QED BY <1>1, <1>2

LEMMA DenotesRange ==
    ASSUME NEW h, HeapTyped(h), NEW sp \in SUBSET Space, NumbersIn(h, sp, made), made \in Nat,
           NEW p, NEW i, DenotesIn(h, sp, p, i)
    PROVE  /\ i \in 0 .. made /\ p # Unused
           /\ i = 0 => p = Null
           /\ p[1] = Old \/ p[1] \in sp
           /\ i # 0 => /\ p[1] \in sp /\ p[2] \in 1 .. Len(h[p[1]]) /\ p # Null
                       /\ h[p[1]][p[2]] \in Object /\ h[p[1]][p[2]].id = i
<1>1. CASE i = 0
  BY <1>1, NullFacts DEF DenotesIn
<1>2. CASE i # 0
  <2>1. p[1] \in sp /\ p[2] \in 1 .. Len(h[p[1]]) /\ h[p[1]][p[2]].id = i
    BY <1>2 DEF DenotesIn
  <2>2. h[p[1]] \in Seq(Object)
    BY <2>1 DEF HeapTyped
  <2>3. h[p[1]][p[2]] \in Object
    BY <2>1, <2>2
  <2>4. i \in 1 .. made
    BY <2>1, <2>3 DEF NumbersIn, Object
  <2>5. p[2] # 0 /\ p[2] # -1
    BY <2>1
  <2>6. p # Null /\ p # Unused
    BY <2>5 DEF Null, Unused
  <2> QED BY <1>2, <2>1, <2>3, <2>4, <2>6
<1> QED BY <1>1, <1>2

-----------------------------------------------------------------------------
(* forward().                                                              *)

(* The heap g, and the place <<s, n>> of the copy, when object k of the     *)
(* space copied from is copied behind the others of space s.               *)
CopyMade(h, k, s, g, n) ==
    /\ Copy(h, <<from, k>>, s) = [heap |-> g, at |-> <<s, n>>]
    /\ HeapTyped(g) /\ n = Len(h[s]) + 1
    /\ \A t \in Space : Len(g[t]) = IF t = s THEN n ELSE Len(h[t])
    /\ g[s][n].id = h[from][k].id /\ g[s][n].forward = Null
    /\ g[s][n].next = h[from][k].next
    /\ g[from][k].id = h[from][k].id /\ g[from][k].forward = <<s, n>>
    /\ \A t \in Space : \A j \in 1 .. Len(h[t]) : <<t, j>> # <<from, k>> => g[t][j] = h[t][j]

LEMMA CopyShape ==
    ASSUME NEW h, HeapTyped(h), from \in Space \ {Old}, NEW k \in 1 .. Len(h[from]),
           NEW s \in {to, Old}, h[from][k].forward = Null
    PROVE  \E g, n : n \in Nat \ {0} /\ CopyMade(h, k, s, g, n)
<1> DEFINE p == <<from, k>>
<1>1. s \in Space /\ s # from /\ from \in Space
  BY ToFacts
<1>2. PICK hs \in Seq(Object), hf \in Seq(Object), n \in Nat \ {0} :
          hs = h[s] /\ hf = h[from] /\ n = Len(hs) + 1 /\ k \in 1 .. Len(hf)
  <2>1. h[s] \in Seq(Object) /\ h[from] \in Seq(Object)
    BY <1>1 DEF HeapTyped
  <2>2. Len(h[s]) + 1 \in Nat \ {0}
    BY <2>1
  <2> QED BY <2>1, <2>2
<1>3. PICK o \in Object : o = hf[k] /\ o.forward = Null
  BY <1>2
<1>4. PICK copy \in Object : /\ copy = [o EXCEPT !.age = o.age + 1]
                             /\ copy.id = o.id /\ copy.forward = Null /\ copy.next = o.next
  <2>1. PICK age \in Nat : age = o.age + 1
    BY DEF Object
  <2>2. /\ [o EXCEPT !.age = age] \in Object /\ [o EXCEPT !.age = age].id = o.id
        /\ [o EXCEPT !.age = age].forward = o.forward /\ [o EXCEPT !.age = age].next = o.next
    BY DEF Object
  <2> QED BY <1>3, <2>1, <2>2
<1>5. PICK marked \in Object : /\ marked = [o EXCEPT !.forward = <<s, n>>]
                               /\ marked.id = o.id /\ marked.forward = <<s, n>>
  <2> DEFINE marked == [o EXCEPT !.forward = <<s, n>>]
  <2>1. <<s, n>> \in Ptr
    BY <1>1 DEF Ptr
  <2>2. marked \in Object /\ marked.id = o.id /\ marked.forward = <<s, n>>
    BY <2>1 DEF Object
  <2> QED BY <2>2
<1>6. PICK gs \in Seq(Object) : /\ gs = Append(hs, copy) /\ Len(gs) = n /\ gs[n] = copy
                                /\ \A j \in 1 .. Len(hs) : gs[j] = hs[j]
  <2>1. /\ Append(hs, copy) \in Seq(Object) /\ Len(Append(hs, copy)) = n
        /\ Append(hs, copy)[n] = copy
        /\ \A j \in 1 .. Len(hs) : Append(hs, copy)[j] = hs[j]
    BY <1>2
  <2> QED BY <2>1
<1>7. PICK gf \in Seq(Object) : /\ gf = [hf EXCEPT ![k] = marked] /\ Len(gf) = Len(hf)
                                /\ gf[k] = marked
                                /\ \A j \in 1 .. Len(hf) : j # k => gf[j] = hf[j]
  <2>1. /\ [hf EXCEPT ![k] = marked] \in Seq(Object) /\ Len([hf EXCEPT ![k] = marked]) = Len(hf)
        /\ [hf EXCEPT ![k] = marked][k] = marked
        /\ \A j \in 1 .. Len(hf) : j # k => [hf EXCEPT ![k] = marked][j] = hf[j]
    BY <1>2
  <2> QED BY <2>1
<1>8. PICK g : /\ g = [[h EXCEPT ![s] = gs] EXCEPT ![from] = gf] /\ HeapTyped(g)
               /\ g[s] = gs /\ g[from] = gf
               /\ \A t \in Space : t # s /\ t # from => g[t] = h[t]
  <2> DEFINE g == [[h EXCEPT ![s] = gs] EXCEPT ![from] = gf]
  <2>1. g \in [Space -> Seq(Object)]
    BY <1>1 DEF HeapTyped
  <2>2. /\ g[s] = gs /\ g[from] = gf
        /\ \A t \in Space : t # s /\ t # from => g[t] = h[t]
    BY <1>1 DEF HeapTyped
  <2> QED BY <2>1, <2>2 DEF HeapTyped
<1>9. Copy(h, p, s) = [heap |-> g, at |-> <<s, n>>]
  <2>1. p[1] = from /\ p[2] = k
    OBVIOUS
  <2>2. Copy(h, p, s) =
            [heap |-> [h EXCEPT ![s] = Append(h[s], [h[from][k] EXCEPT !.age = h[from][k].age + 1]),
                                ![from][k].forward = <<s, Len(h[s]) + 1>>],
             at |-> <<s, Len(h[s]) + 1>>]
    BY <2>1 DEF Copy
  <2>3. Append(h[s], [h[from][k] EXCEPT !.age = h[from][k].age + 1]) = gs
    BY <1>2, <1>3, <1>4, <1>6
  <2>4. [h[from][k] EXCEPT !.forward = <<s, Len(h[s]) + 1>>] = marked
    BY <1>2, <1>3, <1>5
  <2>5. [h[from] EXCEPT ![k].forward = <<s, Len(h[s]) + 1>>] = gf
    BY <1>2, <1>7, <2>4
  <2>6. [h EXCEPT ![s] = gs][from] = h[from]
    BY <1>1 DEF HeapTyped
  <2>7. [[h EXCEPT ![s] = gs] EXCEPT ![from][k].forward = <<s, Len(h[s]) + 1>>] = g
    BY <1>8, <2>5, <2>6, Zenon
  <2> QED BY <1>2, <2>2, <2>3, <2>7
<1>10. /\ g[s] = gs /\ g[from] = gf /\ \A t \in Space : t # s /\ t # from => g[t] = h[t]
       /\ Len(gs) = n /\ gs[n] = copy /\ \A j \in 1 .. Len(hs) : gs[j] = hs[j]
       /\ Len(gf) = Len(hf) /\ gf[k] = marked
       /\ \A j \in 1 .. Len(hf) : j # k => gf[j] = hf[j]
  BY <1>6, <1>7, <1>8, Zenon
<1>11. ASSUME NEW t \in Space
       PROVE  /\ Len(g[t]) = IF t = s THEN n ELSE Len(h[t])
              /\ \A j \in 1 .. Len(h[t]) : <<t, j>> # p => g[t][j] = h[t][j]
  <2>1. CASE t = s
    BY <1>2, <1>10, <2>1
  <2>2. CASE t = from
    <3>1. \A j \in 1 .. Len(h[t]) : <<t, j>> # p => j # k
      BY <2>2
    <3> QED BY <1>1, <1>2, <1>10, <2>2, <3>1
  <2>3. CASE t # s /\ t # from
    BY <1>10, <2>3
  <2> QED BY <2>1, <2>2, <2>3
<1>12. /\ g[s][n].id = h[from][k].id /\ g[s][n].forward = Null
       /\ g[s][n].next = h[from][k].next
       /\ g[from][k].id = h[from][k].id /\ g[from][k].forward = <<s, n>>
  <2>1. g[s][n] = copy /\ g[from][k] = marked /\ h[from][k] = o
    BY <1>2, <1>3, <1>10
  <2>2. /\ copy.id = o.id /\ copy.forward = Null /\ copy.next = o.next
        /\ marked.id = o.id /\ marked.forward = <<s, n>>
    BY <1>4, <1>5
  <2> QED BY <2>1, <2>2
<1>13. HeapTyped(g) /\ n = Len(h[s]) + 1
  BY <1>2, <1>8
<1>14. /\ \A t \in Space : Len(g[t]) = IF t = s THEN n ELSE Len(h[t])
       /\ \A t \in Space : \A j \in 1 .. Len(h[t]) : <<t, j>> # p => g[t][j] = h[t][j]
  BY <1>11
<1>15. n \in Nat \ {0} /\ CopyMade(h, k, s, g, n)
  BY <1>2, <1>9, <1>12, <1>13, <1>14 DEF CopyMade
<1> QED BY <1>15

LEMMA CopyOK ==
    ASSUME NEW h, HeapTyped(h), from \in Space \ {Old}, Collecting, NEW fld,
           HeapOK(h, Spaces, from, fld), NEW k \in 1 .. Len(h[from]), NEW s \in {to, Old},
           h[from][k].forward = Null, NEW g, NEW n \in Nat \ {0}, CopyMade(h, k, s, g, n)
    PROVE  /\ HeapOK(g, Spaces, from, fld)
           /\ \A p, i : DenotesIn(h, Spaces, p, i) => DenotesIn(g, Spaces, p, i)
           /\ CopiesIn(h) => CopiesIn(g)
<1>1. /\ Spaces = {from, to, Old} /\ Spaces \subseteq Space
      /\ to # from /\ from # Old /\ to # Old /\ s # from
  BY ToFacts DEF Spaces
<1>2. /\ HeapTyped(g) /\ n = Len(h[s]) + 1
      /\ \A t \in Space : Len(g[t]) = IF t = s THEN n ELSE Len(h[t])
      /\ g[s][n].id = h[from][k].id /\ g[s][n].forward = Null
      /\ g[s][n].next = h[from][k].next
      /\ g[from][k].id = h[from][k].id /\ g[from][k].forward = <<s, n>>
  BY DEF CopyMade
<1>3. \A t \in Space : \A j \in 1 .. Len(h[t]) : (t # from \/ j # k) => g[t][j] = h[t][j]
  BY DEF CopyMade
<1>4. \A t \in Space : Len(h[t]) \in Nat
  BY DEF HeapTyped
<1>5. ASSUME NEW t \in Spaces, NEW j \in 1 .. Len(g[t])
      PROVE  \/ t = s /\ j = n
             \/ t = from /\ j = k
             \/ j \in 1 .. Len(h[t]) /\ (t # from \/ j # k) /\ g[t][j] = h[t][j]
  <2>1. t \in Space /\ Len(h[t]) \in Nat /\ Len(g[t]) = IF t = s THEN n ELSE Len(h[t])
    BY <1>1, <1>2, <1>4
  <2>2. t = s => j = n \/ j \in 1 .. Len(h[t])
    BY <1>2, <2>1
  <2>3. t # s => j \in 1 .. Len(h[t])
    BY <2>1
  <2> QED BY <1>3, <2>1, <2>2, <2>3
<1>6. ASSUME NEW t \in Spaces
      PROVE  /\ 1 .. Len(h[t]) \subseteq 1 .. Len(g[t])
             /\ \A j \in 1 .. Len(h[t]) : g[t][j].id = h[t][j].id
  <2>1. t \in Space /\ Len(h[t]) \in Nat /\ Len(g[t]) = IF t = s THEN n ELSE Len(h[t])
    BY <1>1, <1>2, <1>4
  <2>2. 1 .. Len(h[t]) \subseteq 1 .. Len(g[t])
    BY <1>2, <2>1
  <2>3. \A j \in 1 .. Len(h[t]) : g[t][j].id = h[t][j].id
    BY <1>2, <1>3, <2>1
  <2> QED BY <2>2, <2>3
<1>7. ASSUME NEW p, NEW i, DenotesIn(h, Spaces, p, i) PROVE DenotesIn(g, Spaces, p, i)
  BY <1>6, <1>7, DenotesSame
<1>8. /\ s \in Spaces /\ n \in 1 .. Len(g[s]) /\ from \in Spaces /\ k \in 1 .. Len(h[from])
      /\ <<s, n>> # Null
  BY <1>1, <1>2 DEF Null
<1>9. ForwardsIn(g, Spaces, from)
  <2> SUFFICES ASSUME NEW t \in Spaces, NEW j \in 1 .. Len(g[t]), g[t][j].forward # Null
               PROVE  /\ t = from /\ g[t][j].forward[1] # from
                      /\ DenotesIn(g, Spaces, g[t][j].forward, g[t][j].id)
    BY DEF ForwardsIn
  <2>1. CASE t = from /\ j = k
    <3>1. h[from][k].id # 0
      <4>1. h[from] \in Seq(Object)
        BY <1>1 DEF HeapTyped
      <4>2. h[from][k] \in Object
        BY <4>1
      <4> QED BY <4>2 DEF Object
    <3>2. DenotesIn(g, Spaces, <<s, n>>, h[from][k].id)
      BY <1>2, <1>8, <3>1 DEF DenotesIn
    <3>3. g[t][j].forward = <<s, n>> /\ g[t][j].id = h[from][k].id
      BY <1>2, <2>1
    <3> QED BY <1>1, <2>1, <3>2, <3>3
  <2>2. CASE j \in 1 .. Len(h[t]) /\ g[t][j] = h[t][j]
    <3>1. /\ t = from /\ h[t][j].forward[1] # from
          /\ DenotesIn(h, Spaces, h[t][j].forward, h[t][j].id)
      BY <2>2 DEF HeapOK, ForwardsIn
    <3>2. DenotesIn(g, Spaces, h[t][j].forward, h[t][j].id)
      BY <1>7, <3>1
    <3> QED BY <2>2, <3>1, <3>2
  <2> QED BY <1>2, <1>5, <2>1, <2>2
<1>10. UniqueIn(g, Spaces)
  <2>1. ASSUME NEW t \in Spaces, NEW j \in 1 .. Len(g[t]), g[t][j].forward = Null
        PROVE  \/ t = s /\ j = n /\ g[t][j].id = h[from][k].id
               \/ /\ j \in 1 .. Len(h[t]) /\ g[t][j] = h[t][j] /\ h[t][j].forward = Null
                  /\ h[t][j].id # h[from][k].id
    <3>1. CASE t = s /\ j = n
      BY <1>2, <3>1
    <3>2. CASE t = from /\ j = k
      BY <1>2, <1>8, <2>1, <3>2
    <3>3. CASE j \in 1 .. Len(h[t]) /\ (t # from \/ j # k) /\ g[t][j] = h[t][j]
      <4>1. h[t][j].forward = Null
        BY <2>1, <3>3
      <4>2. h[t][j].id # h[from][k].id
        BY <1>8, <3>3, <4>1 DEF HeapOK, UniqueIn
      <4> QED BY <3>3, <4>1, <4>2
    <3> QED BY <1>5, <3>1, <3>2, <3>3
  <2> SUFFICES ASSUME NEW t \in Spaces, NEW u \in Spaces,
                      NEW i \in 1 .. Len(g[t]), NEW j \in 1 .. Len(g[u]),
                      g[t][i].forward = Null, g[u][j].forward = Null, g[t][i].id = g[u][j].id
               PROVE  t = u /\ i = j
    BY DEF UniqueIn
  <2>2. \/ t = s /\ i = n /\ g[t][i].id = h[from][k].id
        \/ /\ i \in 1 .. Len(h[t]) /\ g[t][i] = h[t][i] /\ h[t][i].forward = Null
           /\ h[t][i].id # h[from][k].id
    BY <2>1
  <2>3. \/ u = s /\ j = n /\ g[u][j].id = h[from][k].id
        \/ /\ j \in 1 .. Len(h[u]) /\ g[u][j] = h[u][j] /\ h[u][j].forward = Null
           /\ h[u][j].id # h[from][k].id
    BY <2>1
  <2>4. \/ t = s /\ i = n /\ u = s /\ j = n
        \/ /\ i \in 1 .. Len(h[t]) /\ j \in 1 .. Len(h[u]) /\ h[t][i].id = h[u][j].id
           /\ h[t][i].forward = Null /\ h[u][j].forward = Null
    BY <2>2, <2>3
  <2>5. UniqueIn(h, Spaces)
    BY DEF HeapOK
  <2> QED BY <2>4, <2>5 DEF UniqueIn
<1>11. ChildrenIn(g, Spaces, fld)
  <2> SUFFICES ASSUME NEW t \in Spaces, NEW j \in 1 .. Len(g[t]), g[t][j].forward = Null
               PROVE  \/ t = Old /\ g[t][j].next[1] # Old
                      \/ DenotesIn(g, Spaces, g[t][j].next, fld[g[t][j].id])
    BY DEF ChildrenIn
  <2>1. CASE t = s /\ j = n
    <3>1. DenotesIn(h, Spaces, h[from][k].next, fld[h[from][k].id])
      BY <1>1, <1>8 DEF HeapOK, ChildrenIn
    <3>2. DenotesIn(g, Spaces, h[from][k].next, fld[h[from][k].id])
      BY <1>7, <3>1
    <3> QED BY <1>2, <2>1, <3>2
  <2>2. CASE t = from /\ j = k
    BY <1>2, <1>8, <2>2
  <2>3. CASE j \in 1 .. Len(h[t]) /\ g[t][j] = h[t][j]
    <3>1. \/ t = Old /\ h[t][j].next[1] # Old
          \/ DenotesIn(h, Spaces, h[t][j].next, fld[h[t][j].id])
      BY <2>3 DEF HeapOK, ChildrenIn
    <3>2. DenotesIn(h, Spaces, h[t][j].next, fld[h[t][j].id])
              => DenotesIn(g, Spaces, h[t][j].next, fld[h[t][j].id])
      BY <1>7
    <3> QED BY <2>3, <3>1, <3>2
  <2> QED BY <1>5, <2>1, <2>2, <2>3
<1>12. NumbersIn(g, Spaces, made)
  <2> SUFFICES ASSUME NEW t \in Spaces, NEW j \in 1 .. Len(g[t])
               PROVE  g[t][j].id <= made
    BY DEF NumbersIn
  <2>1. g[t][j].id = h[from][k].id \/ (j \in 1 .. Len(h[t]) /\ g[t][j].id = h[t][j].id)
    BY <1>2, <1>5
  <2> QED BY <1>8, <2>1 DEF HeapOK, NumbersIn
<1>13. ASSUME CopiesIn(h) PROVE CopiesIn(g)
  <2> SUFFICES ASSUME NEW j \in 1 .. Len(g[to])
               PROVE  \E i \in 1 .. Len(g[from]) : g[from][i].forward = <<to, j>>
    BY DEF CopiesIn
  <2>1. Len(g[from]) = Len(h[from])
    BY <1>1, <1>2
  <2>2. CASE to = s /\ j = n
    BY <1>2, <1>8, <2>1, <2>2
  <2>3. CASE j \in 1 .. Len(h[to])
    <3>1. PICK i \in 1 .. Len(h[from]) : h[from][i].forward = <<to, j>>
      BY <1>13, <2>3 DEF CopiesIn
    <3>2. i # k
      BY <1>1, <3>1 DEF Null
    <3>3. g[from][i] = h[from][i]
      BY <1>1, <1>3, <3>2
    <3> QED BY <2>1, <3>1, <3>3
  <2> QED BY <1>1, <1>5, <2>2, <2>3
<1> QED BY <1>7, <1>9, <1>10, <1>11, <1>12, <1>13 DEF HeapOK

(* What forward() leaves of heap h, and what it returns for a pointer p to *)
(* the object with number i: heap g, and a pointer q to the same object    *)
(* that does not lead to the space copied from.                            *)
Forwarded(h, p, i, fld, g, q) ==
    /\ Forward(h, p) = [heap |-> g, at |-> q]
    /\ HeapTyped(g) /\ HeapOK(g, Spaces, from, fld) /\ (CopiesIn(h) => CopiesIn(g))
    /\ \A u, j : DenotesIn(h, Spaces, u, j) => DenotesIn(g, Spaces, u, j)
    /\ q \in Ptr /\ q # Unused /\ q[1] # from /\ DenotesIn(g, Spaces, q, i)
    /\ Len(g[from]) = Len(h[from])
    /\ \A t \in {to, Old} : /\ Len(h[t]) \in Nat /\ Len(g[t]) \in Nat /\ Len(h[t]) <= Len(g[t])
                            /\ \A j \in 1 .. Len(h[t]) : g[t][j] = h[t][j]
    /\ \A j \in 1 .. Len(g[to]) : j \in 1 .. Len(h[to]) \/ g[to][j].id = i

LEMMA ForwardOK ==
    ASSUME NEW h, HeapTyped(h), from \in Space \ {Old}, Collecting, made \in Nat, NEW fld,
           HeapOK(h, Spaces, from, fld), NEW p \in Ptr, NEW i, DenotesIn(h, Spaces, p, i)
    PROVE  \E g, q : Forwarded(h, p, i, fld, g, q)
<1>1. /\ Spaces = {from, to, Old} /\ Spaces \subseteq Space
      /\ to # from /\ from # Old /\ to # Old
  BY ToFacts DEF Spaces
<1>2. \A t \in Space : Len(h[t]) \in Nat
  BY DEF HeapTyped
<1>3. /\ p # Unused
      /\ p[1] = from => p[2] \in 1 .. Len(h[from]) /\ h[from][p[2]].id = i
                        /\ h[from][p[2]] \in Object
  <2>1. NumbersIn(h, Spaces, made) /\ Spaces \in SUBSET Space
    BY <1>1 DEF HeapOK
  <2>2. /\ p # Unused /\ (i = 0 => p = Null)
        /\ i # 0 => p[2] \in 1 .. Len(h[p[1]]) /\ h[p[1]][p[2]].id = i /\ h[p[1]][p[2]] \in Object
    BY <2>1, DenotesRange
  <2>3. p[1] = from => i # 0
    BY <1>1, <2>2, NullFacts
  <2> QED BY <2>2, <2>3
<1>4. CASE p[1] # from
  <2>1. Forward(h, p) = [heap |-> h, at |-> p]
    BY <1>4 DEF Forward
  <2>2. Forwarded(h, p, i, fld, h, p)
    BY <1>1, <1>2, <1>3, <1>4, <2>1 DEF Forwarded
  <2> QED BY <2>2
<1>5. CASE p[1] = from /\ h[from][p[2]].forward # Null
  <2> DEFINE q == h[from][p[2]].forward
  <2>1. Forward(h, p) = [heap |-> h, at |-> q]
    BY <1>5 DEF Forward
  <2>2. q[1] # from /\ DenotesIn(h, Spaces, q, i)
    BY <1>1, <1>3, <1>5 DEF HeapOK, ForwardsIn
  <2>3. q \in Ptr
    BY <1>3, <1>5 DEF Object
  <2>4. q # Unused
    BY <1>1, <2>2, DenotesRange DEF HeapOK
  <2>5. Forwarded(h, p, i, fld, h, q)
    BY <1>1, <1>2, <2>1, <2>2, <2>3, <2>4 DEF Forwarded
  <2> QED BY <2>5
<1>6. CASE p[1] = from /\ h[from][p[2]].forward = Null
  <2>1. PICK k \in 1 .. Len(h[from]) : k = p[2] /\ h[from][k].forward = Null /\ h[from][k].id = i
    BY <1>3, <1>6
  <2>2. PICK s \in {to, Old} : Forward(h, p) = Copy(h, p, s)
    BY <1>6 DEF Forward
  <2>3. p = <<from, k>>
    BY <1>6, <2>1 DEF Ptr
  <2>4. PICK g, n : n \in Nat \ {0} /\ CopyMade(h, k, s, g, n)
    BY <2>1, CopyShape
  <2> DEFINE q == <<s, n>>
  <2>5. /\ Forward(h, p) = [heap |-> g, at |-> q] /\ HeapTyped(g) /\ n = Len(h[s]) + 1
        /\ \A t \in Space : Len(g[t]) = IF t = s THEN n ELSE Len(h[t])
        /\ g[s][n].id = i
        /\ \A t \in {to, Old} : \A j \in 1 .. Len(h[t]) : g[t][j] = h[t][j]
    <3>1. Copy(h, p, s) = [heap |-> g, at |-> q]
      BY <2>3, <2>4 DEF CopyMade
    <3>2. \A t \in {to, Old} : \A j : <<t, j>> # <<from, k>>
      BY <1>1
    <3>3. \A t \in {to, Old} : \A j \in 1 .. Len(h[t]) : g[t][j] = h[t][j]
      BY <1>1, <2>4, <3>2 DEF CopyMade
    <3> QED BY <2>1, <2>2, <2>4, <3>1, <3>3 DEF CopyMade
  <2>6. /\ HeapOK(g, Spaces, from, fld)
        /\ \A u, j : DenotesIn(h, Spaces, u, j) => DenotesIn(g, Spaces, u, j)
        /\ CopiesIn(h) => CopiesIn(g)
    BY <2>1, <2>4, CopyOK
  <2>7. q \in Ptr /\ q # Unused /\ q[1] # from /\ s \in Space
    BY <1>1, <2>4 DEF Ptr, Unused
  <2>8. DenotesIn(g, Spaces, q, i)
    <3>1. h[from][k] \in Object
      BY <1>3, <1>6, <2>1
    <3>2. i # 0
      BY <2>1, <3>1 DEF Object
    <3>3. n \in 1 .. Len(g[s])
      BY <1>2, <2>4, <2>5, <2>7
    <3> QED BY <1>1, <2>5, <2>7, <3>2, <3>3 DEF DenotesIn
  <2>9. /\ Len(g[from]) = Len(h[from])
        /\ \A t \in {to, Old} : Len(h[t]) \in Nat /\ Len(g[t]) \in Nat /\ Len(h[t]) <= Len(g[t])
    BY <1>1, <1>2, <2>4, <2>5
  <2>10. \A j \in 1 .. Len(g[to]) : j \in 1 .. Len(h[to]) \/ g[to][j].id = i
    <3>1. to \in Space /\ Len(h[to]) \in Nat
      BY <1>1, <1>2
    <3>2. CASE s = to
      <4>1. Len(g[to]) = Len(h[to]) + 1 /\ g[to][Len(h[to]) + 1].id = i
        BY <2>5, <3>1, <3>2
      <4>2. \A j \in 1 .. (Len(h[to]) + 1) : j \in 1 .. Len(h[to]) \/ j = Len(h[to]) + 1
        BY <3>1
      <4> QED BY <4>1, <4>2
    <3>3. CASE s # to
      BY <2>5, <3>1, <3>3
    <3> QED BY <3>2, <3>3
  <2>11. Forwarded(h, p, i, fld, g, q)
    BY <2>5, <2>6, <2>7, <2>8, <2>9, <2>10 DEF Forwarded
  <2> QED BY <2>11
<1> QED BY <1>4, <1>5, <1>6

(* Copies of different objects are in different places, so there are no    *)
(* more of them than objects.                                              *)
LEMMA RoomSuffices ==
    ASSUME NEW h, HeapTyped(h), from \in Space \ {Old}, CopiesIn(h)
    PROVE  Len(h[to]) <= Len(h[from])
<1>1. PICK m \in Nat, n \in Nat : m = Len(h[to]) /\ n = Len(h[from])
  <2>1. Len(h[to]) \in Nat /\ Len(h[from]) \in Nat
    BY ToFacts DEF HeapTyped
  <2> QED BY <2>1
<1>2. \A j \in 1 .. m : \E i \in 1 .. n : h[from][i].forward = <<to, j>>
  BY <1>1 DEF CopiesIn
<1> DEFINE original == [j \in 1 .. m |-> CHOOSE i \in 1 .. n : h[from][i].forward = <<to, j>>]
<1>3. \A j \in 1 .. m : original[j] \in 1 .. n /\ h[from][original[j]].forward = <<to, j>>
  BY <1>2
<1>4. original \in [1 .. m -> 1 .. n]
  BY <1>3
<1> HIDE DEF original
<1>5. ASSUME NEW j \in 1 .. m, NEW k \in 1 .. m, original[j] = original[k] PROVE j = k
  <2>1. <<to, j>> = <<to, k>>
    BY <1>3, <1>5
  <2> QED BY <2>1
<1>6. /\ IsFiniteSet(1 .. m) /\ IsFiniteSet(1 .. n)
      /\ Cardinality(1 .. m) = m /\ Cardinality(1 .. n) = n
  BY FS_Interval
<1>7. ~(n < m)
  <2> SUFFICES ASSUME n < m PROVE FALSE
    OBVIOUS
  <2>1. \E j, k \in 1 .. m : j # k /\ original[j] = original[k]
    BY <1>4, <1>6, FS_PigeonHole
  <2> QED BY <1>5, <2>1
<1> QED BY <1>1, <1>7

(* Two heaps whose objects differ in their fields and ages only.           *)
Alike(h, g, sp) ==
    \A t \in sp : /\ Len(g[t]) = Len(h[t])
                  /\ \A j \in 1 .. Len(h[t]) : /\ g[t][j].id = h[t][j].id
                                                /\ g[t][j].forward = h[t][j].forward

LEMMA ObjectsAlike ==
    ASSUME NEW h, NEW g, NEW sp, NEW c, NEW n, Alike(h, g, sp)
    PROVE  /\ \A u, j : DenotesIn(h, sp, u, j) => DenotesIn(g, sp, u, j)
           /\ ForwardsIn(h, sp, c) => ForwardsIn(g, sp, c)
           /\ UniqueIn(h, sp) => UniqueIn(g, sp)
           /\ NumbersIn(h, sp, n) => NumbersIn(g, sp, n)
<1>1. ASSUME NEW u, NEW j, DenotesIn(h, sp, u, j) PROVE DenotesIn(g, sp, u, j)
  BY <1>1, DenotesSame DEF Alike
<1>2. ASSUME ForwardsIn(h, sp, c) PROVE ForwardsIn(g, sp, c)
  <2> SUFFICES ASSUME NEW t \in sp, NEW j \in 1 .. Len(g[t]), g[t][j].forward # Null
               PROVE  /\ t = c /\ g[t][j].forward[1] # c
                      /\ DenotesIn(g, sp, g[t][j].forward, g[t][j].id)
    BY DEF ForwardsIn
  <2>1. /\ t = c /\ h[t][j].forward[1] # c
        /\ DenotesIn(h, sp, h[t][j].forward, h[t][j].id)
    BY <1>2 DEF ForwardsIn, Alike
  <2> QED BY <1>1, <2>1 DEF Alike
<1>3. ASSUME UniqueIn(h, sp) PROVE UniqueIn(g, sp)
  <2> SUFFICES ASSUME NEW t \in sp, NEW u \in sp,
                      NEW a \in 1 .. Len(g[t]), NEW b \in 1 .. Len(g[u]),
                      g[t][a].forward = Null, g[u][b].forward = Null, g[t][a].id = g[u][b].id
               PROVE  t = u /\ a = b
    BY DEF UniqueIn
  <2>1. /\ a \in 1 .. Len(h[t]) /\ b \in 1 .. Len(h[u]) /\ h[t][a].id = h[u][b].id
        /\ h[t][a].forward = Null /\ h[u][b].forward = Null
    BY DEF Alike
  <2> QED BY <1>3, <2>1 DEF UniqueIn
<1>4. ASSUME NumbersIn(h, sp, n) PROVE NumbersIn(g, sp, n)
  BY <1>4 DEF NumbersIn, Alike
<1> QED BY <1>1, <1>2, <1>3, <1>4

(* Pointer p is put into the field of object k of space s.                 *)
Write(h, s, k, p) == [h EXCEPT ![s][k].next = p]

FieldSet(h, g, s, k, p) ==
    \A t \in Space : /\ Len(g[t]) = Len(h[t])
                     /\ \A j \in 1 .. Len(h[t]) :
                            /\ g[t][j].id = h[t][j].id /\ g[t][j].forward = h[t][j].forward
                            /\ t = s /\ j = k => g[t][j].next = p
                            /\ t # s \/ j # k => g[t][j] = h[t][j]

(* A heap is still sound when one of its fields is written, together with  *)
(* what the program means by it.                                           *)
LEMMA FieldWritten ==
    ASSUME NEW h, HeapTyped(h), Spaces \in SUBSET Space, HeapOK(h, Spaces, Copying, field),
           made \in 0 .. MaxObjects, NEW s \in Spaces, NEW k \in 1 .. Len(h[s]),
           h[s][k].forward = Null, NEW p \in Ptr, NEW new,
           DenotesIn(h, Spaces, p, new[h[s][k].id]),
           \A j \in 1 .. MaxObjects : j # h[s][k].id => new[j] = field[j]
    PROVE  /\ HeapTyped(Write(h, s, k, p)) /\ HeapOK(Write(h, s, k, p), Spaces, Copying, new)
           /\ FieldSet(h, Write(h, s, k, p), s, k, p)
           /\ \A u, j : DenotesIn(h, Spaces, u, j) => DenotesIn(Write(h, s, k, p), Spaces, u, j)
<1> DEFINE g   == Write(h, s, k, p)
           i   == new[h[s][k].id]
           fld == field
           sp  == Spaces
           c   == Copying
<1>1. s \in Space /\ h[s] \in Seq(Object)
  BY DEF HeapTyped
<1>2. PICK hs \in Seq(Object) : hs = h[s] /\ k \in 1 .. Len(hs)
  BY <1>1
<1>3. PICK o \in Object : o = hs[k]
  BY <1>2
<1>4. PICK w \in Object : /\ w = [o EXCEPT !.next = p] /\ w.id = o.id
                          /\ w.forward = o.forward /\ w.next = p
  <2>1. /\ [o EXCEPT !.next = p] \in Object /\ [o EXCEPT !.next = p].id = o.id
        /\ [o EXCEPT !.next = p].forward = o.forward /\ [o EXCEPT !.next = p].next = p
    BY DEF Object
  <2> QED BY <2>1
<1>5. PICK gs \in Seq(Object) : /\ gs = [hs EXCEPT ![k] = w] /\ Len(gs) = Len(hs) /\ gs[k] = w
                                /\ \A j \in 1 .. Len(hs) : j # k => gs[j] = hs[j]
  <2>1. /\ [hs EXCEPT ![k] = w] \in Seq(Object) /\ Len([hs EXCEPT ![k] = w]) = Len(hs)
        /\ [hs EXCEPT ![k] = w][k] = w
        /\ \A j \in 1 .. Len(hs) : j # k => [hs EXCEPT ![k] = w][j] = hs[j]
    BY <1>2
  <2> QED BY <2>1
<1>6. /\ HeapTyped([h EXCEPT ![s] = gs]) /\ [h EXCEPT ![s] = gs][s] = gs
      /\ \A t \in Space : t # s => [h EXCEPT ![s] = gs][t] = h[t]
  BY <1>1 DEF HeapTyped
<1>7. g = [h EXCEPT ![s] = gs]
  <2>1. [h[s] EXCEPT ![k] = [h[s][k] EXCEPT !.next = p]] = gs
    BY <1>2, <1>3, <1>4, <1>5
  <2> QED BY <2>1 DEF Write
<1>8. HeapTyped(g) /\ g[s] = gs /\ \A t \in Space : t # s => g[t] = h[t]
  BY <1>6, <1>7
<1> HIDE DEF g
<1>9. ASSUME NEW t \in Space
      PROVE  /\ Len(g[t]) = Len(h[t])
             /\ \A j \in 1 .. Len(h[t]) :
                    /\ g[t][j].id = h[t][j].id /\ g[t][j].forward = h[t][j].forward
                    /\ t = s /\ j = k => g[t][j].next = p
                    /\ t # s \/ j # k => g[t][j] = h[t][j]
  <2>1. CASE t # s
    BY <1>8, <2>1
  <2>2. CASE t = s
    <3>1. g[s] = gs /\ h[s] = hs /\ Len(gs) = Len(hs) /\ gs[k] = w /\ hs[k] = o
      BY <1>2, <1>3, <1>5, <1>8
    <3>2. \A j \in 1 .. Len(hs) : j # k => gs[j] = hs[j]
      BY <1>5
    <3> QED BY <1>4, <2>2, <3>1, <3>2
  <2> QED BY <2>1, <2>2
<1>10. \A t \in sp : t \in Space
  OBVIOUS
<1>11. /\ \A u, j : DenotesIn(h, sp, u, j) => DenotesIn(g, sp, u, j)
       /\ ForwardsIn(g, sp, c) /\ UniqueIn(g, sp) /\ NumbersIn(g, sp, made)
  <2>1. Alike(h, g, sp)
    BY <1>9, <1>10 DEF Alike
  <2>2. ForwardsIn(h, sp, c) /\ UniqueIn(h, sp) /\ NumbersIn(h, sp, made)
    BY DEF HeapOK
  <2> QED BY <2>1, <2>2, ObjectsAlike
<1>12. new[h[s][k].id] = i /\ \A j \in 1 .. MaxObjects : j # h[s][k].id => new[j] = fld[j]
  OBVIOUS
<1>13. ChildrenIn(g, sp, new)
  <2> SUFFICES ASSUME NEW t \in sp, NEW j \in 1 .. Len(g[t]), g[t][j].forward = Null
               PROVE  \/ t = Old /\ g[t][j].next[1] # Old
                      \/ DenotesIn(g, sp, g[t][j].next, new[g[t][j].id])
    BY DEF ChildrenIn
  <2>1. j \in 1 .. Len(h[t]) /\ g[t][j].id = h[t][j].id /\ h[t][j].forward = Null
    BY <1>9, <1>10
  <2>2. CASE t = s /\ j = k
    <3>1. g[t][j].next = p /\ new[g[t][j].id] = i
      BY <1>9, <1>12, <2>1, <2>2
    <3>2. DenotesIn(g, sp, p, i)
      BY <1>11
    <3> QED BY <3>1, <3>2
  <2>3. CASE t # s \/ j # k
    <3>1. g[t][j] = h[t][j] /\ h[t][j].id # h[s][k].id
      <4>1. UniqueIn(h, sp)
        BY DEF HeapOK
      <4>2. g[t][j] = h[t][j]
        BY <1>9, <1>10, <2>1, <2>3
      <4> QED BY <2>1, <2>3, <4>1, <4>2 DEF UniqueIn
    <3>2. h[t][j].id \in 1 .. MaxObjects
      <4>1. h[t] \in Seq(Object)
        BY <1>10 DEF HeapTyped
      <4>2. h[t][j] \in Object /\ h[t][j].id <= made
        BY <2>1, <4>1 DEF HeapOK, NumbersIn
      <4>3. PICK d \in Nat \ {0} : d = h[t][j].id
        BY <4>2 DEF Object
      <4>4. PICK n \in Nat, m \in Nat : n = made /\ m = MaxObjects /\ n <= m
        BY SizeAssumption
      <4>5. d <= n
        BY <4>2, <4>3, <4>4
      <4>6. d \in 1 .. m
        BY <4>4, <4>5
      <4> QED BY <4>3, <4>4, <4>6
    <3>3. new[g[t][j].id] = fld[h[t][j].id]
      BY <1>12, <3>1, <3>2
    <3>4. \/ t = Old /\ h[t][j].next[1] # Old
          \/ DenotesIn(h, sp, h[t][j].next, fld[h[t][j].id])
      BY <2>1 DEF HeapOK, ChildrenIn
    <3>5. DenotesIn(h, sp, h[t][j].next, fld[h[t][j].id])
              => DenotesIn(g, sp, h[t][j].next, fld[h[t][j].id])
      BY <1>11
    <3> QED BY <3>1, <3>3, <3>4, <3>5
  <2> QED BY <2>2, <2>3
<1>14. HeapOK(g, sp, c, new)
  BY <1>11, <1>13 DEF HeapOK
<1>15. FieldSet(h, g, s, k, p)
  BY <1>9 DEF FieldSet
<1> QED BY <1>8, <1>11, <1>14, <1>15, Zenon DEF g

(* A new object is put behind the others of a space.                       *)
Added(h, s, o) == [h EXCEPT ![s] = Append(h[s], o)]

LEMMA ObjectAdded ==
    ASSUME NEW h, HeapTyped(h), Spaces \in SUBSET Space, HeapOK(h, Spaces, Copying, field),
           made \in Nat, field[made + 1] = 0, NEW s \in Spaces, NEW o \in Object,
           o.id = made + 1, o.forward = Null, o.next = Null
    PROVE  LET g == Added(h, s, o) IN
           /\ HeapTyped(g) /\ ForwardsIn(g, Spaces, Copying) /\ UniqueIn(g, Spaces)
           /\ ChildrenIn(g, Spaces, field) /\ NumbersIn(g, Spaces, made + 1)
           /\ \A u, j : DenotesIn(h, Spaces, u, j) => DenotesIn(g, Spaces, u, j)
           /\ Len(g[s]) = Len(h[s]) + 1 /\ DenotesIn(g, Spaces, <<s, Len(g[s])>>, made + 1)
           /\ \A t \in Space \ {s} : g[t] = h[t]
           /\ \A j \in 1 .. Len(h[s]) : g[s][j] = h[s][j]
<1> DEFINE g   == Added(h, s, o)
           fld == field
           sp  == Spaces
           c   == Copying
<1>1. s \in Space /\ h[s] \in Seq(Object) /\ \A t \in sp : t \in Space
  BY DEF HeapTyped
<1>2. PICK hs \in Seq(Object), n \in Nat \ {0} : hs = h[s] /\ n = Len(hs) + 1
  <2>1. Len(h[s]) + 1 \in Nat \ {0}
    BY <1>1
  <2> QED BY <1>1, <2>1
<1>3. PICK gs \in Seq(Object) : /\ gs = Append(hs, o) /\ Len(gs) = n /\ gs[n] = o
                                /\ \A j \in 1 .. Len(hs) : gs[j] = hs[j]
  <2>1. /\ Append(hs, o) \in Seq(Object) /\ Len(Append(hs, o)) = n /\ Append(hs, o)[n] = o
        /\ \A j \in 1 .. Len(hs) : Append(hs, o)[j] = hs[j]
    BY <1>2
  <2> QED BY <2>1
<1>4. HeapTyped(g) /\ g[s] = gs /\ \A t \in Space \ {s} : g[t] = h[t]
  <2>1. g = [h EXCEPT ![s] = gs]
    BY <1>2, <1>3 DEF Added
  <2>2. /\ HeapTyped([h EXCEPT ![s] = gs]) /\ [h EXCEPT ![s] = gs][s] = gs
        /\ \A t \in Space \ {s} : [h EXCEPT ![s] = gs][t] = h[t]
    BY <1>1 DEF HeapTyped
  <2> QED BY <2>1, <2>2
<1> HIDE DEF g
<1>5. /\ Len(g[s]) = n /\ g[s][n] = o /\ Len(h[s]) = n - 1
      /\ \A j \in 1 .. Len(h[s]) : g[s][j] = h[s][j]
  BY <1>2, <1>3, <1>4
<1>6. ASSUME NEW t \in sp, NEW j \in 1 .. Len(g[t])
      PROVE  (t = s /\ j = n) \/ (j \in 1 .. Len(h[t]) /\ g[t][j] = h[t][j])
  <2>1. CASE t = s
    <3>1. j = n \/ j \in 1 .. (n - 1)
      BY <1>2, <1>5, <2>1
    <3> QED BY <1>5, <2>1, <3>1
  <2>2. CASE t # s
    BY <1>1, <1>4, <2>2
  <2> QED BY <2>1, <2>2
<1>7. ASSUME NEW t \in sp
      PROVE  /\ 1 .. Len(h[t]) \subseteq 1 .. Len(g[t])
             /\ \A j \in 1 .. Len(h[t]) : g[t][j].id = h[t][j].id
  <2>1. CASE t = s
    <3>1. 1 .. (n - 1) \subseteq 1 .. n
      BY <1>2
    <3> QED BY <1>5, <2>1, <3>1
  <2>2. CASE t # s
    BY <1>1, <1>4, <2>2
  <2> QED BY <2>1, <2>2
<1>8. ASSUME NEW u, NEW j, DenotesIn(h, sp, u, j) PROVE DenotesIn(g, sp, u, j)
  BY <1>7, <1>8, DenotesSame
<1>9. /\ ForwardsIn(h, sp, c) /\ UniqueIn(h, sp)
      /\ ChildrenIn(h, sp, fld) /\ NumbersIn(h, sp, made)
  BY DEF HeapOK
<1>10. ForwardsIn(g, sp, c)
  <2> SUFFICES ASSUME NEW t \in sp, NEW j \in 1 .. Len(g[t]), g[t][j].forward # Null
               PROVE  /\ t = c /\ g[t][j].forward[1] # c
                      /\ DenotesIn(g, sp, g[t][j].forward, g[t][j].id)
    BY DEF ForwardsIn
  <2>1. j \in 1 .. Len(h[t]) /\ g[t][j] = h[t][j]
    BY <1>5, <1>6
  <2>2. /\ t = c /\ h[t][j].forward[1] # c
        /\ DenotesIn(h, sp, h[t][j].forward, h[t][j].id)
    BY <1>9, <2>1 DEF ForwardsIn
  <2>3. DenotesIn(g, sp, h[t][j].forward, h[t][j].id)
    BY <1>8, <2>2
  <2> QED BY <2>1, <2>2, <2>3
<1>11. ASSUME NEW t \in sp, NEW j \in 1 .. Len(h[t])
       PROVE  h[t][j].id \in Nat /\ h[t][j].id <= made /\ h[t][j].id # made + 1
  <2>1. h[t] \in Seq(Object)
    BY <1>1 DEF HeapTyped
  <2>2. h[t][j] \in Object /\ h[t][j].id <= made
    BY <1>9, <2>1 DEF NumbersIn
  <2>3. h[t][j].id \in Nat
    BY <2>2 DEF Object
  <2> QED BY <2>2, <2>3
<1>12. ASSUME NEW t \in sp, NEW a \in 1 .. Len(g[t])
       PROVE  \/ t = s /\ a = n /\ g[t][a].id = made + 1
              \/ a \in 1 .. Len(h[t]) /\ g[t][a] = h[t][a] /\ g[t][a].id # made + 1
  <2>1. CASE t = s /\ a = n
    <3>1. g[t][a] = o
      BY <1>5, <2>1
    <3> QED BY <2>1, <3>1
  <2>2. CASE a \in 1 .. Len(h[t]) /\ g[t][a] = h[t][a]
    <3>1. h[t][a].id # made + 1
      BY <1>11, <2>2
    <3> QED BY <2>2, <3>1
  <2> QED BY <1>6, <2>1, <2>2
<1>13. UniqueIn(g, sp)
  <2> SUFFICES ASSUME NEW t \in sp, NEW u \in sp,
                      NEW a \in 1 .. Len(g[t]), NEW b \in 1 .. Len(g[u]),
                      g[t][a].forward = Null /\ g[u][b].forward = Null
                          /\ g[t][a].id = g[u][b].id
               PROVE  t = u /\ a = b
    BY Zenon DEF UniqueIn
  <2>1. \/ t = s /\ a = n /\ g[t][a].id = made + 1
        \/ a \in 1 .. Len(h[t]) /\ g[t][a] = h[t][a] /\ g[t][a].id # made + 1
    BY <1>12
  <2>2. \/ u = s /\ b = n /\ g[u][b].id = made + 1
        \/ b \in 1 .. Len(h[u]) /\ g[u][b] = h[u][b] /\ g[u][b].id # made + 1
    BY <1>12
  <2>3. \/ t = s /\ a = n /\ u = s /\ b = n
        \/ /\ a \in 1 .. Len(h[t]) /\ b \in 1 .. Len(h[u]) /\ h[t][a].id = h[u][b].id
           /\ h[t][a].forward = Null /\ h[u][b].forward = Null
    BY <2>1, <2>2
  <2>4. UniqueIn(h, sp)
    BY <1>9
  <2> QED BY <2>3, <2>4 DEF UniqueIn
<1>14. ChildrenIn(g, sp, fld)
  <2> SUFFICES ASSUME NEW t \in sp, NEW j \in 1 .. Len(g[t]), g[t][j].forward = Null
               PROVE  \/ t = Old /\ g[t][j].next[1] # Old
                      \/ DenotesIn(g, sp, g[t][j].next, fld[g[t][j].id])
    BY DEF ChildrenIn
  <2>1. CASE t = s /\ j = n
    BY <1>5, <2>1 DEF DenotesIn
  <2>2. CASE j \in 1 .. Len(h[t]) /\ g[t][j] = h[t][j]
    <3>1. \/ t = Old /\ h[t][j].next[1] # Old
          \/ DenotesIn(h, sp, h[t][j].next, fld[h[t][j].id])
      BY <1>9, <2>2 DEF ChildrenIn
    <3>2. DenotesIn(h, sp, h[t][j].next, fld[h[t][j].id])
              => DenotesIn(g, sp, h[t][j].next, fld[h[t][j].id])
      BY <1>8
    <3> QED BY <2>2, <3>1, <3>2
  <2> QED BY <1>6, <2>1, <2>2
<1>15. NumbersIn(g, sp, made + 1)
  <2> SUFFICES ASSUME NEW t \in sp, NEW j \in 1 .. Len(g[t])
               PROVE  g[t][j].id <= made + 1
    BY DEF NumbersIn
  <2>1. CASE t = s /\ j = n
    BY <1>5, <2>1
  <2>2. CASE j \in 1 .. Len(h[t]) /\ g[t][j] = h[t][j]
    BY <1>11, <2>2
  <2> QED BY <1>6, <2>1, <2>2
<1>16. DenotesIn(g, sp, <<s, n>>, made + 1)
  <2>1. made + 1 # 0 /\ n \in 1 .. Len(g[s])
    BY <1>2, <1>5
  <2> QED BY <1>5, <2>1 DEF DenotesIn
<1>17. Len(g[s]) = n /\ Len(g[s]) = Len(h[s]) + 1
  BY <1>2, <1>5
<1>18. DenotesIn(g, sp, <<s, Len(g[s])>>, made + 1)
  BY <1>16, <1>17, Zenon
<1>19. \A u, j : DenotesIn(h, sp, u, j) => DenotesIn(g, sp, u, j)
  BY <1>8
<1> QED BY <1>4, <1>5, <1>10, <1>13, <1>14, <1>15, <1>17, <1>18, <1>19, Zenon DEF g

-----------------------------------------------------------------------------
(* Steps that leave the heap as it is.                                     *)

LEMMA HeapStays ==
    ASSUME UNCHANGED <<heap, from, made, field>>, Collecting' = Collecting,
           HeapOK(heap, Spaces, Copying, field)
    PROVE  /\ HeapOK(heap, Spaces, Copying, field)'
           /\ Spaces' = Spaces /\ Copying' = Copying /\ to' = to
           /\ CopiesIn(heap)' <=> CopiesIn(heap)
<1>1. to' = to
  BY DEF to
<1>2. Spaces' = Spaces /\ Copying' = Copying
  BY <1>1 DEF Spaces, Copying
<1>3. HeapOK(heap, Spaces, Copying, field)'
  BY <1>2 DEF HeapOK
<1>4. CopiesIn(heap)' <=> CopiesIn(heap)
  BY <1>1 DEF CopiesIn
<1> QED BY <1>1, <1>2, <1>3, <1>4

LEMMA UseStaleKeeps == ASSUME IInv, pc = "run", UseStale PROVE IInv'
<1> USE DEF UseStale, collector, progress, memory, roots, meaning
<1>1. Collecting' = Collecting
  BY DEF Collecting
<1>2. /\ HeapOK(heap, Spaces, Copying, field)' /\ Spaces' = Spaces /\ to' = to
      /\ CopiesIn(heap)' <=> CopiesIn(heap)
  BY <1>1, HeapStays DEF IInv
<1>3. Types'
  BY DEF IInv, Types, HeapTyped
<1>4. RefsOK' /\ RegistersOK' /\ ScanOK' /\ ControlOK'
  BY <1>1, <1>2 DEF IInv, RefsOK, Outgrown, Scanned, RegistersOK, ScanOK, ControlOK
<1>5. RoomOK'
  BY <1>1, <1>2 DEF IInv, RoomOK, Size
<1> QED BY <1>2, <1>3, <1>4, <1>5 DEF IInv

LEMMA NewReferenceKeeps ==
    ASSUME IInv, NEW r \in Ref, NEW x \in Register, NewReference(r, x)
    PROVE  IInv'
<1>1. CASE x \notin fresh
  BY <1>1, UseStaleKeeps DEF NewReference
<1>2. CASE x \in fresh
  <2>1. /\ pc = "run" /\ pc' = pc /\ Collecting' = Collecting /\ phase' = phase
        /\ UNCHANGED <<heap, from, made, field, remembered, regs, fresh, holds, scan,
                       worked, paused>>
        /\ refs' = [refs EXCEPT ![r] = regs[x]]
        /\ means' = [means EXCEPT ![r] = holds[x]]
        /\ unscanned' = IF phase = "Roots" THEN unscanned \cup {r} ELSE unscanned
    BY <1>2 DEF NewReference, Insert, Collecting, progress, memory
  <2>2. /\ HeapOK(heap, Spaces, Copying, field)' /\ Spaces' = Spaces /\ to' = to
        /\ CopiesIn(heap)' <=> CopiesIn(heap)
    BY <2>1, HeapStays DEF IInv
  <2>3. Types'
    <3>1. regs[x] \in Ptr /\ holds[x] \in Int
      BY DEF IInv, Types
    <3>2. refs' \in [Ref -> Ptr] /\ means' \in [Ref -> Int]
      BY <2>1, <3>1 DEF IInv, Types
    <3> QED BY <2>1, <3>2 DEF IInv, Types, HeapTyped
  <2>4. RefsOK'
    <3> SUFFICES ASSUME NEW q \in Ref, refs'[q] # Unused, ~Outgrown(q)'
                 PROVE  /\ DenotesIn(heap, Spaces, refs'[q], means'[q])
                        /\ Scanned(q)' => refs'[q][1] # from
      BY <2>1, <2>2 DEF RefsOK
    <3>1. CASE q = r
      <4>1. refs'[q] = regs[x] /\ means'[q] = holds[x]
        BY <2>1, <3>1 DEF IInv, Types
      <4>2. Scanned(q)' => phase \in {"RememberedSet", "CheneyScan"}
        BY <2>1, <3>1 DEF Scanned
      <4> QED BY <1>2, <4>1, <4>2 DEF IInv, RegistersOK
    <3>2. CASE q # r
      <4>1. refs'[q] = refs[q] /\ means'[q] = means[q]
        BY <2>1, <3>2 DEF IInv, Types
      <4>2. (Scanned(q)' => Scanned(q)) /\ ~Outgrown(q)
        BY <2>1, <3>2, <4>1, OutgrownStays DEF Scanned
      <4> QED BY <4>1, <4>2 DEF IInv, RefsOK
    <3> QED BY <3>1, <3>2
  <2>5. RegistersOK' /\ ScanOK' /\ ControlOK'
    BY <2>1, <2>2 DEF IInv, RegistersOK, ScanOK, ControlOK
  <2>6. RoomOK'
    BY <2>1, <2>2 DEF IInv, RoomOK, Size
  <2> QED BY <2>2, <2>3, <2>4, <2>5, <2>6 DEF IInv
<1> QED BY <1>1, <1>2

LEMMA FetchKeeps ==
    ASSUME IInv, NEW r \in Ref, NEW x \in Register, Fetch(x, r)
    PROVE  IInv'
<1>1. CASE Outgrown(r)
  BY <1>1, UseStaleKeeps DEF Fetch
<1>2. CASE ~Outgrown(r)
  <2>1. /\ pc = "run" /\ pc' = pc /\ Collecting' = Collecting /\ phase' = phase
        /\ UNCHANGED <<heap, from, made, field, remembered, refs, means, scan,
                       worked, paused, unscanned>>
        /\ refs[r] # Unused /\ fresh' = fresh \cup {x}
        /\ regs' = [regs EXCEPT ![x] = refs[r]]
        /\ holds' = [holds EXCEPT ![x] = means[r]]
    BY <1>2 DEF Fetch, Collecting, collector, progress, memory
  <2>2. /\ HeapOK(heap, Spaces, Copying, field)' /\ Spaces' = Spaces /\ to' = to
        /\ CopiesIn(heap)' <=> CopiesIn(heap)
    BY <2>1, HeapStays DEF IInv
  <2>3. Types'
    <3>1. refs[r] \in Ptr /\ means[r] \in Int
      BY DEF IInv, Types
    <3>2. regs' \in [Register -> Ptr] /\ holds' \in [Register -> Int]
      BY <2>1, <3>1 DEF IInv, Types
    <3> QED BY <2>1, <3>2 DEF IInv, Types, HeapTyped
  <2>4. RegistersOK'
    <3> SUFFICES ASSUME NEW y \in fresh' \cap Register
                 PROVE  /\ DenotesIn(heap, Spaces, regs'[y], holds'[y])
                        /\ phase \in {"RememberedSet", "CheneyScan"} => regs'[y][1] # from
      BY <2>1, <2>2 DEF RegistersOK
    <3>1. CASE y = x
      <4>1. regs'[y] = refs[r] /\ holds'[y] = means[r]
        BY <2>1, <3>1 DEF IInv, Types
      <4> QED BY <1>2, <2>1, <4>1 DEF IInv, RefsOK, Scanned
    <3>2. CASE y # x
      <4>1. regs'[y] = regs[y] /\ holds'[y] = holds[y] /\ y \in fresh
        BY <2>1, <3>2 DEF IInv, Types
      <4> QED BY <4>1 DEF IInv, RegistersOK
    <3> QED BY <3>1, <3>2
  <2>5. RefsOK' /\ ScanOK' /\ ControlOK'
    BY <2>1, <2>2 DEF IInv, RefsOK, Outgrown, Scanned, ScanOK, ControlOK
  <2>6. RoomOK'
    BY <2>1, <2>2 DEF IInv, RoomOK, Size
  <2> QED BY <2>2, <2>3, <2>4, <2>5, <2>6 DEF IInv
<1> QED BY <1>1, <1>2

LEMMA DeleteReferenceKeeps ==
    ASSUME IInv, NEW r \in Ref, DeleteReference(r)
    PROVE  IInv'
<1>1. /\ pc = "run" /\ pc' = pc /\ Collecting' = Collecting /\ phase' = phase
      /\ UNCHANGED <<heap, from, made, field, remembered, regs, fresh, holds, scan,
                     worked, paused>>
      /\ refs' = [refs EXCEPT ![r] = Unused] /\ means' = [means EXCEPT ![r] = -1]
      /\ unscanned' = unscanned \ {r}
  BY DEF DeleteReference, Collecting, progress, memory
<1>2. /\ HeapOK(heap, Spaces, Copying, field)' /\ Spaces' = Spaces /\ to' = to
      /\ CopiesIn(heap)' <=> CopiesIn(heap)
  BY <1>1, HeapStays DEF IInv
<1>3. Types'
  <2>1. refs' \in [Ref -> Ptr] /\ means' \in [Ref -> Int]
    BY <1>1, NullFacts DEF IInv, Types
  <2> QED BY <1>1, <2>1 DEF IInv, Types, HeapTyped
<1>4. RefsOK'
  <2> SUFFICES ASSUME NEW q \in Ref, refs'[q] # Unused, ~Outgrown(q)'
               PROVE  /\ DenotesIn(heap, Spaces, refs'[q], means'[q])
                      /\ Scanned(q)' => refs'[q][1] # from
    BY <1>1, <1>2 DEF RefsOK
  <2>1. q # r /\ refs'[q] = refs[q] /\ means'[q] = means[q]
    BY <1>1 DEF IInv, Types
  <2>2. (Scanned(q)' => Scanned(q)) /\ ~Outgrown(q)
    BY <1>1, <2>1, OutgrownStays DEF Scanned
  <2> QED BY <2>1, <2>2 DEF IInv, RefsOK
<1>5. RegistersOK' /\ ScanOK' /\ ControlOK'
  BY <1>1, <1>2 DEF IInv, RegistersOK, ScanOK, ControlOK
<1>6. RoomOK'
  BY <1>1, <1>2 DEF IInv, RoomOK, Size
<1> QED BY <1>2, <1>3, <1>4, <1>5, <1>6 DEF IInv

(* What is read from a field: a child that is out of date only in the      *)
(* cases of GetFieldValue().                                               *)
LEMMA ChildRead ==
    ASSUME IInv, NEW r \in Ref, refs[r] \notin {Unused, Null}, ~Outdated(r)
    PROVE  LET p == refs[r]  o == At(p) IN
           /\ p[1] \in Spaces /\ p[1] \in Space /\ p[2] \in 1 .. Len(heap[p[1]])
           /\ o \in Object /\ o.id = means[r] /\ o.forward = Null
           /\ means[r] \in 1 .. made
           /\ (p[1] = Old /\ o.next[1] # Old) \/ DenotesIn(heap, Spaces, o.next, field[means[r]])
<1> DEFINE p == refs[r]
           o == heap[p[1]][p[2]]
<1>1. DenotesIn(heap, Spaces, p, means[r]) /\ At(p) = o /\ o.forward = Null
  BY DEF IInv, RefsOK, Outdated, At
<1>2. /\ HeapTyped(heap) /\ Spaces \in SUBSET Space /\ made \in Nat
      /\ NumbersIn(heap, Spaces, made) /\ ChildrenIn(heap, Spaces, field)
  BY ToFacts DEF IInv, Types, HeapOK, Spaces
<1>3. /\ means[r] \in 0 .. made /\ (means[r] = 0 => p = Null)
      /\ means[r] # 0 => /\ p[1] \in Spaces /\ p[2] \in 1 .. Len(heap[p[1]])
                         /\ o \in Object /\ o.id = means[r]
  BY <1>1, <1>2, DenotesRange
<1>4. means[r] # 0 /\ means[r] \in 1 .. made
  BY <1>2, <1>3
<1>5. p[1] \in Spaces /\ p[2] \in 1 .. Len(heap[p[1]]) /\ o \in Object /\ o.id = means[r]
  BY <1>3, <1>4
<1>6. \/ p[1] = Old /\ o.next[1] # Old
      \/ DenotesIn(heap, Spaces, o.next, field[o.id])
  BY <1>1, <1>2, <1>5 DEF ChildrenIn
<1>7. p[1] \in Space
  BY <1>2, <1>5
<1> HIDE DEF o
<1> QED BY <1>1, <1>4, <1>5, <1>6, <1>7

LEMMA GetFieldValueKeeps ==
    ASSUME IInv, NEW r \in Ref, NEW q \in Ref, GetFieldValue(r, q)
    PROVE  IInv'
<1> DEFINE child == At(refs[r]).next
<1>1. CASE /\ ~Outdated(r) /\ ~(refs[r][1] = Old /\ child[1] # Old)
           /\ ~(phase \in {"RememberedSet", "CheneyScan"} /\ child[1] = from)
  <2>1. /\ pc = "run" /\ pc' = pc /\ Collecting' = Collecting /\ phase' = phase
        /\ UNCHANGED <<heap, from, made, field, remembered, regs, fresh, holds, scan,
                       worked, paused>>
        /\ refs[r] \notin {Unused, Null}
        /\ refs' = [refs EXCEPT ![q] = child]
        /\ means' = [means EXCEPT ![q] = field[means[r]]]
        /\ unscanned' = IF phase = "Roots" THEN unscanned \cup {q} ELSE unscanned
    BY <1>1 DEF GetFieldValue, Insert, Collecting, progress, memory
  <2>2. /\ HeapOK(heap, Spaces, Copying, field)' /\ Spaces' = Spaces /\ to' = to
        /\ CopiesIn(heap)' <=> CopiesIn(heap)
    BY <2>1, HeapStays DEF IInv
  <2>3. child \in Ptr /\ field[means[r]] \in Int /\ DenotesIn(heap, Spaces, child, field[means[r]])
    <3>1. /\ At(refs[r]) \in Object /\ means[r] \in 1 .. made
          /\ DenotesIn(heap, Spaces, child, field[means[r]])
      BY <1>1, <2>1, ChildRead
    <3>2. means[r] \in 1 .. MaxObjects
      BY <3>1, SizeAssumption DEF IInv, Types
    <3> QED BY <3>1, <3>2 DEF IInv, Types, Object
  <2> HIDE DEF child
  <2>4. Types'
    <3>1. refs' \in [Ref -> Ptr] /\ means' \in [Ref -> Int]
      BY <2>1, <2>3 DEF IInv, Types
    <3> QED BY <2>1, <3>1 DEF IInv, Types, HeapTyped
  <2>5. RefsOK'
    <3> SUFFICES ASSUME NEW u \in Ref, refs'[u] # Unused, ~Outgrown(u)'
                 PROVE  /\ DenotesIn(heap, Spaces, refs'[u], means'[u])
                        /\ Scanned(u)' => refs'[u][1] # from
      BY <2>1, <2>2 DEF RefsOK
    <3>1. CASE u = q
      <4>1. refs'[u] = child /\ means'[u] = field[means[r]]
        BY <2>1, <3>1 DEF IInv, Types
      <4>2. Scanned(u)' => phase \in {"RememberedSet", "CheneyScan"}
        BY <2>1, <3>1 DEF Scanned
      <4> QED BY <1>1, <2>3, <4>1, <4>2
    <3>2. CASE u # q
      <4>1. refs'[u] = refs[u] /\ means'[u] = means[u]
        BY <2>1, <3>2 DEF IInv, Types
      <4>2. (Scanned(u)' => Scanned(u)) /\ ~Outgrown(u)
        BY <2>1, <3>2, <4>1, OutgrownStays DEF Scanned
      <4> QED BY <4>1, <4>2 DEF IInv, RefsOK
    <3> QED BY <3>1, <3>2
  <2>6. RegistersOK' /\ ScanOK' /\ ControlOK'
    BY <2>1, <2>2 DEF IInv, RegistersOK, ScanOK, ControlOK
  <2>7. RoomOK'
    BY <2>1, <2>2 DEF IInv, RoomOK, Size
  <2> QED BY <2>2, <2>4, <2>5, <2>6, <2>7 DEF IInv
<1>2. CASE ~(/\ ~Outdated(r) /\ ~(refs[r][1] = Old /\ child[1] # Old)
             /\ ~(phase \in {"RememberedSet", "CheneyScan"} /\ child[1] = from))
  BY <1>2, UseStaleKeeps DEF GetFieldValue
<1> QED BY <1>1, <1>2

(* Steps that move the collector on.                                       *)
LEMMA SafepointKeeps == ASSUME IInv, Safepoint PROVE IInv'
<1>1. /\ pc = "run" /\ pc' = "collect"
      /\ UNCHANGED <<scan, paused, heap, from, remembered, refs, regs, fresh,
                     made, means, holds, field>>
      /\ worked' = FALSE
  BY DEF Safepoint, memory, roots, meaning
<1>2. Types' /\ to' = to
  <2>1. phase' = phase \/ phase' = "Roots"
    BY DEF Safepoint
  <2>2. unscanned' \in SUBSET Ref
    BY DEF Safepoint, IInv, Types
  <2> QED BY <1>1, <2>1, <2>2 DEF IInv, Types, HeapTyped, to
<1>3. CASE Collecting
  <2>1. Collecting' = Collecting /\ phase' = phase /\ unscanned' = unscanned
    BY <1>3 DEF Safepoint, Collecting
  <2>2. /\ HeapOK(heap, Spaces, Copying, field)' /\ Spaces' = Spaces
        /\ CopiesIn(heap)' <=> CopiesIn(heap)
    BY <1>1, <2>1, HeapStays DEF IInv
  <2>3. RefsOK' /\ RegistersOK' /\ ScanOK' /\ ControlOK'
    BY <1>1, <1>2, <1>3, <2>1, <2>2 DEF IInv, RefsOK, Outgrown, Scanned, RegistersOK, ScanOK, ControlOK
  <2>4. RoomOK'
    BY <1>1, <1>2, <2>1, <2>2 DEF IInv, RoomOK, Size
  <2> QED BY <1>2, <2>2, <2>3, <2>4 DEF IInv
<1>4. CASE ~Collecting
  <2>1. /\ phase = "Idle" /\ phase' = "Roots" /\ Collecting' /\ heap[to] = <<>>
        /\ unscanned' = {r \in Ref : refs[r] # Unused}
    BY <1>4 DEF Safepoint, Collecting, IInv, ControlOK
  <2>2. /\ Spaces = {from, Old} /\ Copying = -2
        /\ Spaces' = {from, to, Old} /\ Copying' = from
    BY <1>1, <1>2, <1>4, <2>1 DEF Spaces, Copying
  <2>3. 1 .. Len(heap[to]) = {} /\ Spaces \subseteq Spaces'
    BY <2>1, <2>2
  <2>4. \A p, i : DenotesIn(heap, Spaces, p, i) => DenotesIn(heap, Spaces', p, i)
    BY <2>3 DEF DenotesIn
  <2>5. \A s \in Spaces' : \A i \in 1 .. Len(heap[s]) : s \in Spaces
    BY <2>2, <2>3
  <2>6. \A s \in Spaces : \A i \in 1 .. Len(heap[s]) : heap[s][i].forward = Null
    BY <2>2 DEF IInv, HeapOK, ForwardsIn, Types, Space, Old
  <2>7. HeapOK(heap, Spaces, Copying, field)'
    <3>1. ForwardsIn(heap, Spaces', from)
      BY <2>5, <2>6 DEF ForwardsIn
    <3>2. UniqueIn(heap, Spaces')
      BY <2>5 DEF IInv, HeapOK, UniqueIn
    <3>3. ChildrenIn(heap, Spaces', field)
      BY <2>4, <2>5 DEF IInv, HeapOK, ChildrenIn
    <3>4. NumbersIn(heap, Spaces', made)
      BY <2>5 DEF IInv, HeapOK, NumbersIn
    <3> QED BY <1>1, <2>2, <3>1, <3>2, <3>3, <3>4 DEF HeapOK
  <2>8. RefsOK'
    <3> SUFFICES ASSUME NEW r \in Ref, refs[r] # Unused, ~Outgrown(r)
                 PROVE  DenotesIn(heap, Spaces', refs[r], means[r]) /\ ~Scanned(r)'
      BY <1>1 DEF RefsOK, Outgrown
    <3> QED BY <2>1, <2>4 DEF IInv, RefsOK, Scanned
  <2>9. RegistersOK' /\ ScanOK' /\ ControlOK'
    BY <1>1, <1>2, <2>1, <2>4 DEF IInv, RegistersOK, ScanOK, ControlOK
  <2>10. RoomOK'
    <3>1. CopiesIn(heap)'
      BY <1>1, <1>2, <2>3 DEF CopiesIn
    <3> QED BY <1>1, <1>2, <3>1 DEF IInv, RoomOK, Size
  <2> QED BY <1>2, <2>7, <2>8, <2>9, <2>10 DEF IInv
<1> QED BY <1>3, <1>4

LEMMA PauseKeeps == ASSUME IInv, Pause PROVE IInv'
<1>1. /\ pc = "collect" /\ pc' = "run" /\ paused' = TRUE /\ worked' = FALSE
      /\ Collecting /\ Collecting' = Collecting
      /\ UNCHANGED <<phase, scan, unscanned, heap, from, remembered, refs, regs, fresh,
                     made, means, holds, field>>
  BY DEF Pause, Unfinished, Collecting, memory, roots, meaning
<1>2. /\ HeapOK(heap, Spaces, Copying, field)' /\ Spaces' = Spaces /\ to' = to
  BY <1>1, HeapStays DEF IInv
<1>3. Types'
  BY <1>1 DEF IInv, Types, HeapTyped
<1>4. RefsOK' /\ RegistersOK' /\ ScanOK' /\ ControlOK'
  BY <1>1, <1>2 DEF IInv, RefsOK, Outgrown, Scanned, RegistersOK, ScanOK, ControlOK
<1>5. RoomOK'
  BY <1>1, <1>2 DEF IInv, RoomOK, Size
<1> QED BY <1>2, <1>3, <1>4, <1>5 DEF IInv

LEMMA RootsScannedKeeps == ASSUME IInv, RootsScanned PROVE IInv'
<1>1. /\ pc = "collect" /\ pc' = pc /\ Collecting /\ Collecting' = Collecting
      /\ phase = "Roots" /\ phase' = "RememberedSet" /\ unscanned = {}
      /\ fresh' = {x \in fresh : regs[x][1] # from}
      /\ UNCHANGED <<scan, worked, paused, unscanned, heap, from, remembered, refs, regs,
                     made, means, holds, field>>
  BY DEF RootsScanned, Collecting, memory, meaning
<1>2. /\ HeapOK(heap, Spaces, Copying, field)' /\ Spaces' = Spaces /\ to' = to
      /\ CopiesIn(heap)' <=> CopiesIn(heap)
  BY <1>1, HeapStays DEF IInv
<1>3. Types'
  BY <1>1 DEF IInv, Types, HeapTyped
<1>4. RefsOK' /\ RegistersOK' /\ ScanOK' /\ ControlOK'
  BY <1>1, <1>2 DEF IInv, RefsOK, Outgrown, Scanned, RegistersOK, ScanOK, ControlOK
<1>5. RoomOK'
  BY <1>1, <1>2 DEF IInv, RoomOK, Size
<1> QED BY <1>2, <1>3, <1>4, <1>5 DEF IInv

(* No object is old by its heap ID, so that none is remembered.            *)
LEMMA ScanRememberedKeeps == ASSUME IInv, ScanRemembered PROVE IInv'
<1>1. /\ pc = "collect" /\ pc' = pc /\ Collecting /\ Collecting' = Collecting
      /\ phase = "RememberedSet" /\ phase' = "CheneyScan" /\ scan' = 1
      /\ UNCHANGED <<worked, paused, unscanned, heap, from, remembered, refs, regs, fresh,
                     made, means, holds, field>>
  BY DEF ScanRemembered, IInv, Types, Collecting, roots, meaning
<1>2. /\ HeapOK(heap, Spaces, Copying, field)' /\ Spaces' = Spaces /\ to' = to
      /\ CopiesIn(heap)' <=> CopiesIn(heap)
  BY <1>1, HeapStays DEF IInv
<1>3. Types'
  BY <1>1 DEF IInv, Types, HeapTyped
<1>4. ScanOK'
  <2>1. Len(heap[to]) \in Nat
    BY ToFacts DEF IInv, Types, HeapTyped
  <2> QED BY <1>1, <1>2, <2>1 DEF ScanOK
<1>5. RefsOK' /\ RegistersOK' /\ ControlOK'
  BY <1>1, <1>2 DEF IInv, RefsOK, Outgrown, Scanned, RegistersOK, ControlOK
<1>6. RoomOK'
  BY <1>1, <1>2 DEF IInv, RoomOK, Size
<1> QED BY <1>2, <1>3, <1>4, <1>5, <1>6 DEF IInv

(* A step of the collector that leaves the heap g.                         *)
LEMMA WorkKeeps ==
    ASSUME IInv, pc = "collect", NEW g, HeapTyped(g), HeapOK(g, Spaces, from, field),
           CopiesIn(heap) => CopiesIn(g), Len(g[from]) = Len(heap[from]), Work(g),
           UNCHANGED <<phase, paused, from, made, field>>
    PROVE  /\ HeapOK(heap, Spaces, Copying, field)' /\ RoomOK' /\ ControlOK'
           /\ Spaces' = Spaces /\ to' = to /\ pc' \in {"collect", "fault"}
<1>1. /\ Collecting /\ Collecting' = Collecting /\ heap' = g
      /\ pc' = (IF Len(g[to]) > Size(to) THEN "fault" ELSE pc)
  BY DEF IInv, ControlOK, Collecting, Work
<1>2. to' = to
  BY DEF to
<1>3. Spaces' = Spaces /\ Copying' = from
  BY <1>1, <1>2 DEF Spaces, Copying
<1>4. HeapOK(heap, Spaces, Copying, field)'
  BY <1>1, <1>3 DEF HeapOK
<1>5. RoomOK'
  <2>1. /\ from \in Space \ {Old} /\ Len(g[from]) <= Size(from) /\ Size(to) = Size(from)
        /\ Size(from) \in Nat
    BY ToFacts DEF IInv, Types, RoomOK
  <2>2. Len(g[to]) \in Nat /\ Len(g[from]) \in Nat
    BY <2>1, ToFacts DEF HeapTyped
  <2>3. ~paused => CopiesIn(g) /\ Len(g[to]) <= Len(g[from])
    BY <1>1, <2>1, RoomSuffices DEF IInv, RoomOK
  <2>4. pc' = "fault" => paused
    BY <1>1, <2>1, <2>2, <2>3
  <2>5. pc' # "fault" => Len(g[to]) <= Size(to)
    BY <1>1, <2>1, <2>2
  <2>6. CopiesIn(heap)' <=> CopiesIn(g)
    BY <1>1, <1>2 DEF CopiesIn
  <2> QED BY <1>1, <1>2, <2>1, <2>3, <2>4, <2>5, <2>6 DEF RoomOK, Size
<1>6. ControlOK'
  BY <1>1 DEF IInv, ControlOK
<1> QED BY <1>1, <1>2, <1>3, <1>4, <1>5, <1>6

LEMMA ScanRootKeeps == ASSUME IInv, ScanRoot PROVE IInv'
<1>1. PICK r \in Ref :
          /\ refs' = [refs EXCEPT ![r] = Forward(heap, refs[r]).at]
          /\ Work(Forward(heap, refs[r]).heap)
          /\ unscanned' = unscanned \ {r}
  BY DEF ScanRoot, IInv, Types
<1>2. /\ pc = "collect" /\ phase = "Roots" /\ Collecting
      /\ UNCHANGED <<phase, scan, paused, from, remembered, regs, fresh,
                     made, means, holds, field>>
  BY DEF ScanRoot, Collecting, meaning
<1>3. PICK g, q :
          /\ Forward(heap, refs[r]) = [heap |-> g, at |-> q]
          /\ HeapTyped(g) /\ HeapOK(g, Spaces, from, field) /\ (CopiesIn(heap) => CopiesIn(g))
          /\ \A u, j : DenotesIn(heap, Spaces, u, j) => DenotesIn(g, Spaces, u, j)
          /\ Len(g[from]) = Len(heap[from])
          /\ q \in Ptr
          /\ q # Unused => \/ Outgrown(r) /\ q = refs[r] /\ g = heap
                           \/ q[1] # from /\ DenotesIn(g, Spaces, q, means[r])
  <2>1. /\ HeapTyped(heap) /\ from \in Space \ {Old} /\ made \in Nat /\ refs[r] \in Ptr
        /\ HeapOK(heap, Spaces, from, field)
    BY <1>2 DEF IInv, Types, Copying
  <2>2. CASE refs[r] = Unused
    <3>1. Forward(heap, refs[r]) = [heap |-> heap, at |-> Unused]
      BY <2>1, <2>2, NullFacts DEF Forward
    <3> QED BY <2>1, <3>1, NullFacts
  <2>3. CASE refs[r] # Unused /\ Outgrown(r)
    <3>1. refs[r][1] # from
      BY <2>1, <2>3, NotOutgrown
    <3>2. Forward(heap, refs[r]) = [heap |-> heap, at |-> refs[r]]
      BY <3>1 DEF Forward
    <3> QED BY <2>1, <2>3, <3>2
  <2>4. CASE refs[r] # Unused /\ ~Outgrown(r)
    <3>1. DenotesIn(heap, Spaces, refs[r], means[r])
      BY <2>4 DEF IInv, RefsOK
    <3>2. PICK g, q : Forwarded(heap, refs[r], means[r], field, g, q)
      BY <1>2, <2>1, <3>1, ForwardOK
    <3> QED BY <2>4, <3>2 DEF Forwarded
  <2> QED BY <2>2, <2>3, <2>4
<1>4. /\ refs' = [refs EXCEPT ![r] = q] /\ Work(g) /\ heap' = g
  BY <1>1, <1>3 DEF Work
<1>5. /\ HeapOK(heap, Spaces, Copying, field)' /\ RoomOK' /\ ControlOK'
      /\ Spaces' = Spaces /\ to' = to /\ pc' \in {"collect", "fault"}
  BY <1>2, <1>3, <1>4, WorkKeeps
<1>6. Types'
  <2>1. refs' \in [Ref -> Ptr] /\ HeapTyped(heap)'
    BY <1>3, <1>4 DEF IInv, Types, HeapTyped
  <2> QED BY <1>1, <1>2, <1>4, <1>5, <2>1 DEF IInv, Types, Work
<1>7. RefsOK'
  <2> SUFFICES ASSUME NEW u \in Ref, refs'[u] # Unused, ~Outgrown(u)'
               PROVE  /\ DenotesIn(g, Spaces, refs'[u], means[u])
                      /\ Scanned(u)' => refs'[u][1] # from
    BY <1>2, <1>4, <1>5 DEF RefsOK
  <2>1. CASE u = r
    <3>1. refs'[r] = q
      BY <1>4 DEF IInv, Types
    <3>2. ~(Outgrown(r) /\ q = refs[r])
      BY <1>2, <2>1, <3>1, OutgrownStays
    <3> QED BY <1>3, <2>1, <3>1, <3>2
  <2>2. CASE u # r
    <3>1. refs'[u] = refs[u] /\ (Scanned(u)' => Scanned(u))
      BY <1>1, <1>2, <1>4, <2>2 DEF IInv, Types, Scanned
    <3>2. ~Outgrown(u)
      BY <1>2, <3>1, OutgrownStays
    <3> QED BY <1>3, <3>1, <3>2 DEF IInv, RefsOK
  <2> QED BY <2>1, <2>2
<1>8. RegistersOK' /\ ScanOK'
  BY <1>2, <1>3, <1>4, <1>5 DEF IInv, RegistersOK, ScanOK
<1> QED BY <1>5, <1>6, <1>7, <1>8 DEF IInv

LEMMA ForwardChildShape ==
    ASSUME NEW s, NEW k, NEW g, NEW q,
           Forward(heap, heap[s][k].next) = [heap |-> g, at |-> q], ForwardChild(<<s, k>>)
    PROVE  Work(Write(g, s, k, q))
<1> DEFINE p == <<s, k>>
<1>1. p[1] = s /\ p[2] = k /\ ForwardChild(p)
  OBVIOUS
<1> HIDE DEF p
<1>2. At(p) = heap[s][k]
  BY <1>1 DEF At
<1>3. Forward(heap, At(p).next).heap = g /\ Forward(heap, At(p).next).at = q
  BY <1>2
<1>4. Work([Forward(heap, At(p).next).heap EXCEPT ![p[1]][p[2]].next = Forward(heap, At(p).next).at])
  BY <1>1, Zenon DEF ForwardChild
<1> QED BY <1>1, <1>3, <1>4, Zenon DEF Write

(* What the scan finds in object k = scan of the other space, and does.    *)
LEMMA ScanObjectShape ==
    ASSUME IInv, ScanObject
    PROVE  \E k \in 1 .. Len(heap[to]), o \in Object : \E g, q :
               /\ k = scan /\ o = heap[to][k] /\ o.forward = Null /\ o.id \in 1 .. MaxObjects
               /\ Forwarded(heap, o.next, field[o.id], field, g, q)
               /\ Work(Write(g, to, k, q))
<1>1. /\ phase = "CheneyScan" /\ Collecting /\ scan <= Len(heap[to])
      /\ ForwardChild(<<to, scan>>)
  BY DEF ScanObject, Collecting
<1>2. /\ HeapTyped(heap) /\ from \in Space \ {Old} /\ made \in Nat /\ made \in 0 .. MaxObjects
      /\ HeapOK(heap, Spaces, from, field) /\ field \in [1 .. MaxObjects -> Int]
  BY <1>1, SizeAssumption DEF IInv, Types, Copying
<1>3. /\ to \in Space /\ to # from /\ to # Old /\ from \in Space
      /\ Spaces = {from, to, Old} /\ Spaces \in SUBSET Space
  BY <1>1, <1>2, ToFacts DEF Spaces
<1>4. PICK k \in 1 .. Len(heap[to]) : k = scan
  BY <1>1, <1>3 DEF IInv, ScanOK
<1>5. PICK o \in Object : o = heap[to][k] /\ o.forward = Null
  <2>1. heap[to] \in Seq(Object)
    BY <1>2, <1>3 DEF HeapTyped
  <2>2. heap[to][k].forward = Null
    BY <1>2, <1>3 DEF HeapOK, ForwardsIn
  <2> QED BY <2>1, <2>2
<1>6. /\ o.next \in Ptr /\ o.id \in 1 .. MaxObjects /\ field[o.id] \in Int
      /\ DenotesIn(heap, Spaces, o.next, field[o.id])
  <2>1. o.next \in Ptr /\ o.id \in Nat \ {0}
    BY DEF Object
  <2>2. o.id <= made
    BY <1>2, <1>3, <1>5 DEF HeapOK, NumbersIn
  <2>3. o.id \in 1 .. MaxObjects
    BY <1>2, <2>1, <2>2, SizeAssumption
  <2>4. DenotesIn(heap, Spaces, o.next, field[o.id])
    BY <1>2, <1>3, <1>5 DEF HeapOK, ChildrenIn
  <2> QED BY <1>2, <2>1, <2>3, <2>4
<1>7. PICK g, q : Forwarded(heap, o.next, field[o.id], field, g, q)
  BY <1>1, <1>2, <1>6, ForwardOK
<1>8. Work(Write(g, to, k, q))
  <2>1. Forward(heap, heap[to][k].next) = [heap |-> g, at |-> q] /\ ForwardChild(<<to, k>>)
    BY <1>1, <1>4, <1>5, <1>7 DEF Forwarded
  <2> QED BY <2>1, ForwardChildShape
<1> QED BY <1>4, <1>5, <1>6, <1>7, <1>8

LEMMA ScanObjectKeeps == ASSUME IInv, ScanObject PROVE IInv'
<1>1. /\ pc = "collect" /\ phase = "CheneyScan" /\ Collecting
      /\ scan <= Len(heap[to]) /\ scan' = scan + 1
      /\ UNCHANGED <<phase, paused, unscanned, from, remembered, refs, regs, fresh,
                     made, means, holds, field>>
  BY DEF ScanObject, Collecting, roots, meaning
<1>2. /\ HeapTyped(heap) /\ from \in Space \ {Old} /\ made \in Nat /\ made \in 0 .. MaxObjects
      /\ HeapOK(heap, Spaces, from, field) /\ field \in [1 .. MaxObjects -> Int]
  BY <1>1, SizeAssumption DEF IInv, Types, Copying
<1>3. /\ to \in Space /\ to # from /\ to # Old /\ from \in Space
      /\ Spaces = {from, to, Old} /\ Spaces \in SUBSET Space
  BY <1>1, <1>2, ToFacts DEF Spaces
<1>4. PICK k \in 1 .. Len(heap[to]), o \in Object :
          /\ k = scan /\ o = heap[to][k] /\ o.forward = Null /\ o.id \in 1 .. MaxObjects
          /\ \E g, q : /\ Forwarded(heap, o.next, field[o.id], field, g, q)
                       /\ Work(Write(g, to, k, q))
  BY ScanObjectShape
<1>5. PICK g, q : Forwarded(heap, o.next, field[o.id], field, g, q) /\ Work(Write(g, to, k, q))
  BY <1>4
<1>6. /\ Forward(heap, o.next) = [heap |-> g, at |-> q]
      /\ HeapTyped(g) /\ HeapOK(g, Spaces, from, field) /\ (CopiesIn(heap) => CopiesIn(g))
      /\ \A u, j : DenotesIn(heap, Spaces, u, j) => DenotesIn(g, Spaces, u, j)
      /\ q \in Ptr /\ q[1] # from /\ DenotesIn(g, Spaces, q, field[o.id])
      /\ Len(g[from]) = Len(heap[from])
      /\ Len(heap[to]) \in Nat /\ Len(g[to]) \in Nat /\ Len(heap[to]) <= Len(g[to])
      /\ \A j \in 1 .. Len(heap[to]) : g[to][j] = heap[to][j]
  BY <1>5 DEF Forwarded
<1>7. k \in 1 .. Len(g[to]) /\ g[to][k] = o
  BY <1>2, <1>4, <1>6
<1>8. PICK w : w = Write(g, to, k, q)
  OBVIOUS
<1>9. /\ HeapTyped(w) /\ HeapOK(w, Spaces, from, field) /\ FieldSet(g, w, to, k, q)
       /\ \A u, j : DenotesIn(g, Spaces, u, j) => DenotesIn(w, Spaces, u, j)
  <2>1. /\ to \in Spaces /\ g[to][k].forward = Null /\ field[g[to][k].id] = field[o.id]
        /\ Copying = from
    BY <1>1, <1>3, <1>4, <1>7 DEF Copying
  <2>2. /\ HeapTyped(g) /\ HeapOK(g, Spaces, Copying, field)
        /\ DenotesIn(g, Spaces, q, field[g[to][k].id])
        /\ Spaces \in SUBSET Space /\ k \in 1 .. Len(g[to]) /\ q \in Ptr /\ made \in 0 .. MaxObjects
    BY <1>2, <1>3, <1>6, <1>7, <2>1
  <2>3. /\ HeapTyped(Write(g, to, k, q)) /\ HeapOK(Write(g, to, k, q), Spaces, Copying, field)
        /\ FieldSet(g, Write(g, to, k, q), to, k, q)
        /\ \A u, j : DenotesIn(g, Spaces, u, j) => DenotesIn(Write(g, to, k, q), Spaces, u, j)
    BY <2>1, <2>2, FieldWritten
  <2> QED BY <1>8, <2>1, <2>3
<1>10. Work(w) /\ heap' = w
  BY <1>5, <1>8 DEF Work
<1>11. CopiesIn(g) => CopiesIn(w)
  BY <1>3, <1>9 DEF CopiesIn, FieldSet
<1>12. /\ HeapOK(heap, Spaces, Copying, field)' /\ RoomOK' /\ ControlOK'
       /\ Spaces' = Spaces /\ to' = to /\ pc' \in {"collect", "fault"}
  <2>1. Len(w[from]) = Len(heap[from])
    BY <1>3, <1>6, <1>9 DEF FieldSet
  <2> QED BY <1>1, <1>6, <1>9, <1>10, <1>11, <2>1, WorkKeeps
<1>13. Types'
  <2>1. scan' \in Nat
    BY <1>1 DEF IInv, Types
  <2>2. HeapTyped(heap)'
    BY <1>9, <1>10 DEF HeapTyped
  <2> QED BY <1>1, <1>10, <1>12, <2>1, <2>2 DEF IInv, Types, Work
<1>14. ScanOK'
  <2>1. Len(w[to]) = Len(g[to]) /\ scan \in Nat /\ scan \in 1 .. Len(heap[to])
    BY <1>3, <1>4, <1>9 DEF FieldSet
  <2>2. scan + 1 \in 1 .. (Len(w[to]) + 1)
    BY <1>6, <2>1
  <2>3. ASSUME NEW j \in 1 .. scan PROVE w[to][j].next[1] # from
    <3>1. j \in 1 .. Len(g[to]) /\ j \in 1 .. Len(heap[to]) /\ (j # k => j \in 1 .. (scan - 1))
      BY <1>4, <1>6, <2>1
    <3>2. CASE j = k
      BY <1>3, <1>6, <1>9, <3>1, <3>2 DEF FieldSet
    <3>3. CASE j # k
      <4>1. w[to][j] = heap[to][j]
        BY <1>3, <1>6, <1>9, <3>1, <3>3 DEF FieldSet
      <4> QED BY <1>1, <3>1, <3>3, <4>1 DEF IInv, ScanOK
    <3> QED BY <3>2, <3>3
  <2>4. (scan + 1) - 1 = scan
    BY <2>1
  <2> QED BY <1>1, <1>10, <1>12, <2>2, <2>3, <2>4 DEF ScanOK
<1>15. \A u, j : DenotesIn(heap, Spaces, u, j) => DenotesIn(w, Spaces, u, j)
  BY <1>6, <1>9
<1>16. RefsOK' /\ RegistersOK'
  BY <1>1, <1>10, <1>12, <1>15 DEF IInv, RefsOK, Outgrown, Scanned, RegistersOK
<1> QED BY <1>12, <1>13, <1>14, <1>16 DEF IInv

-----------------------------------------------------------------------------
(* Steps of the program that change the heap.                              *)

LEMMA SetFieldValueKeeps ==
    ASSUME IInv, NEW r \in Ref, NEW q \in Ref, SetFieldValue(r, q)
    PROVE  IInv'
<1>1. CASE Outdated(r) \/ Outgrown(q)
  BY <1>1, UseStaleKeeps DEF SetFieldValue
<1>2. CASE ~(Outdated(r) \/ Outgrown(q))
  <2>1. /\ pc = "run" /\ pc' = pc /\ Collecting' = Collecting /\ phase' = phase
        /\ refs[r] \notin {Unused, Null} /\ refs[q] # Unused
        /\ UNCHANGED <<from, made, refs, means, regs, fresh, holds, scan,
                       worked, paused, unscanned>>
        /\ heap' = Write(heap, refs[r][1], refs[r][2], refs[q])
        /\ field' = [field EXCEPT ![means[r]] = means[q]]
    BY <1>2 DEF SetFieldValue, Collecting, collector, progress, roots, Write
  <2>2. PICK s \in Spaces : /\ s = refs[r][1] /\ s \in Space
                            /\ refs[r][2] \in 1 .. Len(heap[s])
                            /\ heap[s][refs[r][2]] = At(refs[r])
                            /\ At(refs[r]) \in Object /\ At(refs[r]).id = means[r]
                            /\ At(refs[r]).forward = Null /\ means[r] \in 1 .. made
    BY <1>2, <2>1, ChildRead DEF At
  <2>3. PICK k \in 1 .. Len(heap[s]) : /\ k = refs[r][2] /\ heap[s][k].id = means[r]
                                       /\ heap[s][k].forward = Null
    BY <2>2
  <2>4. /\ HeapTyped(heap) /\ Spaces \in SUBSET Space /\ made \in 0 .. MaxObjects
        /\ HeapOK(heap, Spaces, Copying, field)
        /\ field \in [1 .. MaxObjects -> Int] /\ refs[q] \in Ptr /\ means[q] \in Int
        /\ from \in Space \ {Old} /\ to \in Space /\ to # from /\ MaxObjects \in Nat
    BY ToFacts, SizeAssumption DEF IInv, Types, Spaces
  <2>5. /\ field' \in [1 .. MaxObjects -> Int] /\ field'[heap[s][k].id] = means[q]
        /\ \A j \in 1 .. MaxObjects : j # heap[s][k].id => field'[j] = field[j]
        /\ \A j \in (made + 1) .. MaxObjects : field'[j] = 0
    <3>1. means[r] \in 1 .. MaxObjects /\ \A j \in (made + 1) .. MaxObjects : j # means[r]
      BY <2>2, <2>4
    <3>2. /\ field' \in [1 .. MaxObjects -> Int] /\ field'[means[r]] = means[q]
          /\ \A j \in 1 .. MaxObjects : j # means[r] => field'[j] = field[j]
      BY <2>1, <2>4, <3>1
    <3>3. \A j \in (made + 1) .. MaxObjects : j \in 1 .. MaxObjects /\ field[j] = 0
      BY <2>4 DEF IInv, ControlOK
    <3> QED BY <2>3, <3>1, <3>2, <3>3
  <2>6. DenotesIn(heap, Spaces, refs[q], means[q]) /\ (Scanned(q) => refs[q][1] # from)
    BY <1>2, <2>1 DEF IInv, RefsOK
  <2>7. /\ HeapTyped(heap') /\ HeapOK(heap', Spaces, Copying, field')
        /\ FieldSet(heap, heap', s, k, refs[q])
        /\ \A u, j : DenotesIn(heap, Spaces, u, j) => DenotesIn(heap', Spaces, u, j)
    <3>1. heap' = Write(heap, s, k, refs[q])
      BY <2>1, <2>2, <2>3
    <3>2. /\ HeapTyped(Write(heap, s, k, refs[q]))
          /\ HeapOK(Write(heap, s, k, refs[q]), Spaces, Copying, field')
          /\ FieldSet(heap, Write(heap, s, k, refs[q]), s, k, refs[q])
          /\ \A u, j : DenotesIn(heap, Spaces, u, j)
                           => DenotesIn(Write(heap, s, k, refs[q]), Spaces, u, j)
      <4>1. PICK new : new = field'
        OBVIOUS
      <4>2. DenotesIn(heap, Spaces, refs[q], new[heap[s][k].id])
        BY <2>5, <2>6, <4>1
      <4>3. \A j \in 1 .. MaxObjects : j # heap[s][k].id => new[j] = field[j]
        BY <2>5, <4>1
      <4>4. /\ HeapTyped(Write(heap, s, k, refs[q]))
            /\ HeapOK(Write(heap, s, k, refs[q]), Spaces, Copying, new)
            /\ FieldSet(heap, Write(heap, s, k, refs[q]), s, k, refs[q])
            /\ \A u, j : DenotesIn(heap, Spaces, u, j)
                             => DenotesIn(Write(heap, s, k, refs[q]), Spaces, u, j)
        BY <2>3, <2>4, <4>2, <4>3, FieldWritten
      <4> QED BY <4>1, <4>4
    <3> QED BY <3>1, <3>2
  <2>8. to' = to /\ Spaces' = Spaces /\ Copying' = Copying
    BY <2>1 DEF to, Spaces, Copying
  <2>9. HeapOK(heap, Spaces, Copying, field)'
    BY <2>1, <2>7, <2>8 DEF HeapOK
  <2>10. \A t \in Space : Len(heap'[t]) = Len(heap[t])
    BY <2>7 DEF FieldSet
  <2>11. Types'
    <3>1. remembered' = {}
      BY <1>2, <2>2 DEF SetFieldValue, IInv, Types, Object
    <3>2. HeapTyped(heap)'
      BY <2>7 DEF HeapTyped
    <3> QED BY <2>1, <2>5, <3>1, <3>2 DEF IInv, Types
  <2>12. RefsOK' /\ RegistersOK'
    BY <2>1, <2>7, <2>8 DEF IInv, RefsOK, Outgrown, Scanned, RegistersOK
  <2>13. ScanOK'
    <3> SUFFICES ASSUME phase = "CheneyScan"
                 PROVE  /\ scan \in 1 .. (Len(heap'[to]) + 1)
                        /\ \A i \in 1 .. (scan - 1) : heap'[to][i].next[1] # from
      BY <2>1, <2>8 DEF ScanOK
    <3>1. scan \in 1 .. (Len(heap[to]) + 1) /\ Len(heap[to]) \in Nat
      BY <2>4 DEF IInv, ScanOK, HeapTyped
    <3>2. ASSUME NEW i \in 1 .. (scan - 1) PROVE heap'[to][i].next[1] # from
      <4>1. i \in 1 .. Len(heap[to]) /\ heap[to][i].next[1] # from
        BY <3>1 DEF IInv, ScanOK
      <4>2. heap'[to][i].next = refs[q] \/ heap'[to][i] = heap[to][i]
        BY <2>4, <2>7, <4>1 DEF FieldSet
      <4> QED BY <2>6, <4>1, <4>2 DEF Scanned
    <3> QED BY <2>4, <2>10, <3>1, <3>2
  <2>14. ControlOK'
    <3>1. ~Collecting => heap'[to] = <<>>
      <4>1. heap'[to] \in Seq(Object) /\ Len(heap'[to]) = Len(heap[to])
        BY <2>4, <2>7, <2>10 DEF HeapTyped
      <4> QED BY <4>1 DEF IInv, ControlOK
    <3> QED BY <2>1, <2>5, <2>8, <3>1 DEF IInv, ControlOK
  <2>15. RoomOK'
    <3>1. Len(heap'[from]) = Len(heap[from]) /\ Len(heap'[to]) = Len(heap[to])
      BY <2>4, <2>10
    <3>2. CopiesIn(heap) => CopiesIn(heap)'
      <4>1. \A i \in 1 .. Len(heap[from]) : heap'[from][i].forward = heap[from][i].forward
        BY <2>4, <2>7 DEF FieldSet
      <4>2. from' = from /\ to' = to
        BY <2>1, <2>8
      <4> QED BY <3>1, <4>1, <4>2 DEF CopiesIn
    <3> QED BY <2>1, <2>8, <3>1, <3>2 DEF IInv, RoomOK, Size
  <2> QED BY <2>9, <2>11, <2>12, <2>13, <2>14, <2>15 DEF IInv
<1> QED BY <1>1, <1>2

LEMMA NewInstanceKeeps ==
    ASSUME IInv, NEW x \in Register, NewInstance(x)
    PROVE  IInv'
<1> DEFINE s == AllocationSpace
<1>1. /\ pc = "run" /\ pc' = pc /\ Collecting' = Collecting /\ phase' = phase
      /\ UNCHANGED <<from, remembered, refs, means, field, scan, worked, paused, unscanned>>
      /\ fresh' = fresh \cup {x} /\ made < MaxObjects
  BY DEF NewInstance, Collecting, collector, progress
<1>2. /\ HeapTyped(heap) /\ Spaces \in SUBSET Space /\ made \in Nat /\ MaxObjects \in Nat
      /\ HeapOK(heap, Spaces, Copying, field)
      /\ from \in Space \ {Old} /\ to \in Space /\ to # from
      /\ to' = to /\ Spaces' = Spaces /\ Copying' = Copying
  BY <1>1, ToFacts, SizeAssumption DEF IInv, Types, Spaces, Copying, to
<1>3. s \in Spaces /\ s \in Space /\ (Collecting => s = to) /\ (~Collecting => s = from)
  BY <1>2 DEF AllocationSpace, Spaces
<1>4. CASE Len(heap[s]) < Size(s)
  <2> DEFINE o == [id |-> made + 1, forward |-> Null, age |-> 0,
                   heapID |-> "nursery", next |-> Null]
  <2>1. /\ made' = made + 1 /\ heap' = Added(heap, s, o)
        /\ regs' = [regs EXCEPT ![x] = <<s, Len(heap'[s])>>]
        /\ holds' = [holds EXCEPT ![x] = made + 1]
    BY <1>4 DEF NewInstance, Added
  <2>2. /\ o \in Object /\ o.id = made + 1 /\ o.forward = Null /\ o.next = Null
    BY <1>2, NullFacts DEF Object
  <2>3. /\ field[made + 1] = 0 /\ made + 1 \in 0 .. MaxObjects
        /\ \A i \in (made + 2) .. MaxObjects : field[i] = 0
    BY <1>1, <1>2 DEF IInv, ControlOK
  <2> HIDE DEF o, s
  <2>4. /\ HeapTyped(heap') /\ ForwardsIn(heap', Spaces, Copying) /\ UniqueIn(heap', Spaces)
        /\ ChildrenIn(heap', Spaces, field) /\ NumbersIn(heap', Spaces, made + 1)
        /\ \A u, j : DenotesIn(heap, Spaces, u, j) => DenotesIn(heap', Spaces, u, j)
        /\ Len(heap'[s]) = Len(heap[s]) + 1
        /\ DenotesIn(heap', Spaces, <<s, Len(heap'[s])>>, made + 1)
        /\ \A t \in Space \ {s} : heap'[t] = heap[t]
        /\ \A j \in 1 .. Len(heap[s]) : heap'[s][j] = heap[s][j]
    <3>1. PICK g : g = Added(heap, s, o)
      OBVIOUS
    <3>2. /\ HeapTyped(g) /\ ForwardsIn(g, Spaces, Copying) /\ UniqueIn(g, Spaces)
          /\ ChildrenIn(g, Spaces, field) /\ NumbersIn(g, Spaces, made + 1)
          /\ \A u, j : DenotesIn(heap, Spaces, u, j) => DenotesIn(g, Spaces, u, j)
          /\ Len(g[s]) = Len(heap[s]) + 1 /\ DenotesIn(g, Spaces, <<s, Len(g[s])>>, made + 1)
          /\ \A t \in Space \ {s} : g[t] = heap[t]
          /\ \A j \in 1 .. Len(heap[s]) : g[s][j] = heap[s][j]
      BY <1>2, <1>3, <2>2, <2>3, <3>1, ObjectAdded
    <3>3. heap' = g
      BY <2>1, <3>1
    <3> QED BY <3>2, <3>3
  <2>5. HeapOK(heap, Spaces, Copying, field)'
    BY <1>1, <1>2, <2>1, <2>4 DEF HeapOK
  <2>6. Types'
    <3>1. <<s, Len(heap'[s])>> \in Ptr
      BY <1>2, <1>3, <2>4 DEF HeapTyped, Ptr
    <3>2. regs' \in [Register -> Ptr] /\ holds' \in [Register -> Int]
      BY <1>2, <2>1, <3>1 DEF IInv, Types
    <3>3. HeapTyped(heap)'
      BY <2>4 DEF HeapTyped
    <3> QED BY <1>1, <2>1, <2>3, <3>2, <3>3 DEF IInv, Types
  <2>7. RefsOK'
    BY <1>1, <1>2, <2>4 DEF IInv, RefsOK, Outgrown, Scanned
  <2>8. RegistersOK'
    <3> SUFFICES ASSUME NEW y \in fresh' \cap Register
                 PROVE  /\ DenotesIn(heap', Spaces, regs'[y], holds'[y])
                        /\ phase \in {"RememberedSet", "CheneyScan"} => regs'[y][1] # from
      BY <1>1, <1>2 DEF RegistersOK
    <3>1. CASE y = x
      <4>1. regs'[y] = <<s, Len(heap'[s])>> /\ holds'[y] = made + 1 /\ regs'[y][1] = s
        BY <2>1, <3>1 DEF IInv, Types
      <4>2. phase \in {"RememberedSet", "CheneyScan"} => s # from
        BY <1>2, <1>3 DEF Collecting
      <4> QED BY <2>4, <4>1, <4>2
    <3>2. CASE y # x
      <4>1. regs'[y] = regs[y] /\ holds'[y] = holds[y] /\ y \in fresh
        BY <1>1, <2>1, <3>2 DEF IInv, Types
      <4> QED BY <2>4, <4>1 DEF IInv, RegistersOK
    <3> QED BY <3>1, <3>2
  <2>9. ScanOK'
    <3> SUFFICES ASSUME phase = "CheneyScan"
                 PROVE  /\ scan \in 1 .. (Len(heap'[to]) + 1)
                        /\ \A i \in 1 .. (scan - 1) : heap'[to][i].next[1] # from
      BY <1>1, <1>2 DEF ScanOK
    <3>1. s = to /\ scan \in 1 .. (Len(heap[to]) + 1) /\ Len(heap[to]) \in Nat
      BY <1>2, <1>3 DEF IInv, ScanOK, HeapTyped, Collecting
    <3>2. scan \in 1 .. (Len(heap'[to]) + 1)
      BY <2>4, <3>1
    <3>3. \A i \in 1 .. (scan - 1) : i \in 1 .. Len(heap[to]) /\ heap[to][i].next[1] # from
      BY <3>1 DEF IInv, ScanOK
    <3> QED BY <2>4, <3>1, <3>2, <3>3
  <2>10. ControlOK'
    <3>1. ~Collecting => heap'[to] = heap[to]
      BY <1>2, <1>3, <2>4
    <3>2. \A i \in (made' + 1) .. MaxObjects : field'[i] = 0
      <4>1. made' + 1 = made + 2 /\ field' = field
        BY <1>1, <1>2, <2>1
      <4> QED BY <2>3, <4>1
    <3> QED BY <1>1, <1>2, <3>1, <3>2 DEF IInv, ControlOK
  <2>11. RoomOK'
    <3>1. \A t \in {from, to} : Len(heap'[t]) <= Size(t)
      <4>1. Len(heap'[s]) <= Size(s)
        <5>1. Len(heap[s]) \in Nat
          BY <1>2, <1>3 DEF HeapTyped
        <5>2. Size(s) \in Nat
          BY <1>2, <1>3, ToFacts DEF AllocationSpace, s
        <5> QED BY <1>4, <2>4, <5>1, <5>2
      <4>2. \A t \in {from, to} : t # s => heap'[t] = heap[t] /\ Len(heap[t]) <= Size(t)
        BY <1>1, <1>2, <2>4 DEF IInv, RoomOK
      <4> QED BY <4>1, <4>2
    <3> QED BY <1>1, <1>2, <3>1 DEF IInv, ControlOK, RoomOK, Size
  <2> QED BY <2>5, <2>6, <2>7, <2>8, <2>9, <2>10, <2>11 DEF IInv
<1>5. CASE ~(Len(heap[s]) < Size(s))
  <2>1. /\ UNCHANGED <<made, heap>> /\ regs' = [regs EXCEPT ![x] = Null]
        /\ holds' = [holds EXCEPT ![x] = 0]
    BY <1>5 DEF NewInstance
  <2>2. /\ HeapOK(heap, Spaces, Copying, field)'
        /\ CopiesIn(heap)' <=> CopiesIn(heap)
    BY <1>1, <1>2, <2>1, HeapStays
  <2>3. Types'
    <3>1. regs' \in [Register -> Ptr] /\ holds' \in [Register -> Int]
      BY <2>1, NullFacts DEF IInv, Types
    <3> QED BY <1>1, <2>1, <3>1 DEF IInv, Types, HeapTyped
  <2>4. RegistersOK'
    <3> SUFFICES ASSUME NEW y \in fresh' \cap Register
                 PROVE  /\ DenotesIn(heap, Spaces, regs'[y], holds'[y])
                        /\ phase \in {"RememberedSet", "CheneyScan"} => regs'[y][1] # from
      BY <1>1, <1>2, <2>1 DEF RegistersOK
    <3>1. CASE y = x
      <4>1. regs'[y] = Null /\ holds'[y] = 0
        BY <2>1, <3>1 DEF IInv, Types
      <4> QED BY <1>2, <4>1, NullFacts DEF DenotesIn
    <3>2. CASE y # x
      <4>1. regs'[y] = regs[y] /\ holds'[y] = holds[y] /\ y \in fresh
        BY <1>1, <2>1, <3>2 DEF IInv, Types
      <4> QED BY <4>1 DEF IInv, RegistersOK
    <3> QED BY <3>1, <3>2
  <2>5. RefsOK' /\ ScanOK' /\ ControlOK'
    BY <1>1, <1>2, <2>1 DEF IInv, RefsOK, Outgrown, Scanned, ScanOK, ControlOK
  <2>6. RoomOK'
    BY <1>1, <1>2, <2>1, <2>2 DEF IInv, RoomOK, Size
  <2> QED BY <2>2, <2>3, <2>4, <2>5, <2>6 DEF IInv
<1> QED BY <1>4, <1>5

-----------------------------------------------------------------------------
(* The end of a collection.                                                *)

(* Heap h has the objects of the other space in space n, and the old ones. *)
Settled(h, n) ==
    /\ HeapTyped(h) /\ h[Old] = heap[Old] /\ Len(h[n]) = Len(heap[to])
    /\ \A i \in 1 .. Len(heap[to]) :
           /\ h[n][i].id = heap[to][i].id /\ h[n][i].forward = heap[to][i].forward
           /\ h[n][i].next = Move(heap[to][i].next, to, n)

(* Once everything is scanned nothing leads to the space copied from.      *)
LEMMA CopiesSettle ==
    ASSUME IInv, phase = "CheneyScan", scan > Len(heap[to]),
           NEW n \in Space \ {Old}, NEW h, Settled(h, n)
    PROVE  /\ \A p \in Ptr : \A i : DenotesIn(heap, Spaces, p, i) /\ p[1] # from
                  => DenotesIn(h, {n, Old}, Move(p, to, n), i)
           /\ HeapOK(h, {n, Old}, -2, field)
<1>1. /\ HeapTyped(heap) /\ HeapOK(heap, Spaces, from, field) /\ made \in Nat
      /\ from \in Space /\ to \in Space /\ to # from /\ to # Old /\ from # Old /\ Old \in Space
      /\ Spaces = {from, to, Old}
  BY ToFacts, SizeAssumption DEF IInv, Types, Copying, Spaces, Collecting
<1>2. /\ HeapTyped(h) /\ h[Old] = heap[Old] /\ Len(h[n]) = Len(heap[to])
      /\ \A i \in 1 .. Len(heap[to]) :
             /\ h[n][i].id = heap[to][i].id /\ h[n][i].forward = heap[to][i].forward
             /\ h[n][i].next = Move(heap[to][i].next, to, n)
  BY DEF Settled
<1>3. /\ \A i \in 1 .. Len(heap[to]) : heap[to][i].forward = Null
      /\ \A i \in 1 .. Len(heap[Old]) : heap[Old][i].forward = Null
  BY <1>1 DEF HeapOK, ForwardsIn
<1>4. /\ \A i \in 1 .. Len(heap[to]) : heap[to][i].next \in Ptr
      /\ \A i \in 1 .. Len(heap[Old]) : heap[Old][i].next \in Ptr
  <2>1. heap[to] \in Seq(Object) /\ heap[Old] \in Seq(Object)
    BY <1>1 DEF HeapTyped
  <2>2. /\ \A i \in 1 .. Len(heap[to]) : heap[to][i] \in Object
        /\ \A i \in 1 .. Len(heap[Old]) : heap[Old][i] \in Object
    BY <2>1
  <2> QED BY <2>2 DEF Object
<1>5. ASSUME NEW p \in Ptr, NEW i, DenotesIn(heap, Spaces, p, i), p[1] # from
      PROVE  DenotesIn(h, {n, Old}, Move(p, to, n), i)
  <2>1. CASE i = 0
    <3>1. p = Null /\ Move(p, to, n) = Null
      BY <1>1, <1>5, <2>1, NullFacts DEF DenotesIn, Move
    <3> QED BY <2>1, <3>1 DEF DenotesIn
  <2>2. CASE i # 0 /\ p[1] = to
    <3>1. p[2] \in 1 .. Len(heap[to]) /\ heap[to][p[2]].id = i
      BY <1>5, <2>2 DEF DenotesIn
    <3>2. Move(p, to, n)[1] = n /\ Move(p, to, n)[2] = p[2]
      BY <2>2 DEF Move
    <3> QED BY <1>2, <2>2, <3>1, <3>2 DEF DenotesIn
  <2>3. CASE i # 0 /\ p[1] = Old
    <3>1. p[2] \in 1 .. Len(heap[Old]) /\ heap[Old][p[2]].id = i
      BY <1>5, <2>3 DEF DenotesIn
    <3>2. Move(p, to, n) = p
      BY <1>1, <2>3 DEF Move
    <3> QED BY <1>2, <2>3, <3>1, <3>2 DEF DenotesIn
  <2> QED BY <1>1, <1>5, <2>1, <2>2, <2>3 DEF DenotesIn
<1>6. \A s \in {n, Old} : \A i \in 1 .. Len(h[s]) : h[s][i].forward = Null
  BY <1>2, <1>3
<1>7. ForwardsIn(h, {n, Old}, -2)
  BY <1>6 DEF ForwardsIn
<1>8. UniqueIn(h, {n, Old})
  <2> SUFFICES ASSUME NEW s \in {n, Old}, NEW t \in {n, Old},
                      NEW i \in 1 .. Len(h[s]), NEW j \in 1 .. Len(h[t]),
                      h[s][i].id = h[t][j].id
               PROVE  s = t /\ i = j
    BY DEF UniqueIn
  <2> DEFINE was(u) == IF u = n THEN to ELSE Old
  <2>1. ASSUME NEW u \in {n, Old}, NEW l \in 1 .. Len(h[u])
        PROVE  /\ was(u) \in Spaces /\ l \in 1 .. Len(heap[was(u)])
               /\ h[u][l].id = heap[was(u)][l].id /\ heap[was(u)][l].forward = Null
    BY <1>1, <1>2, <1>3
  <2>2. was(s) = was(t) => s = t
    BY <1>1
  <2> HIDE DEF was
  <2>3. UniqueIn(heap, Spaces)
    BY <1>1 DEF HeapOK
  <2>4. /\ was(s) \in Spaces /\ i \in 1 .. Len(heap[was(s)]) /\ heap[was(s)][i].forward = Null
        /\ was(t) \in Spaces /\ j \in 1 .. Len(heap[was(t)]) /\ heap[was(t)][j].forward = Null
        /\ heap[was(s)][i].id = heap[was(t)][j].id
    BY <2>1
  <2> QED BY <2>2, <2>3, <2>4 DEF UniqueIn
<1>9. ChildrenIn(h, {n, Old}, field)
  <2> SUFFICES ASSUME NEW s \in {n, Old}, NEW i \in 1 .. Len(h[s])
               PROVE  \/ s = Old /\ h[s][i].next[1] # Old
                      \/ DenotesIn(h, {n, Old}, h[s][i].next, field[h[s][i].id])
    BY DEF ChildrenIn
  <2>1. CASE s = n
    <3>1. i \in 1 .. Len(heap[to]) /\ heap[to][i].next \in Ptr
      BY <1>2, <1>4, <2>1
    <3>2. heap[to][i].next[1] # from
      <4>1. i \in 1 .. (scan - 1)
        <5>1. Len(heap[to]) \in Nat /\ scan \in Nat
          BY <1>1 DEF HeapTyped, IInv, Types
        <5> QED BY <3>1, <5>1
      <4> QED BY <4>1 DEF IInv, ScanOK
    <3>3. DenotesIn(heap, Spaces, heap[to][i].next, field[heap[to][i].id])
      BY <1>1, <1>3, <3>1 DEF HeapOK, ChildrenIn
    <3>4. DenotesIn(h, {n, Old}, Move(heap[to][i].next, to, n), field[heap[to][i].id])
      BY <1>5, <3>1, <3>2, <3>3
    <3> QED BY <1>2, <2>1, <3>1, <3>4
  <2>2. CASE s = Old /\ h[Old][i].next[1] = Old
    <3>1. i \in 1 .. Len(heap[Old]) /\ h[Old][i] = heap[Old][i] /\ heap[Old][i].next \in Ptr
      BY <1>2, <1>4, <2>2
    <3>2. DenotesIn(heap, Spaces, heap[Old][i].next, field[heap[Old][i].id])
      BY <1>1, <1>3, <2>2, <3>1 DEF HeapOK, ChildrenIn
    <3>3. Move(heap[Old][i].next, to, n) = heap[Old][i].next
      BY <1>1, <2>2, <3>1 DEF Move
    <3>4. DenotesIn(h, {n, Old}, heap[Old][i].next, field[heap[Old][i].id])
      BY <1>1, <1>5, <2>2, <3>1, <3>2, <3>3
    <3> QED BY <2>2, <3>1, <3>4
  <2> QED BY <2>1, <2>2
<1>10. NumbersIn(h, {n, Old}, made)
  <2>1. /\ \A i \in 1 .. Len(heap[to]) : heap[to][i].id <= made
        /\ \A i \in 1 .. Len(heap[Old]) : heap[Old][i].id <= made
    BY <1>1 DEF HeapOK, NumbersIn
  <2> QED BY <1>2, <2>1 DEF NumbersIn
<1>11. HeapOK(h, {n, Old}, -2, field)
  BY <1>7, <1>8, <1>9, <1>10 DEF HeapOK
<1> QED BY <1>5, <1>11

(* What the two ways to end a collection have in common, with the next     *)
(* objects allocated in space n.                                           *)
Ended(n) ==
    /\ from' = n /\ to' \in Space /\ heap'[to'] = <<>>
    /\ Settled(heap', n) /\ Len(heap'[n]) <= Size(n)
    /\ (from \div 2) <= (n \div 2)
    /\ refs' \in [Ref -> Ptr]
    /\ \A r \in Ref :
           \/ refs'[r] = Move(refs[r], to, n)
           \/ r \in Completion /\ refs'[r] = refs[r] /\ (from \div 2) < (n \div 2)
    /\ regs' \in [Register -> Ptr] /\ \A x \in Register : regs'[x] = Move(regs[x], to, n)

LEMMA MoveFacts ==
    ASSUME from \in Space \ {Old}, NEW n \in Space
    PROVE  /\ \A p \in Ptr : Move(p, to, n) \in Ptr /\ (n = to => Move(p, to, n) = p)
           /\ Move(Unused, to, n) = Unused
<1>1. to # Old
  BY ToFacts
<1>2. ASSUME NEW p \in Ptr PROVE Move(p, to, n) \in Ptr /\ (n = to => Move(p, to, n) = p)
  BY <1>2 DEF Move, Ptr
<1>3. Move(Unused, to, n) = Unused
  BY <1>1, NullFacts DEF Move
<1> QED BY <1>2, <1>3

LEMMA SwapEnds ==
    ASSUME IInv, Finish, Swap
    PROVE  Ended(to)
<1>1. /\ from' = to /\ heap' = [heap EXCEPT ![from] = <<>>] /\ UNCHANGED <<refs, regs>>
  BY DEF Swap, Emptied
<1>2. /\ HeapTyped(heap) /\ refs \in [Ref -> Ptr] /\ regs \in [Register -> Ptr]
      /\ from \in Space \ {Old} /\ to \in Space /\ to # from /\ Old \in Space /\ to # Old
      /\ Len(heap[to]) <= Size(to)
  BY ToFacts DEF IInv, Types, RoomOK, Finish
<1>3. to' = from
  BY <1>1, <1>2, ToFacts DEF to
<1>4. /\ HeapTyped(heap') /\ heap'[from] = <<>>
      /\ heap'[to] = heap[to] /\ heap'[Old] = heap[Old]
  <2>1. <<>> \in Seq(Object)
    OBVIOUS
  <2> QED BY <1>1, <1>2, <2>1 DEF HeapTyped
<1>5. \A i \in 1 .. Len(heap[to]) : heap[to][i].next \in Ptr
  <2>1. heap[to] \in Seq(Object)
    BY <1>2 DEF HeapTyped
  <2>2. \A i \in 1 .. Len(heap[to]) : heap[to][i] \in Object
    BY <2>1
  <2> QED BY <2>2 DEF Object
<1>6. Settled(heap', to)
  BY <1>2, <1>4, <1>5, MoveFacts DEF Settled
<1>7. /\ \A r \in Ref : refs'[r] = Move(refs[r], to, to)
      /\ \A x \in Register : regs'[x] = Move(regs[x], to, to)
  <2>1. /\ \A r \in Ref : refs[r] \in Ptr
        /\ \A x \in Register : regs[x] \in Ptr
    BY <1>2
  <2> QED BY <1>1, <1>2, <2>1, MoveFacts
<1>8. (from \div 2) <= (to \div 2)
  <2>1. (to \div 2) = (from \div 2) /\ (from \div 2) \in Int
    BY <1>2, ToFacts, SizeAssumption DEF Space, Old
  <2> QED BY <2>1
<1> QED BY <1>1, <1>2, <1>3, <1>4, <1>6, <1>7, <1>8 DEF Ended

LEMMA SizeFacts == ASSUME NEW s \in Space PROVE Size(s) \in Nat
<1>1. Resizes \in Nat /\ Capacity \in Nat \ {0}
  BY SizeAssumption
<1>2. s \in (-1) .. (2 * Resizes + 1)
  BY DEF Space, Old
<1>3. s \div 2 >= -1 /\ s \div 2 \in Int
  BY <1>1, <1>2
<1> QED BY <1>1, <1>3 DEF Size

LEMMA GrowthSpaces ==
    ASSUME from \in Space \ {Old}, to \div 2 < Resizes, NEW n, n = 2 * (to \div 2) + 2
    PROVE  /\ n \in Space \ {Old} /\ n # to /\ n # from /\ n % 2 = 0
           /\ n + 1 \in Space /\ n + 1 # Old /\ Size(to) <= Size(n) /\ Size(n) \in Nat
           /\ (from \div 2) < (n \div 2)
<1>1. Resizes \in Nat /\ Capacity \in Nat \ {0}
  BY SizeAssumption
<1>2. to \in Nat /\ from \in Nat /\ to \div 2 = from \div 2
  BY ToFacts, <1>1 DEF Space, Old
<1>3. PICK half \in Nat : half = to \div 2 /\ half = from \div 2 /\ half < Resizes
  BY <1>1, <1>2
<1>4. to < 2 * half + 2 /\ from < 2 * half + 2
  BY <1>2, <1>3
<1>5. n = 2 * half + 2 /\ n \in Nat /\ n % 2 = 0 /\ n \div 2 = half + 1
  BY <1>3
<1>6. n + 1 <= 2 * Resizes + 1
  BY <1>1, <1>3, <1>5
<1>7. n \in Space /\ n + 1 \in Space /\ n # Old /\ n + 1 # Old
  BY <1>1, <1>5, <1>6 DEF Space, Old
<1>8. Size(to) <= Size(n) /\ Size(n) \in Nat
  BY <1>1, <1>3, <1>5 DEF Size
<1> QED BY <1>2, <1>3, <1>4, <1>5, <1>7, <1>8

LEMMA GrowthEnds ==
    ASSUME IInv, Finish, Grow
    PROVE  \E n \in Space \ {Old} : Ended(n)
<1>1. PICK n : n = 2 * (to \div 2) + 2
  OBVIOUS
<1>2. /\ HeapTyped(heap) /\ refs \in [Ref -> Ptr] /\ regs \in [Register -> Ptr]
      /\ from \in Space \ {Old} /\ to \in Space /\ to # from /\ Old \in Space /\ to # Old
      /\ Len(heap[to]) <= Size(to) /\ remembered = {} /\ Size(to) \in Nat
  BY ToFacts DEF IInv, Types, RoomOK, Finish
<1>3. /\ n \in Space \ {Old} /\ n # to /\ n # from /\ n % 2 = 0
      /\ n + 1 \in Space /\ n + 1 # Old /\ Size(to) <= Size(n) /\ Size(n) \in Nat
      /\ (from \div 2) < (n \div 2)
  BY <1>1, <1>2, GrowthSpaces DEF Grow, Grows
<1> DEFINE objects == [i \in DOMAIN heap[to] |->
                          [heap[to][i] EXCEPT !.next = Move(heap[to][i].next, to, n)]]
           olds    == [i \in DOMAIN heap[Old] |-> heap[Old][i]]
<1>4. /\ from' = n
      /\ heap' = [s \in Space |-> IF s = n THEN objects ELSE IF s = Old THEN olds ELSE <<>>]
      /\ refs' = [r \in Ref |-> IF r \in Completion THEN refs[r] ELSE Move(refs[r], to, n)]
      /\ regs' = [x \in Register |-> Move(regs[x], to, n)]
  BY <1>1, <1>2 DEF Grow
<1>5. to' = n + 1
  BY <1>3, <1>4 DEF to
<1>6. PICK ht \in Seq(Object), ho \in Seq(Object) : ht = heap[to] /\ ho = heap[Old]
  BY <1>2 DEF HeapTyped
<1>7. olds = heap[Old]
  BY <1>6
<1>8. /\ objects \in Seq(Object) /\ Len(objects) = Len(heap[to])
      /\ \A i \in 1 .. Len(heap[to]) :
             /\ objects[i].id = heap[to][i].id /\ objects[i].forward = heap[to][i].forward
             /\ objects[i].next = Move(heap[to][i].next, to, n)
  <2> DEFINE moved(i) == [heap[to][i] EXCEPT !.next = Move(heap[to][i].next, to, n)]
  <2>1. ASSUME NEW i \in 1 .. Len(heap[to])
        PROVE  /\ moved(i) \in Object
               /\ moved(i).id = heap[to][i].id /\ moved(i).forward = heap[to][i].forward
               /\ moved(i).next = Move(heap[to][i].next, to, n)
    <3>1. PICK o \in Object : o = heap[to][i]
      BY <1>6
    <3>2. Move(o.next, to, n) \in Ptr
      BY <1>2, <1>3, MoveFacts DEF Object
    <3>3. /\ [o EXCEPT !.next = Move(o.next, to, n)] \in Object
          /\ [o EXCEPT !.next = Move(o.next, to, n)].id = o.id
          /\ [o EXCEPT !.next = Move(o.next, to, n)].forward = o.forward
          /\ [o EXCEPT !.next = Move(o.next, to, n)].next = Move(o.next, to, n)
      BY <3>2 DEF Object
    <3> QED BY <3>1, <3>3
  <2>2. DOMAIN heap[to] = 1 .. Len(heap[to]) /\ Len(heap[to]) \in Nat
    BY <1>6
  <2>3. objects = [i \in 1 .. Len(heap[to]) |-> moved(i)]
    BY <2>2
  <2> HIDE DEF moved, objects
  <2>4. objects \in [1 .. Len(heap[to]) -> Object] /\ DOMAIN objects = 1 .. Len(heap[to])
    BY <2>1, <2>3
  <2>5. objects \in Seq(Object) /\ Len(objects) = Len(heap[to])
    BY <2>2, <2>4
  <2> QED BY <2>1, <2>3, <2>5
<1> HIDE DEF objects, olds
<1>9. /\ heap'[n] = objects /\ heap'[Old] = heap[Old] /\ heap'[n + 1] = <<>>
  <2>1. PICK m \in Space : m = n + 1 /\ m # n /\ m # Old
    BY <1>3, SizeAssumption DEF Space, Old
  <2>2. heap'[m] = <<>>
    BY <1>4, <2>1
  <2>3. heap'[n] = objects /\ heap'[Old] = heap[Old]
    BY <1>2, <1>3, <1>4, <1>7
  <2> QED BY <2>1, <2>2, <2>3
<1>10. HeapTyped(heap')
  <2>1. \A s \in Space : (IF s = n THEN objects ELSE IF s = Old THEN olds ELSE <<>>) \in Seq(Object)
    BY <1>6, <1>7, <1>8
  <2> QED BY <1>4, <2>1 DEF HeapTyped
<1>11. Settled(heap', n)
  BY <1>8, <1>9, <1>10 DEF Settled
<1>12. Len(heap'[n]) <= Size(n)
  <2>1. Len(heap[to]) \in Nat
    BY <1>6
  <2> QED BY <1>2, <1>3, <1>8, <1>9, <2>1
<1>13. /\ refs' \in [Ref -> Ptr]
       /\ \A r \in Ref : \/ refs'[r] = Move(refs[r], to, n)
                         \/ r \in Completion /\ refs'[r] = refs[r]
       /\ regs' \in [Register -> Ptr] /\ \A x \in Register : regs'[x] = Move(regs[x], to, n)
  <2>1. /\ \A r \in Ref : Move(refs[r], to, n) \in Ptr
        /\ \A x \in Register : Move(regs[x], to, n) \in Ptr
    BY <1>2, <1>3, MoveFacts
  <2>2. \A r \in Ref : (IF r \in Completion THEN refs[r] ELSE Move(refs[r], to, n)) \in Ptr
    BY <1>2, <2>1
  <2>3. refs' \in [Ref -> Ptr]
    BY <1>4, <2>2
  <2>4. \A r \in Ref : refs'[r] = Move(refs[r], to, n) \/ (r \in Completion /\ refs'[r] = refs[r])
    BY <1>4
  <2>5. /\ regs' \in [Register -> Ptr]
        /\ \A x \in Register : regs'[x] = Move(regs[x], to, n)
    BY <1>4, <2>1
  <2> QED BY <2>3, <2>4, <2>5
<1>14. (from \div 2) <= (n \div 2)
  <2>1. (from \div 2) \in Int /\ (n \div 2) \in Int
    BY <1>2, <1>3, SizeAssumption DEF Space, Old
  <2> QED BY <1>3, <2>1
<1>15. Ended(n)
  BY <1>3, <1>4, <1>5, <1>9, <1>11, <1>12, <1>13, <1>14 DEF Ended
<1> QED BY <1>3, <1>15

LEMMA FinishKeeps == ASSUME IInv, Finish PROVE IInv'
<1>1. PICK n \in Space \ {Old} : Ended(n)
  <2>1. to \in Space \ {Old}
    BY ToFacts DEF IInv, Types
  <2>2. Swap \/ Grow
    BY DEF Finish
  <2> QED BY <2>1, <2>2, SwapEnds, GrowthEnds
<1>2. /\ pc = "collect" /\ phase = "CheneyScan" /\ scan > Len(heap[to])
      /\ pc' = "run" /\ phase' = "Idle" /\ scan' = 0 /\ worked' = FALSE /\ paused' = FALSE
      /\ UNCHANGED <<unscanned, remembered, fresh, made, means, holds, field>>
  BY DEF Finish, meaning
<1>3. /\ from' = n /\ Spaces' = {n, Old} /\ Copying' = -2 /\ ~Collecting'
  BY <1>1, <1>2 DEF Ended, Spaces, Copying, Collecting
<1>4. /\ \A p \in Ptr : \A i : DenotesIn(heap, Spaces, p, i) /\ p[1] # from
             => DenotesIn(heap', {n, Old}, Move(p, to, n), i)
      /\ HeapOK(heap', {n, Old}, -2, field)
  <2>1. PICK h : h = heap' /\ Settled(h, n)
    BY <1>1 DEF Ended
  <2>2. /\ \A p \in Ptr : \A i : DenotesIn(heap, Spaces, p, i) /\ p[1] # from
               => DenotesIn(h, {n, Old}, Move(p, to, n), i)
        /\ HeapOK(h, {n, Old}, -2, field)
    BY <1>2, <2>1, CopiesSettle
  <2> QED BY <2>1, <2>2
<1>5. HeapOK(heap, Spaces, Copying, field)'
  BY <1>2, <1>3, <1>4 DEF HeapOK
<1>6. Types'
  <2>1. HeapTyped(heap)'
    BY <1>1 DEF Ended, Settled, HeapTyped
  <2> QED BY <1>1, <1>2, <1>3, <2>1 DEF IInv, Types, Ended
<1>7. RefsOK'
  <2> SUFFICES ASSUME NEW r \in Ref, refs'[r] # Unused, ~Outgrown(r)'
               PROVE  DenotesIn(heap', {n, Old}, refs'[r], means[r])
    BY <1>2, <1>3 DEF RefsOK, Scanned
  <2>1. /\ refs[r] \in Ptr
        /\ \/ refs'[r] = Move(refs[r], to, n)
           \/ r \in Completion /\ refs'[r] = refs[r] /\ (from \div 2) < (n \div 2)
    BY <1>1 DEF Ended, IInv, Types
  <2>2. from \in Space \ {Old} /\ (to \div 2) = (from \div 2) /\ to # Old
    BY ToFacts DEF IInv, Types
  <2>3. refs'[r] = Move(refs[r], to, n)
    <3>1. CASE refs[r][1] = to
      <4>1. refs'[r] = refs[r] => Outgrown(r)' \/ refs'[r] = Move(refs[r], to, n)
        BY <1>3, <2>1, <2>2, <3>1 DEF Outgrown
      <4> QED BY <2>1, <4>1
    <3>2. CASE refs[r][1] # to
      BY <2>1, <3>2 DEF Move
    <3> QED BY <3>1, <3>2
  <2>4. ~Outgrown(r)
    <3> SUFFICES ASSUME Outgrown(r) PROVE FALSE
      OBVIOUS
    <3>1. refs[r][1] # to /\ refs[r][1] # Old /\ r \in Completion
      BY <2>2, NotOutgrown DEF Outgrown
    <3>2. refs'[r] = refs[r]
      BY <2>3, <3>1 DEF Move
    <3>3. /\ (refs[r][1] \div 2) \in Int /\ (from \div 2) \in Int /\ (n \div 2) \in Int
          /\ (from \div 2) <= (n \div 2)
      BY <1>1, <2>1, <2>2, SizeAssumption DEF Ended, Ptr, Space, Old
    <3> QED BY <1>3, <3>1, <3>2, <3>3 DEF Outgrown
  <2>5. refs[r] # Unused
    BY <2>2, <2>3, MoveFacts
  <2>6. DenotesIn(heap, Spaces, refs[r], means[r]) /\ refs[r][1] # from
    BY <1>2, <2>4, <2>5 DEF IInv, RefsOK, Scanned
  <2> QED BY <1>4, <2>1, <2>3, <2>6
<1>8. RegistersOK'
  <2> SUFFICES ASSUME NEW x \in fresh \cap Register
               PROVE  DenotesIn(heap', {n, Old}, regs'[x], holds[x])
    BY <1>2, <1>3 DEF RegistersOK
  <2>1. regs'[x] = Move(regs[x], to, n) /\ regs[x] \in Ptr
    BY <1>1 DEF Ended, IInv, Types
  <2>2. DenotesIn(heap, Spaces, regs[x], holds[x]) /\ regs[x][1] # from
    BY <1>2 DEF IInv, RegistersOK
  <2> QED BY <1>4, <2>1, <2>2
<1>9. ScanOK' /\ ControlOK'
  BY <1>1, <1>2, <1>3 DEF IInv, ScanOK, ControlOK, Ended
<1>10. RoomOK'
  <2>1. Len(<<>>) = 0 /\ Size(to') \in Nat
    BY <1>1, SizeFacts DEF Ended
  <2> QED BY <1>1, <1>2, <1>3, <2>1 DEF RoomOK, Ended, Size
<1> QED BY <1>5, <1>6, <1>7, <1>8, <1>9, <1>10 DEF IInv

-----------------------------------------------------------------------------
(* The invariant, and what it gives.                                       *)

LEMMA Initially == Init => IInv
<1> SUFFICES ASSUME Init PROVE IInv
  OBVIOUS
<1>1. 0 \in Space /\ 0 # Old /\ Capacity \in Nat /\ MaxObjects \in Nat
  BY SizeAssumption DEF Space, Old
<1>2. /\ from = 0 /\ phase = "Idle" /\ ~Collecting /\ pc = "run" /\ made = 0
      /\ heap = [s \in Space |-> <<>>]
  BY DEF Init, Collecting
<1>3. to \in Space /\ to # from
  BY <1>1, <1>2, ToFacts
<1>4. \A s \in Space : heap[s] = <<>> /\ Len(heap[s]) = 0
  BY <1>2
<1>5. HeapTyped(heap)
  <2>1. <<>> \in Seq(Object)
    OBVIOUS
  <2> QED BY <1>2, <2>1 DEF HeapTyped
<1>6. Types
  <2>1. /\ refs \in [Ref -> Ptr] /\ regs \in [Register -> Ptr]
        /\ means \in [Ref -> Int] /\ holds \in [Register -> Int]
        /\ field \in [1 .. MaxObjects -> Int]
    BY NullFacts DEF Init
  <2>2. /\ scan = 0 /\ worked = FALSE /\ paused = FALSE
        /\ unscanned = {} /\ remembered = {}
    BY DEF Init
  <2>3. worked \in BOOLEAN /\ paused \in BOOLEAN /\ unscanned \in SUBSET Ref
    BY <2>2, Zenon
  <2>4. scan \in Nat /\ made \in 0 .. MaxObjects
    BY <1>1, <1>2, <2>2
  <2> QED BY <1>1, <1>2, <1>5, <2>1, <2>2, <2>3, <2>4 DEF Types
<1>7. HeapOK(heap, Spaces, Copying, field)
  <2>1. \A s \in Spaces : 1 .. Len(heap[s]) = {}
    BY <1>1, <1>2, <1>3, <1>4, NullFacts DEF Spaces
  <2> QED BY <2>1 DEF HeapOK, ForwardsIn, UniqueIn, ChildrenIn, NumbersIn
<1>8. RefsOK
  BY DEF RefsOK, Init
<1>9. RegistersOK
  BY <1>2 DEF RegistersOK, Init, DenotesIn
<1>10. ScanOK /\ ControlOK
  BY <1>2, <1>3, <1>4 DEF ScanOK, ControlOK, Init
<1>11. RoomOK
  <2>1. Size(from) \in Nat /\ Size(to) \in Nat
    BY <1>1, <1>2, <1>3, SizeFacts
  <2> QED BY <1>1, <1>2, <1>3, <1>4, <2>1 DEF RoomOK
<1> QED BY <1>6, <1>7, <1>8, <1>9, <1>10, <1>11 DEF IInv

LEMMA StutterKeeps == ASSUME IInv, UNCHANGED vars PROVE IInv'
<1>1. /\ UNCHANGED <<pc, phase, scan, worked, paused, unscanned, heap, from, remembered,
                     refs, regs, fresh, made, means, holds, field>>
      /\ Collecting' = Collecting
  BY DEF vars, collector, progress, memory, roots, meaning, Collecting
<1>2. /\ HeapOK(heap, Spaces, Copying, field)' /\ Spaces' = Spaces /\ to' = to
      /\ CopiesIn(heap)' <=> CopiesIn(heap)
  BY <1>1, HeapStays DEF IInv
<1>3. Types'
  BY <1>1 DEF IInv, Types, HeapTyped
<1>4. RefsOK' /\ RegistersOK' /\ ScanOK' /\ ControlOK'
  BY <1>1, <1>2 DEF IInv, RefsOK, Outgrown, Scanned, RegistersOK, ScanOK, ControlOK
<1>5. RoomOK'
  BY <1>1, <1>2 DEF IInv, RoomOK, Size
<1> QED BY <1>2, <1>3, <1>4, <1>5 DEF IInv

LEMMA StepPreserves == IInv /\ [Next]_vars => IInv'
<1> SUFFICES ASSUME IInv, [Next]_vars PROVE IInv'
  OBVIOUS
<1>1. ASSUME NEW x \in Register, NewInstance(x) PROVE IInv'
  BY <1>1, NewInstanceKeeps
<1>2. ASSUME NEW x \in Register, NEW r \in Ref, NewReference(r, x) PROVE IInv'
  BY <1>2, NewReferenceKeeps
<1>3. ASSUME NEW x \in Register, NEW r \in Ref, Fetch(x, r) PROVE IInv'
  BY <1>3, FetchKeeps
<1>4. ASSUME NEW r \in Ref, DeleteReference(r) PROVE IInv'
  BY <1>4, DeleteReferenceKeeps
<1>5. ASSUME NEW r \in Ref, NEW q \in Ref, GetFieldValue(r, q) PROVE IInv'
  BY <1>5, GetFieldValueKeeps
<1>6. ASSUME NEW r \in Ref, NEW q \in Ref, SetFieldValue(r, q) PROVE IInv'
  BY <1>6, SetFieldValueKeeps
<1>7. CASE Safepoint
  BY <1>7, SafepointKeeps
<1>8. CASE ScanRoot
  BY <1>8, ScanRootKeeps
<1>9. CASE RootsScanned
  BY <1>9, RootsScannedKeeps
<1>10. CASE ScanRemembered
  BY <1>10, ScanRememberedKeeps
<1>11. CASE ScanObject
  BY <1>11, ScanObjectKeeps
<1>12. CASE Finish
  BY <1>12, FinishKeeps
<1>13. CASE Pause
  BY <1>13, PauseKeeps
<1>14. CASE Stopped \/ UNCHANGED vars
  BY <1>14, StutterKeeps DEF Stopped
<1> QED BY <1>1, <1>2, <1>3, <1>4, <1>5, <1>6, <1>7, <1>8, <1>9, <1>10, <1>11, <1>12,
           <1>13, <1>14 DEF Next, Program, Collect

(* Every state of the program and its collector satisfies the invariant.   *)
THEOREM Invariance == Spec => []IInv
<1>1. Init => IInv
  BY Initially
<1>2. IInv /\ [Next]_vars => IInv'
  BY StepPreserves
<1> QED BY <1>1, <1>2, PTL DEF Spec

(* However collections, pauses, promotions and growth follow each other,   *)
(* each strong reference leads to the object the program put there, each   *)
(* completion future too until the nursery it is in grows, and each field  *)
(* but those of promoted objects with young children: forward() and the    *)
(* three phases of nurseryCollect() neither lose nor mix up an object, and *)
(* what resizeNursery() leaves behind are completion futures alone.        *)
THEOREM GraphStaysIntact == Spec => []GraphIntact
<1>1. IInv => GraphIntact
  <2> SUFFICES ASSUME IInv, pc = "run" PROVE GraphIntact
    BY DEF GraphIntact
  <2>1. /\ HeapTyped(heap) /\ ChildrenIn(heap, Spaces, field)
        /\ ForwardsIn(heap, Spaces, Copying) /\ Spaces \subseteq Space
    BY ToFacts DEF IInv, Types, HeapOK, Spaces
  <2>2. ASSUME NEW p, NEW i, DenotesIn(heap, Spaces, p, i) PROVE Denotes(p, i)
    <3>1. CASE i = 0
      BY <2>2, <3>1 DEF DenotesIn, Denotes
    <3>2. CASE i # 0
      <4>1. p[1] \in Spaces /\ p[2] \in 1 .. Len(heap[p[1]]) /\ heap[p[1]][p[2]].id = i
        BY <2>2, <3>2 DEF DenotesIn
      <4>2. heap[p[1]] \in Seq(Object)
        BY <2>1, <4>1 DEF HeapTyped
      <4>3. DOMAIN heap[p[1]] = 1 .. Len(heap[p[1]])
        BY <4>2
      <4> QED BY <3>2, <4>1, <4>3 DEF Denotes, At
    <3> QED BY <3>1, <3>2
  <2>3. ASSUME NEW r \in Ref, refs[r] # Unused, ~Outgrown(r)
        PROVE  Denotes(refs[r], means[r])
    BY <2>2, <2>3 DEF IInv, RefsOK
  <2>4. ASSUME NEW s \in Spaces, NEW i \in 1 .. MaxObjects, i \in DOMAIN heap[s]
        PROVE  LET o == heap[s][i] IN
                   \/ Denotes(o.next, field[o.id])
                   \/ s = from /\ o.forward # Null
                   \/ s = Old /\ o.next[1] # Old
    <3>1. heap[s] \in Seq(Object)
      BY <2>1 DEF HeapTyped
    <3>2. i \in 1 .. Len(heap[s])
      BY <2>4, <3>1
    <3>3. CASE heap[s][i].forward # Null
      <4>1. s = Copying
        BY <2>1, <3>2, <3>3 DEF ForwardsIn
      <4>2. s = from
        BY <2>1, <4>1 DEF Copying, Space, Old
      <4> QED BY <3>3, <4>2
    <3>4. CASE heap[s][i].forward = Null
      <4>1. \/ s = Old /\ heap[s][i].next[1] # Old
            \/ DenotesIn(heap, Spaces, heap[s][i].next, field[heap[s][i].id])
        BY <2>1, <3>2, <3>4 DEF ChildrenIn
      <4> QED BY <2>2, <4>1
    <3> QED BY <3>3, <3>4
  <2> QED BY <2>3, <2>4 DEF GraphIntact
<1> QED BY <1>1, Invariance, PTL

LEMMA NumbersOf ==
    ASSUME NEW f \in Seq(Object)
    PROVE  LET a == [i \in DOMAIN f |-> f[i].id] IN
           a \in Seq(Nat) /\ Len(a) = Len(f) /\ \A i \in 1 .. Len(f) : a[i] = f[i].id
<1> DEFINE a == [i \in DOMAIN f |-> f[i].id]
<1>1. DOMAIN f = 1 .. Len(f) /\ Len(f) \in Nat
  OBVIOUS
<1>2. ASSUME NEW i \in 1 .. Len(f) PROVE a[i] = f[i].id /\ f[i].id \in Nat
  <2>1. f[i] \in Object /\ i \in DOMAIN f
    BY <1>1
  <2>2. f[i].id \in Nat
    BY <2>1 DEF Object
  <2> QED BY <2>1, <2>2
<1>3. DOMAIN a = 1 .. Len(f) /\ a = [i \in 1 .. Len(f) |-> a[i]]
  BY <1>1
<1> HIDE DEF a
<1>4. a \in [1 .. Len(f) -> Nat]
  BY <1>2, <1>3
<1>5. a \in Seq(Nat) /\ Len(a) = Len(f)
  BY <1>1, <1>3, <1>4
<1> QED BY <1>2, <1>5 DEF a

(* Where two sequences of numbers are put behind each other.               *)
LEMMA Behind ==
    ASSUME NEW a \in Seq(Nat), NEW b \in Seq(Nat), NEW m \in Nat, NEW n \in Nat,
           m = Len(a), n = Len(b)
    PROVE  /\ DOMAIN (a \o b) = 1 .. (m + n)
           /\ \A k \in 1 .. (m + n) : \/ k \in 1 .. m /\ (a \o b)[k] = a[k]
                                      \/ k - m \in 1 .. n /\ (a \o b)[k] = b[k - m]
<1>1. a \o b \in Seq(Nat) /\ Len(a \o b) = m + n
  OBVIOUS
<1>2. DOMAIN (a \o b) = 1 .. (m + n)
  BY <1>1
<1>3. ASSUME NEW k \in 1 .. (m + n)
      PROVE  \/ k \in 1 .. m /\ (a \o b)[k] = a[k]
             \/ k - m \in 1 .. n /\ (a \o b)[k] = b[k - m]
  <2>1. (a \o b)[k] = IF k <= m THEN a[k] ELSE b[k - m]
    OBVIOUS
  <2>2. k \in 1 .. m \/ k - m \in 1 .. n
    OBVIOUS
  <2> QED BY <2>1, <2>2
<1> QED BY <1>2, <1>3

(* forward() copies an object once, so that two references to one object   *)
(* still lead to one object: no two objects where the program looks have   *)
(* the same number.                                                        *)
THEOREM CopiesAreUnique == Spec => []CopiedOnce
<1>1. IInv => CopiedOnce
  <2> SUFFICES ASSUME IInv PROVE CopiedOnce
    OBVIOUS
  <2> DEFINE live == IF Collecting THEN to ELSE from
  <2>1. /\ HeapTyped(heap) /\ UniqueIn(heap, Spaces) /\ ForwardsIn(heap, Spaces, Copying)
        /\ live \in Spaces /\ Old \in Spaces /\ Spaces \subseteq Space
        /\ live # Old /\ live # Copying /\ Old # Copying
    BY ToFacts DEF IInv, Types, HeapOK, Spaces, Copying, Space, Old
  <2> HIDE DEF live
  <2>2. PICK hl \in Seq(Object), ho \in Seq(Object) : hl = heap[live] /\ ho = heap[Old]
    BY <2>1 DEF HeapTyped
  <2>3. PICK m \in Nat, n \in Nat : m = Len(hl) /\ n = Len(ho)
    BY <2>2
  <2>4. PICK a \in Seq(Nat) : /\ a = [i \in DOMAIN hl |-> hl[i].id]
                              /\ Len(a) = m /\ \A i \in 1 .. m : a[i] = hl[i].id
    BY <2>3, NumbersOf
  <2>5. PICK b \in Seq(Nat) : /\ b = [i \in DOMAIN ho |-> ho[i].id]
                              /\ Len(b) = n /\ \A i \in 1 .. n : b[i] = ho[i].id
    BY <2>3, NumbersOf
  <2>6. /\ DOMAIN (a \o b) = 1 .. (m + n)
        /\ \A k \in 1 .. (m + n) : \/ k \in 1 .. m /\ (a \o b)[k] = hl[k].id
                                   \/ k - m \in 1 .. n /\ (a \o b)[k] = ho[k - m].id
    <3>1. /\ DOMAIN (a \o b) = 1 .. (m + n)
          /\ \A k \in 1 .. (m + n) : \/ k \in 1 .. m /\ (a \o b)[k] = a[k]
                                     \/ k - m \in 1 .. n /\ (a \o b)[k] = b[k - m]
      BY <2>4, <2>5, Behind
    <3> QED BY <2>4, <2>5, <3>1
  <2>7. /\ \A i, j \in 1 .. m : hl[i].id = hl[j].id => i = j
        /\ \A i, j \in 1 .. n : ho[i].id = ho[j].id => i = j
        /\ \A i \in 1 .. m, j \in 1 .. n : hl[i].id # ho[j].id
    <3>1. /\ \A i \in 1 .. m : heap[live][i].forward = Null
          /\ \A i \in 1 .. n : heap[Old][i].forward = Null
      BY <2>1, <2>2, <2>3 DEF ForwardsIn
    <3>2. ASSUME NEW i \in 1 .. m, NEW j \in 1 .. m, hl[i].id = hl[j].id PROVE i = j
      BY <2>1, <2>2, <2>3, <3>1, <3>2 DEF UniqueIn
    <3>3. ASSUME NEW i \in 1 .. n, NEW j \in 1 .. n, ho[i].id = ho[j].id PROVE i = j
      BY <2>1, <2>2, <2>3, <3>1, <3>3 DEF UniqueIn
    <3>4. ASSUME NEW i \in 1 .. m, NEW j \in 1 .. n, hl[i].id = ho[j].id PROVE FALSE
      BY <2>1, <2>2, <2>3, <3>1, <3>4 DEF UniqueIn
    <3> QED BY <3>2, <3>3, <3>4
  <2>8. ASSUME NEW i \in 1 .. (m + n), NEW j \in 1 .. (m + n), (a \o b)[i] = (a \o b)[j]
        PROVE  i = j
    <3>1. \/ i \in 1 .. m /\ (a \o b)[i] = hl[i].id
          \/ i - m \in 1 .. n /\ (a \o b)[i] = ho[i - m].id
      BY <2>6
    <3>2. \/ j \in 1 .. m /\ (a \o b)[j] = hl[j].id
          \/ j - m \in 1 .. n /\ (a \o b)[j] = ho[j - m].id
      BY <2>6
    <3>3. i = j \/ i - m = j - m
      BY <2>7, <2>8, <3>1, <3>2
    <3> QED BY <3>3
  <2>9. IsInjective(a \o b)
    BY <2>6, <2>8 DEF IsInjective
  <2>10. CopiedOnce <=> IsInjective(a \o b)
    BY <2>2, <2>4, <2>5 DEF CopiedOnce, live
  <2> QED BY <2>9, <2>10
<1> QED BY <1>1, Invariance, PTL

(* Without a pause the copies fit into the other space, so that no object  *)
(* is made at address zero.                                                *)
THEOREM RoomSufficesWithoutPause == Spec => []SpaceSuffices
<1>1. IInv => SpaceSuffices
  BY DEF IInv, RoomOK, SpaceSuffices
<1> QED BY <1>1, Invariance, PTL

-----------------------------------------------------------------------------
(* A collection that does not pause copies only what can be reached.       *)

LEMMA RootReachable ==
    ASSUME NEW r \in Ref, means[r] \in 1 .. MaxObjects, ~Outgrown(r)
    PROVE  means[r] \in Reachable
BY DEF Reachable, ClosedSet

LEMMA ChildReachable ==
    ASSUME NEW i \in Reachable, field[i] \in 1 .. MaxObjects
    PROVE  field[i] \in Reachable
<1>1. field[i] # 0
  OBVIOUS
<1>2. ASSUME NEW s \in SUBSET (1 .. MaxObjects), ClosedSet(s) PROVE field[i] \in s
  <2>1. i \in s
    BY <1>2 DEF Reachable
  <2> QED BY <1>1, <1>2, <2>1 DEF ClosedSet
<1> QED BY <1>2 DEF Reachable

LEMMA ReachableSame ==
    ASSUME UNCHANGED <<means, field>>, \A r \in Ref : Outgrown(r)' <=> Outgrown(r)
    PROVE  Reachable' = Reachable
BY DEF Reachable, ClosedSet

LEMMA ReachableStays == UNCHANGED <<from, refs, means, field>> => Reachable' = Reachable
BY DEF Reachable, ClosedSet, Outgrown

Live(h) == \A j \in 1 .. Len(h[to]) : h[to][j].id \in Reachable

NoGarbage == Collecting /\ ~paused => Live(heap)

LEMMA ForwardReaches ==
    ASSUME IInv, Collecting, Live(heap), NEW p, NEW i, NEW g, NEW q,
           Forwarded(heap, p, i, field, g, q), i \in 1 .. MaxObjects => i \in Reachable
    PROVE  Live(g)
<1>1. to \in Space /\ to \in Spaces
  BY ToFacts DEF IInv, Types, Spaces
<1>2. HeapTyped(g) /\ NumbersIn(g, Spaces, made)
  BY DEF Forwarded, HeapOK
<1>3. SUFFICES ASSUME NEW j \in 1 .. Len(g[to]) PROVE g[to][j].id \in Reachable
  BY DEF Live
<1>4. CASE j \in 1 .. Len(heap[to])
  BY <1>4 DEF Forwarded, Live
<1>5. CASE g[to][j].id = i
  <2>1. g[to] \in Seq(Object)
    BY <1>1, <1>2 DEF HeapTyped
  <2>2. g[to][j] \in Object /\ g[to][j].id <= made
    BY <1>1, <1>2, <2>1 DEF NumbersIn
  <2>3. PICK c \in Nat \ {0} : c = g[to][j].id
    BY <2>2 DEF Object
  <2>4. PICK n \in Nat, m \in Nat : n = made /\ m = MaxObjects /\ n <= m
    BY SizeAssumption DEF IInv, Types
  <2>5. c \in 1 .. m
    BY <2>2, <2>3, <2>4
  <2> QED BY <1>5, <2>3, <2>4, <2>5
<1>6. j \in 1 .. Len(heap[to]) \/ g[to][j].id = i
  BY DEF Forwarded
<1> QED BY <1>4, <1>5, <1>6

LEMMA RootsReach ==
    ASSUME IInv, Live(heap), ScanRoot
    PROVE  Live(heap)'
<1>1. PICK r \in Ref : /\ refs' = [refs EXCEPT ![r] = Forward(heap, refs[r]).at]
                       /\ Work(Forward(heap, refs[r]).heap)
  BY DEF ScanRoot, IInv, Types
<1>2. /\ Collecting /\ UNCHANGED <<from, made, means, field>>
  BY DEF ScanRoot, Collecting, meaning
<1>3. /\ HeapTyped(heap) /\ from \in Space \ {Old} /\ made \in Nat /\ refs \in [Ref -> Ptr]
      /\ HeapOK(heap, Spaces, from, field) /\ Spaces = {from, to, Old}
  BY <1>2 DEF IInv, Types, Copying, Spaces
<1>4. PICK g, q : /\ Forward(heap, refs[r]) = [heap |-> g, at |-> q] /\ Live(g)
                  /\ q = refs[r] \/ (q[1] \in {from, to, Old} /\ ~Outgrown(r))
  <2>1. CASE refs[r] = Unused \/ Outgrown(r)
    <3>1. refs[r][1] # from
      BY <1>3, <2>1, NullFacts, NotOutgrown
    <3>2. Forward(heap, refs[r]) = [heap |-> heap, at |-> refs[r]]
      BY <3>1 DEF Forward
    <3> QED BY <3>2
  <2>2. CASE ~(refs[r] = Unused \/ Outgrown(r))
    <3>1. DenotesIn(heap, Spaces, refs[r], means[r]) /\ refs[r] \in Ptr
      BY <1>3, <2>2 DEF IInv, RefsOK
    <3>2. PICK g, q : Forwarded(heap, refs[r], means[r], field, g, q)
      BY <1>2, <1>3, <3>1, ForwardOK
    <3>3. Live(g)
      BY <1>2, <2>2, <3>2, ForwardReaches, RootReachable
    <3>4. q[1] \in {from, to, Old}
      BY <1>3, <3>2, NullFacts DEF Forwarded, DenotesIn
    <3> QED BY <2>2, <3>2, <3>3, <3>4 DEF Forwarded
  <2> QED BY <2>1, <2>2
<1>5. heap' = g /\ refs'[r] = q /\ \A u \in Ref \ {r} : refs'[u] = refs[u]
  BY <1>1, <1>3, <1>4 DEF Work
<1>6. to' = to
  BY <1>2 DEF to
<1>7. ASSUME NEW u \in Ref PROVE Outgrown(u)' <=> Outgrown(u)
  <2>1. CASE refs'[u] = refs[u]
    BY <1>2, <2>1, OutgrownStays
  <2>2. CASE refs'[u] # refs[u]
    <3>1. u = r /\ q[1] \in {from, to, Old} /\ ~Outgrown(r) /\ refs'[u] = q
      BY <1>4, <1>5, <2>2
    <3>2. ~Outgrown(u)'
      BY <1>2, <1>3, <3>1, SpacesInUse DEF Outgrown
    <3> QED BY <3>1, <3>2
  <2> QED BY <2>1, <2>2
<1>8. Reachable' = Reachable
  BY <1>2, <1>7, ReachableSame
<1> QED BY <1>4, <1>5, <1>6, <1>8 DEF Live

LEMMA ScanReaches ==
    ASSUME IInv, Live(heap), ScanObject
    PROVE  Live(heap)'
<1>1. Collecting /\ UNCHANGED <<from, refs, made, means, field>>
  BY DEF ScanObject, Collecting, roots, meaning
<1>2. PICK k \in 1 .. Len(heap[to]), o \in Object :
          /\ k = scan /\ o = heap[to][k] /\ o.forward = Null /\ o.id \in 1 .. MaxObjects
          /\ \E g, q : /\ Forwarded(heap, o.next, field[o.id], field, g, q)
                       /\ Work(Write(g, to, k, q))
  BY ScanObjectShape
<1>3. PICK g, q : Forwarded(heap, o.next, field[o.id], field, g, q) /\ Work(Write(g, to, k, q))
  BY <1>2
<1>4. o.id \in Reachable
  BY <1>2 DEF Live
<1>5. Live(g)
  BY <1>1, <1>3, <1>4, ChildReachable, ForwardReaches
<1>6. heap' = Write(g, to, k, q)
  BY <1>3 DEF Work
<1>7. Len(heap'[to]) = Len(g[to]) /\ \A j \in 1 .. Len(g[to]) : heap'[to][j].id = g[to][j].id
  <2>1. to \in Space /\ HeapTyped(g)
    BY <1>3, ToFacts DEF IInv, Types, Forwarded
  <2>2. Len(heap[to]) \in Nat /\ Len(g[to]) \in Nat /\ Len(heap[to]) <= Len(g[to])
    BY <1>3 DEF Forwarded
  <2>3. PICK n \in Nat : n = Len(g[to]) /\ k \in 1 .. n
    BY <2>2
  <2>4. g \in [Space -> Seq(Object)] /\ g[to] \in Seq(Object)
    BY <2>1 DEF HeapTyped
  <2> QED BY <1>6, <2>1, <2>3, <2>4 DEF Write
<1>8. to' = to /\ Reachable' = Reachable
  BY <1>1, ReachableStays DEF to
<1> QED BY <1>5, <1>7, <1>8 DEF Live

LEMMA GarbageStaysBehind == IInv /\ NoGarbage /\ [Next]_vars => NoGarbage'
<1> SUFFICES ASSUME IInv, NoGarbage, [Next]_vars, Collecting', ~paused'
             PROVE  Live(heap)'
  BY DEF NoGarbage
<1>1. ASSUME UNCHANGED <<phase, paused, heap, from, refs, means, field>> PROVE Live(heap)'
  <2>1. Live(heap)
    BY <1>1 DEF NoGarbage, Collecting
  <2>2. to' = to /\ Reachable' = Reachable
    BY <1>1, ReachableStays DEF to
  <2> QED BY <1>1, <2>1, <2>2 DEF Live
<1>2. CASE Program
  <2>1. pc = "run" /\ UNCHANGED <<phase, paused>>
    BY <1>2 DEF Program, NewInstance, NewReference, Fetch, DeleteReference, GetFieldValue,
       SetFieldValue, UseStale, collector, progress
  <2>2. FALSE
    BY <2>1 DEF IInv, ControlOK, Collecting
  <2> QED BY <2>2
<1>3. CASE Safepoint
  <2>1. pc = "run" /\ UNCHANGED <<paused, heap, from, means, field>>
    BY <1>3 DEF Safepoint, memory, meaning
  <2>2. heap[to] = <<>>
    BY <2>1 DEF IInv, ControlOK
  <2>3. Len(heap'[to']) = 0
    BY <2>1, <2>2 DEF to
  <2> QED BY <2>3 DEF Live
<1>4. CASE ScanRoot
  <2>1. Collecting /\ ~paused
    BY <1>4 DEF ScanRoot, Collecting
  <2> QED BY <1>4, <2>1, RootsReach DEF NoGarbage
<1>5. CASE RootsScanned \/ ScanRemembered
  <2>1. Collecting /\ ~paused /\ UNCHANGED <<heap, from, refs, means, field>>
    BY <1>5 DEF RootsScanned, ScanRemembered, IInv, Types, Collecting, memory, roots, meaning
  <2>2. Live(heap) /\ to' = to /\ Reachable' = Reachable
    BY <2>1, ReachableStays DEF NoGarbage, to
  <2> QED BY <2>1, <2>2 DEF Live
<1>6. CASE ScanObject
  <2>1. Collecting /\ ~paused
    BY <1>6 DEF ScanObject, Collecting
  <2> QED BY <1>6, <2>1, ScanReaches DEF NoGarbage
<1>7. CASE Finish \/ Pause
  BY <1>7 DEF Finish, Pause, Collecting
<1>8. CASE Stopped \/ UNCHANGED vars
  BY <1>1, <1>8 DEF Stopped, vars, collector, progress, memory, roots, meaning
<1> QED BY <1>2, <1>3, <1>4, <1>5, <1>6, <1>7, <1>8 DEF Next, Collect

LEMMA OnlyLiveLeft ==
    ASSUME IInv, NoGarbage, [Next]_vars, Collecting, phase' = "Idle", ~paused,
           NEW i \in 1 .. Len(heap'[from'])
    PROVE  heap'[from'][i].id \in Reachable
<1>1. CASE Finish
  <2>1. PICK n \in Space \ {Old} : Ended(n)
    <3>1. to \in Space \ {Old}
      BY ToFacts DEF IInv, Types
    <3>2. Swap \/ Grow
      BY <1>1 DEF Finish
    <3> QED BY <1>1, <3>1, <3>2, SwapEnds, GrowthEnds
  <2>2. from' = n /\ Len(heap'[n]) = Len(heap[to])
        /\ \A j \in 1 .. Len(heap[to]) : heap'[n][j].id = heap[to][j].id
    BY <2>1 DEF Ended, Settled
  <2>3. Live(heap)
    BY DEF NoGarbage
  <2> QED BY <2>2, <2>3 DEF Live
<1>2. CASE ~Finish
  <2>1. CASE Program \/ Stopped \/ UNCHANGED vars
    <3>1. phase' = phase
      BY <2>1 DEF Program, Stopped, NewInstance, NewReference, Fetch, DeleteReference,
         GetFieldValue, SetFieldValue, UseStale, vars, collector, progress
    <3> QED BY <3>1 DEF Collecting
  <2>2. CASE Collect \/ Pause
    <3>1. phase' = phase \/ phase' \in {"Roots", "RememberedSet", "CheneyScan"}
      BY <1>2, <2>2 DEF Collect, Safepoint, ScanRoot, RootsScanned, ScanRemembered, ScanObject, Pause
    <3> QED BY <3>1 DEF Collecting
  <2> QED BY <2>1, <2>2 DEF Next
<1> QED BY <1>1, <1>2

(* What a collection that did not pause leaves in the nursery is what the  *)
(* program could reach: roots and fields are all that forward() is given.  *)
THEOREM CollectionsFreeGarbage == Spec => GarbageFreed
<1>1. Init => NoGarbage
  BY DEF Init, NoGarbage, Collecting
<1>2. Spec => []NoGarbage
  BY <1>1, GarbageStaysBehind, Invariance, PTL DEF Spec
<1>3. IInv /\ NoGarbage /\ [Next]_vars =>
          [Collecting /\ phase' = "Idle" /\ ~paused
               => \A i \in 1 .. Len(heap'[from']) : heap'[from'][i].id \in Reachable]_vars
  BY OnlyLiveLeft
<1> QED BY <1>2, <1>3, Invariance, PTL DEF Spec, GarbageFreed
==============================================================================
