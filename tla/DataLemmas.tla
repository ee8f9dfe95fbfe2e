----------------------------- MODULE DataLemmas -----------------------------
(***************************************************************************)
(* Facts about data that the proofs share: induction, what a recursion     *)
(* comes to, the least and the largest of a set, sequences used as queues, *)
(* sums over sets, powers of two, quotients and digits.                    *)
(***************************************************************************)
EXTENDS SequencesExt, FiniteSetTheorems, FunctionTheorems, TLAPS

-----------------------------------------------------------------------------
(* Induction, said of sets: a set takes the place of the predicate, which  *)
(* the provers cannot find.                                                *)

LEMMA LeastNatural ==
    ASSUME NEW T, T \subseteq Nat, T # {}
    PROVE  \E m \in T : \A n \in T : m <= n
<1> DEFINE Less == {p \in Nat \X Nat : p[1] < p[2]}
<1>1. IsWellFoundedOn(Less, Nat)
  BY NatLessThanWellFounded DEF OpToRel
<1>2. PICK m \in T : \A n \in T : <<n, m>> \notin Less
  <2> HIDE DEF Less
  <2> QED BY <1>1, WFMin
<1>3. ASSUME NEW n \in T
      PROVE  m <= n
  <2>1. m \in Nat /\ n \in Nat /\ <<n, m>> \notin Less
    BY <1>2
  <2>2. ~(n < m)
    BY <2>1
  <2> QED BY <2>1, <2>2
<1> QED BY <1>3

LEMMA Induction ==
    ASSUME NEW S, 0 \in S, \A n \in Nat : n \in S => n + 1 \in S
    PROVE  Nat \subseteq S
<1> SUFFICES ASSUME NEW b \in Nat, b \notin S PROVE FALSE
  OBVIOUS
<1> DEFINE T == {n \in Nat : n \notin S}
<1>1. PICK m \in T : \A n \in T : m <= n
  <2>1. T \subseteq Nat /\ T # {}
    OBVIOUS
  <2> HIDE DEF T
  <2> QED BY <2>1, LeastNatural
<1>2. m # 0
  OBVIOUS
<1>3. m - 1 \in Nat /\ m - 1 \in S
  BY <1>1, <1>2
<1> QED BY <1>3

(* A function on Nat is defined by its first value and a step.             *)
Iterates(D, base, step) ==
    {g \in [Nat -> D] : g[0] = base /\ \A n \in Nat : g[n + 1] = step[<<n, g[n]>>]}

LEMMA Iteration ==
    ASSUME NEW D, NEW base \in D, NEW step \in [Nat \X D -> D]
    PROVE  Iterates(D, base, step) # {}
<1> DEFINE Upto(m, h) == /\ h \in [0 .. m -> D] /\ h[0] = base
                         /\ \A n \in 0 .. (m - 1) : h[n + 1] = step[<<n, h[n]>>]
           S == {m \in Nat : \E h : Upto(m, h)}
           U == {m \in Nat : \A h, k : Upto(m, h) /\ Upto(m, k) => h[m] = k[m]}
<1>1. Nat \subseteq S
  <2>1. 0 \in S
    <3>1. Upto(0, [n \in 0 .. 0 |-> base])
      OBVIOUS
    <3> QED BY <3>1
  <2>2. ASSUME NEW m \in Nat, m \in S
        PROVE  m + 1 \in S
    <3>1. PICK h : Upto(m, h)
      BY <2>2
    <3> DEFINE k == [n \in 0 .. (m + 1) |-> IF n <= m THEN h[n] ELSE step[<<m, h[m]>>]]
    <3>2. h[m] \in D /\ step[<<m, h[m]>>] \in D
      BY <3>1
    <3>3. k \in [0 .. (m + 1) -> D]
      <4>1. \A n \in 0 .. (m + 1) : n <= m => n \in 0 .. m
        OBVIOUS
      <4> QED BY <3>1, <3>2, <4>1
    <3>4. \A n \in 0 .. m : k[n] = h[n]
      OBVIOUS
    <3>5. ASSUME NEW n \in 0 .. m
          PROVE  k[n + 1] = step[<<n, k[n]>>]
      <4>1. CASE n = m
        <5>1. n + 1 \in 0 .. (m + 1) /\ ~(n + 1 <= m)
          BY <4>1
        <5> QED BY <3>4, <4>1, <5>1
      <4>2. CASE n < m
        <5>1. n \in 0 .. (m - 1) /\ n + 1 \in 0 .. m
          BY <4>2
        <5> QED BY <3>1, <3>4, <5>1
      <4> QED BY <4>1, <4>2
    <3>6. k[0] = base
      BY <3>1, <3>4
    <3> HIDE DEF k
    <3>7. (m + 1) - 1 = m /\ m + 1 \in Nat
      OBVIOUS
    <3>8. Upto(m + 1, k)
      BY <3>3, <3>5, <3>6, <3>7
    <3> HIDE DEF Upto
    <3> QED BY <3>7, <3>8
  <2> HIDE DEF S
  <2> QED BY <2>1, <2>2, Induction
<1>2. \A m \in Nat : \A h : Upto(m + 1, h) => Upto(m, [n \in 0 .. m |-> h[n]])
  <2> SUFFICES ASSUME NEW m \in Nat, NEW h, Upto(m + 1, h)
               PROVE  Upto(m, [n \in 0 .. m |-> h[n]])
    OBVIOUS
  <2> DEFINE k == [n \in 0 .. m |-> h[n]]
  <2>1. /\ \A n \in 0 .. m : n \in 0 .. (m + 1) /\ k[n] = h[n]
        /\ \A n \in 0 .. (m - 1) : n \in 0 .. m /\ n + 1 \in 0 .. m
    OBVIOUS
  <2>2. k \in [0 .. m -> D]
    BY <2>1
  <2>3. \A n \in 0 .. m : h[n + 1] = step[<<n, h[n]>>]
    OBVIOUS
  <2> HIDE DEF k
  <2>4. 0 \in 0 .. m
    OBVIOUS
  <2>5. Upto(m, k)
    BY <2>1, <2>2, <2>3, <2>4
  <2> QED BY <2>5 DEF k
<1>3. Nat \subseteq U
  <2>1. 0 \in U
    OBVIOUS
  <2>2. ASSUME NEW m \in Nat, m \in U
        PROVE  m + 1 \in U
    <3> SUFFICES ASSUME NEW h, NEW k, Upto(m + 1, h), Upto(m + 1, k)
                 PROVE  h[m + 1] = k[m + 1]
      OBVIOUS
    <3>1. h[m + 1] = step[<<m, h[m]>>] /\ k[m + 1] = step[<<m, k[m]>>]
      OBVIOUS
    <3>2. [n \in 0 .. m |-> h[n]][m] = [n \in 0 .. m |-> k[n]][m]
      <4>1. Upto(m, [n \in 0 .. m |-> h[n]]) /\ Upto(m, [n \in 0 .. m |-> k[n]])
        BY <1>2
      <4> HIDE DEF Upto
      <4> QED BY <2>2, <4>1
    <3>3. m \in 0 .. m
      OBVIOUS
    <3> QED BY <3>1, <3>2, <3>3
  <2> HIDE DEF U
  <2> QED BY <2>1, <2>2, Induction
<1> DEFINE H(m) == CHOOSE h : Upto(m, h)
           g    == [m \in Nat |-> H(m)[m]]
<1>4. \A m \in Nat : Upto(m, H(m))
  <2> HIDE DEF Upto
  <2> QED BY <1>1
<1> HIDE DEF H
<1>5. g \in [Nat -> D]
  <2>1. \A m \in Nat : m \in 0 .. m
    OBVIOUS
  <2> QED BY <1>4, <2>1
<1>6. g[0] = base
  BY <1>4
<1>7. ASSUME NEW m \in Nat
      PROVE  g[m + 1] = step[<<m, g[m]>>]
  <2>1. Upto(m + 1, H(m + 1)) /\ m + 1 \in Nat
    BY <1>4
  <2>2. g[m + 1] = H(m + 1)[m + 1] /\ g[m] = H(m)[m]
    OBVIOUS
  <2>3. H(m + 1)[m + 1] = step[<<m, H(m + 1)[m]>>]
    BY <2>1
  <2>4. H(m + 1)[m] = H(m)[m]
    <3>1. Upto(m, [n \in 0 .. m |-> H(m + 1)[n]]) /\ Upto(m, H(m))
      <4> HIDE DEF Upto
      <4> QED BY <1>2, <1>4, <2>1
    <3>2. [n \in 0 .. m |-> H(m + 1)[n]][m] = H(m)[m]
      <4> HIDE DEF Upto
      <4> QED BY <1>3, <3>1
    <3>3. m \in 0 .. m
      OBVIOUS
    <3> QED BY <3>2, <3>3
  <2> QED BY <2>2, <2>3, <2>4
<1>8. g \in Iterates(D, base, step)
  BY <1>5, <1>6, <1>7 DEF Iterates
<1> QED BY <1>8

(* The largest and the smallest number of a set.                           *)
LEMMA MaxIs ==
    ASSUME NEW S, S \subseteq Int, NEW m \in S, \A n \in S : n <= m
    PROVE  Max(S) = m
<1>1. \E x \in S : \A y \in S : x >= y
  OBVIOUS
<1>2. Max(S) \in S /\ \A y \in S : Max(S) >= y
  <2> DEFINE most == CHOOSE x \in S : \A y \in S : x >= y
  <2>1. most \in S /\ \A y \in S : most >= y
    BY <1>1, Zenon
  <2>2. Max(S) = most
    BY DEF Max
  <2> QED BY <2>1, <2>2
<1> DEFINE top == Max(S)
<1> HIDE DEF top
<1>3. top \in S /\ \A y \in S : top >= y
  BY <1>2 DEF top
<1>4. top \in Int /\ m \in Int /\ m <= top /\ top <= m
  BY <1>3
<1>5. top = m
  BY <1>4
<1> QED BY <1>5 DEF top

LEMMA MinIs ==
    ASSUME NEW S, S \subseteq Int, NEW m \in S, \A n \in S : m <= n
    PROVE  Min(S) = m
<1>1. \E x \in S : \A y \in S : x <= y
  OBVIOUS
<1>2. Min(S) \in S /\ \A y \in S : Min(S) <= y
  <2> DEFINE least == CHOOSE x \in S : \A y \in S : x <= y
  <2>1. least \in S /\ \A y \in S : least <= y
    BY <1>1, Zenon
  <2>2. Min(S) = least
    BY DEF Min
  <2> QED BY <2>1, <2>2
<1> DEFINE top == Min(S)
<1> HIDE DEF top
<1>3. top \in S /\ \A y \in S : top <= y
  BY <1>2 DEF top
<1>4. top \in Int /\ m \in Int /\ m <= top /\ top <= m
  BY <1>3
<1>5. top = m
  BY <1>4
<1> QED BY <1>5 DEF top

LEMMA MinExists ==
    ASSUME NEW S, S \subseteq Nat, S # {}
    PROVE  Min(S) \in S /\ \A n \in S : Min(S) <= n
<1>1. \E x \in S : \A y \in S : x <= y
  BY LeastNatural
<1> QED BY <1>1 DEF Min

LEMMA MaxExists ==
    ASSUME NEW b \in Nat, NEW S, S \subseteq 1 .. b, S # {}
    PROVE  Max(S) \in S /\ \A n \in S : n <= Max(S)
<1> DEFINE T == {n \in Nat : b - n \in S}
<1>1. T \subseteq Nat /\ T # {}
  <2>1. PICK x \in S : TRUE
    OBVIOUS
  <2>2. b - x \in Nat /\ b - (b - x) = x
    BY <2>1
  <2> QED BY <2>1, <2>2
<1>2. PICK t \in T : \A n \in T : t <= n
  <2> HIDE DEF T
  <2> QED BY <1>1, LeastNatural
<1> DEFINE m == b - t
<1>3. m \in S /\ S \subseteq Int
  BY <1>2
<1>4. ASSUME NEW n \in S PROVE n <= m
  <2>1. b - n \in Nat /\ b - (b - n) = n
    OBVIOUS
  <2>2. b - n \in T
    BY <2>1
  <2>3. t <= b - n
    BY <1>2, <2>2
  <2> QED BY <2>1, <2>3
<1> HIDE DEF m
<1> QED BY <1>3, <1>4, MaxIs

(* One element more of a part of a sequence.                               *)
LEMMA SubSeqGrows ==
    ASSUME NEW T, NEW s \in Seq(T), NEW m \in Nat, NEW n \in Nat, 1 <= m, m <= n + 1, n < Len(s)
    PROVE  SubSeq(s, m, n + 1) = Append(SubSeq(s, m, n), s[n + 1])
<1> DEFINE t == SubSeq(s, m, n)
           u == SubSeq(s, m, n + 1)
<1>1. /\ t \in Seq(T) /\ Len(t) = n + 1 - m /\ \A i \in 1 .. (n + 1 - m) : t[i] = s[m + i - 1]
      /\ DOMAIN t = 1 .. (n + 1 - m)
  OBVIOUS
<1>2. /\ u \in Seq(T) /\ Len(u) = n + 2 - m /\ \A i \in 1 .. (n + 2 - m) : u[i] = s[m + i - 1]
      /\ DOMAIN u = 1 .. (n + 2 - m)
  OBVIOUS
<1>4. s[n + 1] \in T
  OBVIOUS
<1> HIDE DEF t, u
<1> DEFINE a == Append(t, s[n + 1])
<1>5. /\ a \in Seq(T) /\ DOMAIN a = 1 .. (n + 2 - m)
      /\ \A i \in 1 .. (n + 1 - m) : a[i] = t[i]
      /\ a[n + 2 - m] = s[n + 1]
  BY <1>1, <1>4
<1> HIDE DEF a
<1>6. ASSUME NEW i \in 1 .. (n + 2 - m) PROVE a[i] = u[i]
  <2>1. CASE i \in 1 .. (n + 1 - m)
    BY <1>1, <1>2, <1>5, <2>1
  <2>2. CASE i = n + 2 - m
    BY <1>2, <1>5, <2>2
  <2> QED BY <2>1, <2>2
<1> QED BY <1>2, <1>5, <1>6 DEF a, t, u

-----------------------------------------------------------------------------
(* What the three sequence operations of the queues do to the elements of  *)
(* a sequence without repetition.                                          *)

(* push_back of a new element.                                             *)
LEMMA AppendElements ==
    ASSUME NEW T, NEW s \in Seq(T), NEW e \in T,
           IsInjective(s), e \notin Range(s)
    PROVE  /\ Append(s, e) \in Seq(T)
           /\ IsInjective(Append(s, e))
           /\ Range(Append(s, e)) = Range(s) \cup {e}
<1> DEFINE new == Append(s, e)
<1>1. /\ new \in Seq(T)
      /\ DOMAIN s = 1 .. Len(s)
      /\ DOMAIN new = 1 .. (Len(s) + 1)
      /\ Len(s) \in Nat
      /\ \A i \in 1 .. Len(s) : new[i] = s[i]
      /\ new[Len(s) + 1] = e
  OBVIOUS
<1> HIDE DEF new
<1>2. IsInjective(new)
  BY <1>1 DEF IsInjective, Range
<1>3. Range(new) = Range(s) \cup {e}
  BY <1>1 DEF Range
<1> QED BY <1>1, <1>2, <1>3 DEF new

(* push_front of a new element.                                            *)
LEMMA PushFrontElements ==
    ASSUME NEW T, NEW s \in Seq(T), NEW e \in T,
           IsInjective(s), e \notin Range(s)
    PROVE  /\ <<e>> \o s \in Seq(T)
           /\ IsInjective(<<e>> \o s)
           /\ Range(<<e>> \o s) = Range(s) \cup {e}
<1> DEFINE new == <<e>> \o s
<1>1. /\ new \in Seq(T)
      /\ DOMAIN s = 1 .. Len(s)
      /\ DOMAIN new = 1 .. (Len(s) + 1)
      /\ Len(s) \in Nat
      /\ \A i \in 2 .. (Len(s) + 1) : new[i] = s[i - 1]
      /\ new[1] = e
  OBVIOUS
<1> HIDE DEF new
<1>2. ASSUME NEW i \in DOMAIN new, NEW j \in DOMAIN new, new[i] = new[j]
      PROVE  i = j
  <2>1. \A k \in DOMAIN new : k # 1 => k - 1 \in DOMAIN s /\ new[k] = s[k - 1]
    BY <1>1
  <2>2. \A k \in DOMAIN s : s[k] # e
    BY DEF Range
  <2>3. CASE i = 1
    BY <1>1, <1>2, <2>1, <2>2, <2>3
  <2>4. CASE j = 1
    BY <1>1, <1>2, <2>1, <2>2, <2>4
  <2>5. CASE i # 1 /\ j # 1
    <3>1. i - 1 = j - 1
      BY <1>2, <2>1, <2>5 DEF IsInjective
    <3> QED BY <3>1, <1>1
  <2> QED BY <2>3, <2>4, <2>5
<1>3. IsInjective(new)
  BY <1>2 DEF IsInjective
<1>4. Range(new) = Range(s) \cup {e}
  <2>1. \A k \in DOMAIN s : k + 1 \in DOMAIN new /\ new[k + 1] = s[k]
    BY <1>1
  <2>2. \A k \in DOMAIN new : k # 1 => k - 1 \in DOMAIN s /\ new[k] = s[k - 1]
    BY <1>1
  <2>3. 1 \in DOMAIN new
    BY <1>1
  <2>4. ASSUME NEW x \in Range(new) PROVE x \in Range(s) \cup {e}
    <3>1. PICK k \in DOMAIN new : new[k] = x
      BY DEF Range
    <3>2. CASE k = 1
      BY <3>1, <3>2, <1>1
    <3>3. CASE k # 1
      BY <3>1, <3>3, <2>2 DEF Range
    <3> QED BY <3>2, <3>3
  <2>5. ASSUME NEW x \in Range(s) PROVE x \in Range(new)
    BY <2>1 DEF Range
  <2>6. e \in Range(new)
    BY <1>1, <2>3 DEF Range
  <2> QED BY <2>4, <2>5, <2>6
<1> QED BY <1>1, <1>3, <1>4 DEF new

(* pop_front.                                                              *)
LEMMA TailElements ==
    ASSUME NEW T, NEW s \in Seq(T), s # <<>>, IsInjective(s)
    PROVE  /\ Head(s) \in Range(s)
           /\ Head(s) \in T
           /\ Tail(s) \in Seq(T)
           /\ IsInjective(Tail(s))
           /\ Range(Tail(s)) = Range(s) \ {Head(s)}
<1> DEFINE new == Tail(s)
<1>1. /\ new \in Seq(T)
      /\ DOMAIN s = 1 .. Len(s)
      /\ Len(s) \in Nat \ {0}
      /\ DOMAIN new = 1 .. (Len(s) - 1)
      /\ \A i \in 1 .. (Len(s) - 1) : new[i] = s[i + 1]
      /\ Head(s) = s[1]
      /\ Head(s) \in T
  OBVIOUS
<1> HIDE DEF new
<1>2. Head(s) \in Range(s)
  BY <1>1 DEF Range
<1>3. \A k \in DOMAIN new : k + 1 \in DOMAIN s /\ new[k] = s[k + 1] /\ k + 1 # 1
  BY <1>1
<1>4. IsInjective(new)
  <2> SUFFICES ASSUME NEW i \in DOMAIN new, NEW j \in DOMAIN new, new[i] = new[j]
               PROVE  i = j
    BY DEF IsInjective
  <2>1. i + 1 = j + 1
    BY <1>3 DEF IsInjective
  <2> QED BY <2>1, <1>1
<1>5. \A k \in DOMAIN s : k # 1 => k - 1 \in DOMAIN new /\ new[k - 1] = s[k]
  BY <1>1
<1>6. 1 \in DOMAIN s
  BY <1>1
<1>7. \A k \in DOMAIN new : new[k] # s[1]
  BY <1>3, <1>6 DEF IsInjective
<1>8. Range(new) = Range(s) \ {Head(s)}
  BY <1>1, <1>3, <1>5, <1>6, <1>7 DEF Range
<1> QED BY <1>1, <1>2, <1>4, <1>8 DEF new

-----------------------------------------------------------------------------
(* The same operations entry by entry, for a sequence used as a stack.     *)

LEMMA PushFrontEntries ==
    ASSUME NEW T, NEW s \in Seq(T), NEW e \in T
    PROVE  /\ <<e>> \o s \in Seq(T) /\ <<e>> \o s # <<>>
           /\ Len(<<e>> \o s) = Len(s) + 1
           /\ Head(<<e>> \o s) = e
           /\ (<<e>> \o s)[1] = e
           /\ \A i \in 2 .. (Len(s) + 1) : (<<e>> \o s)[i] = s[i - 1]
OBVIOUS

LEMMA TailEntries ==
    ASSUME NEW T, NEW s \in Seq(T), s # <<>>
    PROVE  /\ Tail(s) \in Seq(T)
           /\ Len(Tail(s)) = Len(s) - 1
           /\ Len(s) \in Nat \ {0}
           /\ Head(s) = s[1] /\ s[1] \in T
           /\ \A i \in 1 .. (Len(s) - 1) : Tail(s)[i] = s[i + 1]
           /\ Tail(s) # <<>> => Head(Tail(s)) = s[2] /\ Len(s) > 1
OBVIOUS

LEMMA FrontEntry ==
    ASSUME NEW T, NEW s \in Seq(T), s # <<>>, NEW e \in T
    PROVE  /\ [s EXCEPT ![1] = e] \in Seq(T)
           /\ Len([s EXCEPT ![1] = e]) = Len(s)
           /\ [s EXCEPT ![1] = e] # <<>>
           /\ Head([s EXCEPT ![1] = e]) = e
           /\ \A i \in 1 .. Len(s) : [s EXCEPT ![1] = e][i] = IF i = 1 THEN e ELSE s[i]
OBVIOUS

-----------------------------------------------------------------------------
(* Sums over finite sets, and powers of two                                *)

(* The sum of f over a set, as the fold over its elements is defined.      *)
Summing(f, S, g) ==
    [s \in SUBSET S |-> IF s = {} THEN 0
                        ELSE f[CHOOSE x \in s : TRUE] + g[s \ {CHOOSE x \in s : TRUE}]]

Total(f, S) == (CHOOSE g : g = Summing(f, S, g))[S]

LEMMA SumIsDefined ==
    ASSUME NEW f, NEW S, IsFiniteSet(S)
    PROVE  \E g : g = Summing(f, S, g)
<1> DEFINE some(s) == CHOOSE x \in s : TRUE
           Right(n, g) == \A s \in SUBSET S : Cardinality(s) <= n => g[s] = Summing(f, S, g)[s]
           N == {n \in Nat : \E g : Right(n, g)}
<1>1. \A s \in SUBSET S : IsFiniteSet(s) /\ Cardinality(s) \in Nat
  BY FS_Subset, FS_CardinalityType
<1>2. \A s \in SUBSET S : s # {} => /\ some(s) \in s /\ s \ {some(s)} \in SUBSET S
                                    /\ Cardinality(s \ {some(s)}) = Cardinality(s) - 1
  <2> SUFFICES ASSUME NEW s \in SUBSET S, s # {}
               PROVE  /\ some(s) \in s /\ s \ {some(s)} \in SUBSET S
                      /\ Cardinality(s \ {some(s)}) = Cardinality(s) - 1
    OBVIOUS
  <2>1. some(s) \in s
    OBVIOUS
  <2> HIDE DEF some
  <2> QED BY <1>1, <2>1, FS_RemoveElement
<1>3. ASSUME NEW g, NEW s \in SUBSET S
      PROVE  Summing(f, S, g)[s] = IF s = {} THEN 0 ELSE f[some(s)] + g[s \ {some(s)}]
  BY DEF Summing
<1> HIDE DEF some
<1>4. 0 \in N
  <2>1. ASSUME NEW s \in SUBSET S, Cardinality(s) <= 0
        PROVE  s = {}
    BY <1>1, <2>1, FS_EmptySet
  <2> DEFINE g == [s \in SUBSET S |-> 0]
  <2>2. Right(0, g)
    BY <1>3, <2>1
  <2> HIDE DEF Right
  <2> QED BY <2>2
<1>5. ASSUME NEW n \in Nat, NEW g, Right(n, g)
      PROVE  Right(n + 1, Summing(f, S, g))
  <2> DEFINE h == Summing(f, S, g)
  <2> SUFFICES ASSUME NEW s \in SUBSET S, Cardinality(s) <= n + 1
               PROVE  h[s] = Summing(f, S, h)[s]
    OBVIOUS
  <2>1. CASE s = {}
    BY <1>3, <2>1
  <2>2. CASE s # {}
    <3> DEFINE r == s \ {some(s)}
    <3>1. r \in SUBSET S /\ Cardinality(r) <= n
      BY <1>1, <1>2, <2>2
    <3>2. g[r] = h[r]
      BY <1>5, <3>1
    <3>3. h[s] = f[some(s)] + g[r]
      BY <1>3, <2>2
    <3>4. Summing(f, S, h)[s] = f[some(s)] + h[r]
      BY <1>3, <2>2
    <3> HIDE DEF h
    <3> QED BY <3>2, <3>3, <3>4
  <2> QED BY <2>1, <2>2
<1>6. ASSUME NEW n \in Nat, n \in N PROVE n + 1 \in N
  <2> HIDE DEF Right
  <2> QED BY <1>5, <1>6
<1> DEFINE c == Cardinality(S)
<1>7. c \in N
  <2>1. c \in Nat
    BY <1>1
  <2> HIDE DEF N, c
  <2> QED BY <1>4, <1>6, <2>1, Induction
<1>8. PICK g : Right(c, g)
  <2> HIDE DEF Right
  <2> QED BY <1>7
<1> DEFINE h == Summing(f, S, g)
<1>9. \A s \in SUBSET S : g[s] = h[s]
  <2> SUFFICES ASSUME NEW s \in SUBSET S PROVE g[s] = h[s]
    OBVIOUS
  <2>1. Cardinality(s) <= c
    BY FS_Subset
  <2> QED BY <1>8, <2>1
<1>10. h = Summing(f, S, h)
  <2>1. \A s \in SUBSET S : s # {} => s \ {some(s)} \in SUBSET S
    BY <1>2
  <2>2. h = [s \in SUBSET S |-> IF s = {} THEN 0 ELSE f[some(s)] + g[s \ {some(s)}]]
    BY DEF Summing, some
  <2>3. Summing(f, S, h) = [s \in SUBSET S |-> IF s = {} THEN 0 ELSE f[some(s)] + h[s \ {some(s)}]]
    BY DEF Summing, some
  <2> HIDE DEF h
  <2>4. \A s \in SUBSET S : s # {} => g[s \ {some(s)}] = h[s \ {some(s)}]
    BY <1>9, <2>1
  <2> QED BY <2>2, <2>3, <2>4
<1> QED BY <1>10

(* The part of it over a smaller set is the sum over that set.             *)
LEMMA SumOfPart ==
    ASSUME NEW f, NEW S, IsFiniteSet(S), NEW T \in SUBSET S,
           NEW g, g = Summing(f, S, g), NEW h, h = Summing(f, T, h)
    PROVE  h[T] = g[T]
<1> DEFINE some(s) == CHOOSE x \in s : TRUE
           N == {n \in Nat : \A s \in SUBSET T : Cardinality(s) = n => h[s] = g[s]}
<1>1. \A s \in SUBSET T : IsFiniteSet(s) /\ Cardinality(s) \in Nat
  BY FS_Subset, FS_CardinalityType
<1>2. \A s \in SUBSET T : s # {} => /\ some(s) \in s /\ s \ {some(s)} \in SUBSET T
                                    /\ Cardinality(s \ {some(s)}) = Cardinality(s) - 1
  <2> SUFFICES ASSUME NEW s \in SUBSET T, s # {}
               PROVE  /\ some(s) \in s /\ s \ {some(s)} \in SUBSET T
                      /\ Cardinality(s \ {some(s)}) = Cardinality(s) - 1
    OBVIOUS
  <2>1. some(s) \in s
    OBVIOUS
  <2> HIDE DEF some
  <2> QED BY <1>1, <2>1, FS_RemoveElement
<1>3. \A s \in SUBSET S : g[s] = IF s = {} THEN 0 ELSE f[some(s)] + g[s \ {some(s)}]
  BY DEF Summing
<1>4. \A s \in SUBSET T : h[s] = IF s = {} THEN 0 ELSE f[some(s)] + h[s \ {some(s)}]
  BY DEF Summing
<1> HIDE DEF some
<1>5. 0 \in N
  <2>1. ASSUME NEW s \in SUBSET T, Cardinality(s) = 0
        PROVE  h[s] = g[s]
    <3>1. s = {}
      BY <1>1, <2>1, FS_EmptySet
    <3> QED BY <1>3, <1>4, <3>1
  <2> QED BY <2>1
<1>6. ASSUME NEW n \in Nat, n \in N PROVE n + 1 \in N
  <2> SUFFICES ASSUME NEW s \in SUBSET T, Cardinality(s) = n + 1
               PROVE  h[s] = g[s]
    OBVIOUS
  <2>1. s # {} /\ s \in SUBSET S
    BY FS_EmptySet
  <2>2. h[s \ {some(s)}] = g[s \ {some(s)}]
    BY <1>2, <1>6, <2>1
  <2> QED BY <1>3, <1>4, <2>1, <2>2
<1> HIDE DEF N
<1>7. Cardinality(T) \in N
  BY <1>1, <1>5, <1>6, Induction
<1> QED BY <1>7 DEF N

LEMMA SumParts ==
    ASSUME NEW f, NEW S, IsFiniteSet(S)
    PROVE  /\ S = {} => Total(f, S) = 0
           /\ S # {} => /\ (CHOOSE x \in S : TRUE) \in S
                        /\ Total(f, S) = f[CHOOSE x \in S : TRUE]
                                         + Total(f, S \ {CHOOSE x \in S : TRUE})
<1> DEFINE a == CHOOSE x \in S : TRUE
           T == S \ {a}
           g == CHOOSE k : k = Summing(f, S, k)
           h == CHOOSE k : k = Summing(f, T, k)
<1>1. g = Summing(f, S, g)
  BY SumIsDefined
<1>2. IsFiniteSet(T)
  BY FS_RemoveElement
<1>3. h = Summing(f, T, h)
  BY <1>2, SumIsDefined
<1>4. Total(f, S) = g[S] /\ Total(f, T) = h[T]
  BY DEF Total
<1> HIDE DEF g, h
<1>5. h[T] = g[T]
  BY <1>1, <1>3, SumOfPart
<1>6. g[S] = IF S = {} THEN 0 ELSE f[a] + g[T]
  BY <1>1 DEF Summing
<1>7. S # {} => a \in S
  OBVIOUS
<1> HIDE DEF a
<1> QED BY <1>4, <1>5, <1>6, <1>7 DEF a

LEMMA PowersDouble ==
    ASSUME NEW n \in Nat
    PROVE  2^n \in Nat \ {0} /\ 2^(n + 1) = 2 * 2^n
<1> DEFINE S == 1 .. n
           T == 1 .. (n + 1)
           A == SUBSET S
           B == {s \union {n + 1} : s \in A}
           add == [s \in A |-> s \union {n + 1}]
<1>1. IsFiniteSet(S) /\ Cardinality(S) = n
  BY FS_Interval
<1>2. IsFiniteSet(T) /\ Cardinality(T) = n + 1
  BY FS_Interval
<1>3. IsFiniteSet(A) /\ Cardinality(A) = 2^n
  BY <1>1, FS_SUBSET
<1>4. IsFiniteSet(SUBSET T) /\ Cardinality(SUBSET T) = 2^(n + 1)
  BY <1>2, FS_SUBSET
<1>5. add \in Bijection(A, B)
  <2>1. add \in [A -> B]
    OBVIOUS
  <2>2. ASSUME NEW s \in A, NEW t \in A, add[s] = add[t]
        PROVE  s = t
    <3>1. n + 1 \notin s /\ n + 1 \notin t
      OBVIOUS
    <3> QED BY <2>2, <3>1
  <2>3. \A b \in B : \E s \in A : add[s] = b
    OBVIOUS
  <2> HIDE DEF add, A, B
  <2> QED BY <2>1, <2>2, <2>3, Fun_IsBij
<1>6. IsFiniteSet(B) /\ Cardinality(B) = 2^n
  <2> HIDE DEF A, B, add
  <2>1. ExistsBijection(A, B)
    BY <1>5 DEF ExistsBijection
  <2> QED BY <1>3, <2>1, FS_Bijection
<1>7. A \intersect B = {} /\ SUBSET T = A \union B
  <2>1. \A s \in A : n + 1 \notin s
    OBVIOUS
  <2>2. \A s \in B : n + 1 \in s
    OBVIOUS
  <2>3. T = S \union {n + 1}
    OBVIOUS
  <2>4. \A s \in SUBSET T : n + 1 \in s => s \in B
    <3> SUFFICES ASSUME NEW s \in SUBSET T, n + 1 \in s
                 PROVE  s \in B
      OBVIOUS
    <3>1. s \ {n + 1} \in A /\ s = (s \ {n + 1}) \union {n + 1}
      BY <2>3
    <3> QED BY <3>1
  <2>5. B \subseteq SUBSET T /\ A \subseteq SUBSET T
    BY <2>3
  <2>6. \A s \in SUBSET T : n + 1 \notin s => s \in A
    BY <2>3
  <2> HIDE DEF A, B, T
  <2> QED BY <2>1, <2>2, <2>4, <2>5, <2>6
<1> HIDE DEF A, B
<1>8. Cardinality(SUBSET T) = 2^n + 2^n
  <2>1. Cardinality(A \union B) = Cardinality(A) + Cardinality(B) - Cardinality(A \intersect B)
    BY <1>3, <1>6, FS_Union
  <2>2. Cardinality(A \intersect B) = 0 /\ Cardinality(A) \in Nat /\ Cardinality(B) \in Nat
    BY <1>3, <1>6, <1>7, FS_EmptySet, FS_CardinalityType
  <2> QED BY <1>3, <1>6, <1>7, <2>1, <2>2
<1>9. 2^n \in Nat /\ 2^n # 0
  <2>1. Cardinality(A) \in Nat /\ (Cardinality(A) = 0 <=> A = {})
    BY <1>3, FS_CardinalityType, FS_EmptySet
  <2>2. S \in A
    BY DEF A
  <2> QED BY <1>3, <2>1, <2>2
<1> DEFINE p == 2^n
           q == 2^(n + 1)
<1>10. q = p + p /\ p \in Nat /\ p # 0
  BY <1>4, <1>8, <1>9
<1> HIDE DEF p, q
<1>11. p \in Nat \ {0} /\ q = 2 * p
  BY <1>10
<1> QED BY <1>11 DEF p, q

LEMMA NoPower == 2^0 = 1
<1> DEFINE S == 1 .. 0
<1>1. IsFiniteSet(S) /\ Cardinality(S) = 0 /\ S = {}
  BY FS_Interval
<1>2. Cardinality(SUBSET S) = 2^Cardinality(S)
  BY <1>1, FS_SUBSET
<1>3. SUBSET S = {{}}
  BY <1>1
<1>4. Cardinality({{}}) = 1
  BY FS_Singleton
<1> QED BY <1>1, <1>2, <1>3, <1>4

LEMMA SetInduction ==
    ASSUME NEW U, IsFiniteSet(U), NEW F, {} \in F,
           \A s \in SUBSET U : \A x \in U \ s : s \in F => s \union {x} \in F
    PROVE  SUBSET U \subseteq F
<1> DEFINE N == {n \in Nat : \A s \in SUBSET U : Cardinality(s) = n => s \in F}
<1>1. \A s \in SUBSET U : IsFiniteSet(s) /\ Cardinality(s) \in Nat
  BY FS_Subset, FS_CardinalityType
<1>2. 0 \in N
  BY <1>1, FS_EmptySet
<1>3. ASSUME NEW n \in Nat, n \in N PROVE n + 1 \in N
  <2> SUFFICES ASSUME NEW s \in SUBSET U, Cardinality(s) = n + 1
               PROVE  s \in F
    OBVIOUS
  <2>0. s # {}
    BY FS_EmptySet
  <2>1. PICK x : x \in s
    BY <2>0
  <2>2. Cardinality(s \ {x}) = n /\ s \ {x} \in SUBSET U
    <3>1. IsFiniteSet(s)
      BY <1>1
    <3>2. Cardinality(s \ {x}) = Cardinality(s) - 1
      BY <2>1, <3>1, FS_RemoveElement
    <3> QED BY <3>2
  <2>3. s \ {x} \in F
    BY <1>3, <2>2
  <2>4. x \in U \ (s \ {x}) /\ s = (s \ {x}) \union {x}
    BY <2>1
  <2> DEFINE r == s \ {x}
  <2>5. r \in SUBSET U /\ x \in U \ r /\ r \in F /\ s = r \union {x}
    BY <2>2, <2>3, <2>4
  <2> HIDE DEF r
  <2> QED BY <2>5
<1> HIDE DEF N
<1>4. Nat \subseteq N
  BY <1>2, <1>3, Induction
<1> QED BY <1>1, <1>4 DEF N

LEMMA SumIsInteger ==
    ASSUME NEW f, NEW U, IsFiniteSet(U), \A x \in U : f[x] \in Int
    PROVE  Total(f, U) \in Int
<1> DEFINE N == {n \in Nat : \A s \in SUBSET U : Cardinality(s) = n => Total(f, s) \in Int}
<1>1. \A s \in SUBSET U : IsFiniteSet(s) /\ Cardinality(s) \in Nat
  BY FS_Subset, FS_CardinalityType
<1>2. ASSUME NEW s \in SUBSET U
      PROVE  /\ s = {} => Total(f, s) = 0
             /\ s # {} => \E a \in s : Total(f, s) = f[a] + Total(f, s \ {a})
  <2> DEFINE a == CHOOSE x \in s : TRUE
  <2>1. /\ s = {} => Total(f, s) = 0
        /\ s # {} => a \in s /\ Total(f, s) = f[a] + Total(f, s \ {a})
    BY <1>1, SumParts
  <2> HIDE DEF a
  <2> QED BY <2>1
<1>3. 0 \in N
  <2>1. \A s \in SUBSET U : Cardinality(s) = 0 => s = {}
    BY <1>1, FS_EmptySet
  <2> QED BY <1>2, <2>1
<1>4. ASSUME NEW n \in Nat, n \in N PROVE n + 1 \in N
  <2> SUFFICES ASSUME NEW s \in SUBSET U, Cardinality(s) = n + 1
               PROVE  Total(f, s) \in Int
    OBVIOUS
  <2>1. PICK a \in s : Total(f, s) = f[a] + Total(f, s \ {a})
    <3>1. s # {}
      BY FS_EmptySet
    <3> QED BY <1>2, <3>1
  <2>2. Cardinality(s \ {a}) = n /\ s \ {a} \in SUBSET U
    BY <1>1, FS_RemoveElement
  <2> QED BY <1>4, <2>1, <2>2
<1> HIDE DEF N
<1>5. Cardinality(U) \in N
  BY <1>1, <1>3, <1>4, Induction
<1> QED BY <1>5 DEF N

(* Any of the elements may be taken first.                                 *)
LEMMA SumWithout ==
    ASSUME NEW f, NEW U, IsFiniteSet(U), \A x \in U : f[x] \in Int
    PROVE  \A x \in U : Total(f, U) = f[x] + Total(f, U \ {x})
<1> DEFINE Good(s) == \A x \in s : Total(f, s) = f[x] + Total(f, s \ {x})
           N == {n \in Nat : \A s \in SUBSET U : Cardinality(s) = n => Good(s)}
<1>1. \A s \in SUBSET U : IsFiniteSet(s) /\ Cardinality(s) \in Nat
  BY FS_Subset, FS_CardinalityType
<1>2. ASSUME NEW s \in SUBSET U
      PROVE  /\ s = {} => Total(f, s) = 0
             /\ s # {} => \E a \in s : Total(f, s) = f[a] + Total(f, s \ {a})
  <2> DEFINE a == CHOOSE x \in s : TRUE
  <2>1. /\ s = {} => Total(f, s) = 0
        /\ s # {} => a \in s /\ Total(f, s) = f[a] + Total(f, s \ {a})
    BY <1>1, SumParts
  <2> HIDE DEF a
  <2> QED BY <2>1
<1>0. \A s \in SUBSET U : Total(f, s) \in Int
  BY <1>1, SumIsInteger
<1>3. 0 \in N
  <2>1. \A s \in SUBSET U : Cardinality(s) = 0 => s = {}
    BY <1>1, FS_EmptySet
  <2> QED BY <1>2, <2>1
<1>4. ASSUME NEW n \in Nat, n \in N PROVE n + 1 \in N
  <2> SUFFICES ASSUME NEW s \in SUBSET U, Cardinality(s) = n + 1
               PROVE  Good(s)
    OBVIOUS
  <2>1. PICK a \in s : Total(f, s) = f[a] + Total(f, s \ {a})
    <3>1. s # {}
      BY FS_EmptySet
    <3> QED BY <1>2, <3>1
  <2>2. ASSUME NEW x \in s
        PROVE  Cardinality(s \ {x}) = n /\ s \ {x} \in SUBSET U
    <3>1. IsFiniteSet(s)
      BY <1>1
    <3>2. Cardinality(s \ {x}) = Cardinality(s) - 1
      BY <3>1, FS_RemoveElement
    <3> QED BY <3>2
  <2>3. \A x \in s : Good(s \ {x})
    <3> HIDE DEF Good
    <3> QED BY <1>4, <2>2
  <2>5. ASSUME NEW x \in s PROVE Total(f, s) = f[x] + Total(f, s \ {x})
    <3>1. CASE x = a
      BY <2>1, <3>1
    <3>2. CASE x # a
      <4> DEFINE r == s \ {x, a}
                 ta == Total(f, s \ {a})
                 tx == Total(f, s \ {x})
                 t == Total(f, r)
      <4>1. r = (s \ {a}) \ {x} /\ r = (s \ {x}) \ {a} /\ x \in s \ {a} /\ a \in s \ {x}
        BY <3>2
      <4>2. ta = f[x] + t
        BY <2>3, <4>1
      <4>3. tx = f[a] + t
        BY <2>3, <4>1
      <4>4. t \in Int
        <5>1. r \in SUBSET U
          OBVIOUS
        <5> QED BY <1>0, <5>1
      <4> QED BY <2>1, <4>2, <4>3, <4>4
    <3> QED BY <3>1, <3>2
  <2> QED BY <2>5
<1> HIDE DEF N, Good
<1>5. Cardinality(U) \in N
  BY <1>1, <1>3, <1>4, Induction
<1>6. Good(U)
  BY <1>5 DEF N
<1> QED BY <1>6 DEF Good

LEMMA SumOfNone == ASSUME NEW f PROVE Total(f, {}) = 0
BY SumParts, FS_EmptySet

LEMMA SumWith ==
    ASSUME NEW f, NEW S, IsFiniteSet(S), NEW a, a \notin S, \A x \in S \union {a} : f[x] \in Int
    PROVE  Total(f, S \union {a}) = f[a] + Total(f, S)
<1> DEFINE U == S \union {a}
<1>1. IsFiniteSet(U) /\ a \in U /\ U \ {a} = S
  BY FS_AddElement
<1>2. \A x \in U : f[x] \in Int
  OBVIOUS
<1> HIDE DEF U
<1>3. Total(f, U) = f[a] + Total(f, U \ {a})
  BY <1>1, <1>2, SumWithout
<1> QED BY <1>1, <1>3 DEF U

(* Of numbers from 0, a smaller set has the smaller sum.                   *)
LEMMA SumGrows ==
    ASSUME NEW f, NEW U, IsFiniteSet(U), \A x \in U : f[x] \in Nat, NEW T \in SUBSET U
    PROVE  0 <= Total(f, T) /\ Total(f, T) <= Total(f, U)
<1> DEFINE F == {s \in SUBSET U : /\ 0 <= Total(f, s)
                                  /\ Total(f, s \intersect T) <= Total(f, s)}
<1>1. \A s \in SUBSET U : Total(f, s) \in Int
  <2> SUFFICES ASSUME NEW s \in SUBSET U PROVE Total(f, s) \in Int
    OBVIOUS
  <2>1. IsFiniteSet(s)
    BY FS_Subset
  <2> QED BY <2>1, SumIsInteger
<1>2. {} \in F
  <2>1. {} \intersect T = {}
    OBVIOUS
  <2> QED BY <2>1, SumOfNone
<1>3. ASSUME NEW s \in SUBSET U, NEW x \in U \ s, s \in F
      PROVE  s \union {x} \in F
  <2> DEFINE u == s \union {x}
             i == s \intersect T
             j == u \intersect T
  <2>1. IsFiniteSet(s) /\ IsFiniteSet(i)
    BY FS_Subset
  <2>2. Total(f, u) = f[x] + Total(f, s)
    BY <2>1, SumWith
  <2>3. /\ 0 <= Total(f, s) /\ Total(f, i) <= Total(f, s) /\ f[x] \in Nat
        /\ Total(f, s) \in Int /\ Total(f, i) \in Int
    BY <1>1, <1>3
  <2>4. Total(f, j) <= Total(f, u)
    <3>1. CASE x \in T
      <4>1. j = i \union {x} /\ x \notin i
        BY <3>1
      <4> HIDE DEF i, j
      <4>2. \A y \in i \union {x} : f[y] \in Int
        BY DEF i
      <4>3. Total(f, j) = f[x] + Total(f, i)
        BY <2>1, <4>1, <4>2, SumWith
      <4> HIDE DEF u
      <4> QED BY <2>2, <2>3, <4>3
    <3>2. CASE x \notin T
      <4>1. j = i
        BY <3>2
      <4> HIDE DEF i, j, u
      <4> QED BY <2>2, <2>3, <4>1
    <3> QED BY <3>1, <3>2
  <2>5. 0 <= Total(f, u)
    <3> HIDE DEF u, i
    <3> QED BY <2>2, <2>3
  <2> QED BY <2>4, <2>5
<1> HIDE DEF F
<1>4. U \in F
  BY <1>2, <1>3, SetInduction
<1>5. U \intersect T = T
  OBVIOUS
<1>6. Total(f, T) <= Total(f, U)
  BY <1>4, <1>5 DEF F
<1>7. 0 <= Total(f, T)
  <2>1. T \in F
    BY <1>2, <1>3, SetInduction
  <2> QED BY <2>1 DEF F
<1> QED BY <1>6, <1>7

Multiples(d) == {k * d : k \in Nat}

LEMMA SumOfMultiples ==
    ASSUME NEW f, NEW U, IsFiniteSet(U), NEW d \in Nat, \A x \in U : f[x] \in Multiples(d)
    PROVE  Total(f, U) \in Multiples(d)
<1> DEFINE F == {s \in SUBSET U : Total(f, s) \in Multiples(d)}
<1>1. {} \in F
  <2>1. Total(f, {}) = 0 * d
    BY SumOfNone
  <2> QED BY <2>1 DEF Multiples
<1>2. ASSUME NEW s \in SUBSET U, NEW x \in U \ s, s \in F
      PROVE  s \union {x} \in F
  <2>1. IsFiniteSet(s)
    BY FS_Subset
  <2>2. \A y \in U : f[y] \in Int
    BY DEF Multiples
  <2>3. Total(f, s \union {x}) = f[x] + Total(f, s)
    BY <2>1, <2>2, SumWith
  <2>4. PICK k \in Nat : Total(f, s) = k * d
    BY <1>2 DEF Multiples
  <2>5. PICK m \in Nat : f[x] = m * d
    BY DEF Multiples
  <2>6. m * d + k * d = (m + k) * d /\ m + k \in Nat
    OBVIOUS
  <2>7. Total(f, s \union {x}) \in Multiples(d)
    BY <2>3, <2>4, <2>5, <2>6 DEF Multiples
  <2> QED BY <2>7
<1> HIDE DEF F
<1>3. U \in F
  BY <1>1, <1>2, SetInduction
<1> QED BY <1>3 DEF F

LEMMA SumOfEqual ==
    ASSUME NEW f, NEW U, IsFiniteSet(U), NEW d \in Nat, \A x \in U : f[x] = d
    PROVE  Total(f, U) = Cardinality(U) * d
<1> DEFINE F == {s \in SUBSET U : Total(f, s) = Cardinality(s) * d}
<1>1. {} \in F
  <2>1. Total(f, {}) = 0 * d
    BY SumOfNone
  <2> QED BY <2>1, FS_EmptySet
<1>2. ASSUME NEW s \in SUBSET U, NEW x \in U \ s, s \in F
      PROVE  s \union {x} \in F
  <2>1. IsFiniteSet(s)
    BY FS_Subset
  <2>2. Total(f, s \union {x}) = f[x] + Total(f, s)
    BY <2>1, SumWith
  <2> DEFINE c == Cardinality(s)
  <2>3. Cardinality(s \union {x}) = c + 1 /\ c \in Nat
    BY <2>1, FS_AddElement, FS_CardinalityType
  <2> HIDE DEF c
  <2>4. d + c * d = (c + 1) * d
    BY <2>3
  <2>5. Total(f, s) = c * d
    BY <1>2 DEF c
  <2>6. Total(f, s \union {x}) = Cardinality(s \union {x}) * d
    BY <2>2, <2>3, <2>4, <2>5
  <2> QED BY <2>6
<1> HIDE DEF F
<1>3. U \in F
  BY <1>1, <1>2, SetInduction
<1> QED BY <1>3 DEF F

LEMMA DownInduction ==
    ASSUME NEW m \in Nat, NEW S, m \in S, \A k \in 1 .. (m - 1) : k + 1 \in S => k \in S
    PROVE  1 .. m \subseteq S
<1> DEFINE T == {n \in Nat : n < m => m - n \in S}
<1>1. 0 \in T
  OBVIOUS
<1>2. ASSUME NEW n \in Nat, n \in T PROVE n + 1 \in T
  <2> SUFFICES ASSUME n + 1 < m PROVE m - (n + 1) \in S
    OBVIOUS
  <2> DEFINE p == m - (n + 1)
  <2>1. p \in 1 .. (m - 1) /\ p + 1 = m - n /\ n < m
    OBVIOUS
  <2>2. p + 1 \in S
    BY <1>2, <2>1
  <2> HIDE DEF p
  <2>3. p \in S
    BY <2>1, <2>2
  <2> QED BY <2>3 DEF p
<1> HIDE DEF T
<1>3. Nat \subseteq T
  BY <1>1, <1>2, Induction
<1> SUFFICES ASSUME NEW k \in 1 .. m PROVE k \in S
  OBVIOUS
<1>4. m - k \in T /\ m - k < m /\ m - (m - k) = k
  BY <1>3
<1> QED BY <1>4 DEF T

LEMMA PowersAdd ==
    ASSUME NEW a \in Nat, NEW b \in Nat
    PROVE  2^(a + b) = 2^a * 2^b
<1> DEFINE S == {n \in Nat : 2^(a + n) = 2^a * 2^n}
<1>1. 0 \in S
  <2>1. a + 0 = a /\ 2^a \in Nat
    BY PowersDouble
  <2> DEFINE p == 2^a
             one == 2^0
  <2>2. p \in Nat /\ one = 1
    BY <2>1, NoPower
  <2> HIDE DEF p, one
  <2>3. p = p * one
    BY <2>2
  <2> QED BY <2>1, <2>3 DEF p, one
<1>2. ASSUME NEW n \in Nat, n \in S PROVE n + 1 \in S
  <2> DEFINE p == 2^a
             q == 2^n
             r == 2^(a + n)
             q1 == 2^(n + 1)
             r1 == 2^((a + n) + 1)
  <2>1. p \in Nat /\ q \in Nat /\ q1 = 2 * q
    BY PowersDouble
  <2>2. r1 = 2 * r
    <3>1. a + n \in Nat
      OBVIOUS
    <3> QED BY <3>1, PowersDouble
  <2>3. r = p * q
    BY <1>2
  <2>4. 2^(a + (n + 1)) = r1
    <3>1. a + (n + 1) = (a + n) + 1
      OBVIOUS
    <3> QED BY <3>1
  <2> HIDE DEF p, q, r, q1, r1
  <2>5. r1 = p * q1
    BY <2>1, <2>2, <2>3
  <2> QED BY <2>4, <2>5 DEF p, q1
<1> HIDE DEF S
<1>3. b \in S
  BY <1>1, <1>2, Induction
<1> QED BY <1>3 DEF S

(* One less than a product is all but the last of the multiples.           *)
LEMMA QuotientOf ==
    ASSUME NEW d \in Nat \ {0}, NEW q \in Int, NEW r \in Nat, r < d
    PROVE  (q * d + r) \div d = q /\ (q * d + r) % d = r
OBVIOUS

LEMMA SmallQuotient ==
    ASSUME NEW d \in Nat \ {0}, NEW r \in Nat, r < d
    PROVE  r \div d = 0 /\ r % d = r
OBVIOUS

LEMMA PositiveProduct ==
    ASSUME NEW a \in Nat \ {0}, NEW b \in Nat \ {0}
    PROVE  a * b \in Nat \ {0}
OBVIOUS

(* One less than a product has the greatest remainder.                     *)
LEMMA OnesAbove ==
    ASSUME NEW a \in Nat \ {0}, NEW p \in Nat \ {0}, NEW r \in Nat \ {0},
           NEW n, n = (r * p) * a
    PROVE  ((n - 1) \div a) % p = p - 1
<1> DEFINE m == r * p
           q == m - 1
           s == r - 1
<1>1. m \in Nat \ {0} /\ q \in Nat /\ s \in Nat
  BY PositiveProduct
<1>2. n - 1 = q * a + (a - 1) /\ a - 1 \in Nat /\ a - 1 < a
  <2> HIDE DEF m
  <2>1. n = m * a
    BY DEF m
  <2> QED BY <1>1, <2>1
<1>3. (n - 1) \div a = q
  <2> HIDE DEF q
  <2> QED BY <1>1, <1>2, QuotientOf
<1>4. q = s * p + (p - 1) /\ p - 1 \in Nat /\ p - 1 < p
  OBVIOUS
<1>5. q % p = p - 1
  <2> HIDE DEF q, s
  <2> QED BY <1>1, <1>4, QuotientOf
<1> HIDE DEF q
<1> QED BY <1>3, <1>5

(* A number of n digits in base 2^bits.                                    *)
AreDigits(f, d, n, bits) ==
    \A k \in 0 .. (n - 1) : d[k] \in 0 .. (2^bits - 1) /\ f[k] = d[k] * 2^(bits * k)

AddUp(f, d, n, bits) ==
    \A m \in 0 .. n :
       /\ Total(f, 0 .. (m - 1)) \in 0 .. (2^(bits * m) - 1)
       /\ m # 0 => Total(f, 0 .. (m - 1)) =
                      d[m - 1] * 2^(bits * (m - 1)) + Total(f, 0 .. ((m - 1) - 1))

LEMMA DigitsAddUp ==
    ASSUME NEW bits \in Nat \ {0}, NEW n \in Nat, NEW f, NEW d, AreDigits(f, d, n, bits)
    PROVE  AddUp(f, d, n, bits)
<1> DEFINE S(m) == 0 .. (m - 1)
           p == 2^bits
           pw(k) == 2^(bits * k)
           Below(m) == Total(f, S(m)) \in 0 .. (pw(m) - 1)
           Step1(m) == m # 0 => Total(f, S(m)) = d[m - 1] * pw(m - 1) + Total(f, S(m - 1))
           N == {m \in Nat : m <= n => Below(m) /\ Step1(m)}
<1>0. bits \in Nat \ {0} /\ p \in Nat \ {0} /\ \A k \in Nat : bits * k \in Nat /\ pw(k) \in Nat \ {0}
  BY PowersDouble
<1>1. ASSUME NEW k \in S(n) PROVE d[k] \in 0 .. (p - 1) /\ f[k] = d[k] * pw(k) /\ f[k] \in Int
  <2>1. k \in Nat /\ pw(k) \in Nat
    BY <1>0
  <2>2. d[k] \in 0 .. (p - 1) /\ f[k] = d[k] * pw(k)
    BY DEF AreDigits
  <2> HIDE DEF pw, p
  <2>3. d[k] \in Int
    BY <1>0, <2>2
  <2> DEFINE a == d[k]
             b == pw(k)
  <2>4. a \in Int /\ b \in Int
    BY <2>1, <2>3
  <2> HIDE DEF a, b
  <2>5. a * b \in Int
    BY <2>4
  <2> QED BY <2>2, <2>5 DEF a, b
<1>2. 0 \in N
  <2>1. S(0) = {} /\ bits * 0 = 0
    BY <1>0
  <2>2. Total(f, S(0)) = 0
    BY <2>1, SumOfNone
  <2>3. pw(0) = 1
    BY <2>1, NoPower
  <2> HIDE DEF S, pw
  <2>4. Below(0)
    BY <2>2, <2>3
  <2> QED BY <2>4
<1>3. ASSUME NEW m \in Nat, m \in N PROVE m + 1 \in N
  <2> SUFFICES ASSUME m + 1 <= n PROVE Below(m + 1) /\ Step1(m + 1)
    OBVIOUS
  <2>1. /\ S(m + 1) = S(m) \union {m} /\ m \notin S(m) /\ S(m) \union {m} \subseteq S(n)
        /\ m \in S(n) /\ IsFiniteSet(S(m)) /\ m <= n /\ (m + 1) - 1 = m
    <3>1. /\ S(m + 1) = S(m) \union {m} /\ m \notin S(m)
          /\ m \in S(n) /\ m <= n /\ (m + 1) - 1 = m
      OBVIOUS
    <3>2. S(m) \union {m} \subseteq S(n)
      OBVIOUS
    <3>3. IsFiniteSet(S(m))
      BY FS_Interval
    <3> QED BY <3>1, <3>2, <3>3
  <2>2. Below(m)
    BY <1>3, <2>1
  <2>3. pw(m + 1) = pw(m) * p
    <3>1. bits * m \in Nat /\ bits * (m + 1) = bits * m + bits
      BY <1>0
    <3> QED BY <1>0, <3>1, PowersAdd
  <2> HIDE DEF S, pw, p
  <2>4. \A x \in S(m) \union {m} : f[x] \in Int
    BY <1>1, <2>1
  <2>5. Total(f, S(m + 1)) = f[m] + Total(f, S(m))
    BY <2>1, <2>4, SumWith
  <2>6. f[m] = d[m] * pw(m) /\ d[m] \in 0 .. (p - 1)
    BY <1>1, <2>1
  <2> DEFINE x == d[m]
             q == pw(m)
             t == Total(f, S(m))
  <2>7. x \in 0 .. (p - 1) /\ q \in Nat \ {0} /\ t \in 0 .. (q - 1) /\ p \in Nat \ {0}
    BY <1>0, <2>2, <2>6
  <2>8. Total(f, S(m + 1)) = x * q + t /\ pw(m + 1) = q * p
    BY <2>3, <2>5, <2>6
  <2> HIDE DEF x, q, t
  <2>9. x * q + t \in 0 .. (q * p - 1)
    <3>1. x * q \in Nat /\ x * q <= (p - 1) * q
      <4>1. x \in Nat /\ x <= p - 1
        BY <2>7
      <4>2. PICK z \in Nat : p - 1 = x + z
        <5>1. p - 1 = x + (p - 1 - x) /\ p - 1 - x \in Nat
          BY <2>7, <4>1
        <5> QED BY <5>1
      <4>3. (x + z) * q = x * q + z * q /\ x * q \in Nat /\ z * q \in Nat
        BY <2>7, <4>1, <4>2
      <4> QED BY <4>2, <4>3
    <3>2. (p - 1) * q = q * p - q
      BY <2>7
    <3>3. q * p \in Nat
      BY <2>7
    <3> QED BY <2>7, <3>1, <3>2, <3>3
  <2>10. Below(m + 1)
    BY <2>8, <2>9
  <2>11. Step1(m + 1)
    BY <2>1, <2>8 DEF x, q, t
  <2> QED BY <2>10, <2>11
<1> HIDE DEF N
<1>4. Nat \subseteq N
  BY <1>2, <1>3, Induction
<1>5. \A m \in 0 .. n : m \in Nat /\ m <= n
  OBVIOUS
<1> QED BY <1>4, <1>5 DEF N, AddUp
(* Division, as the sum it undoes.                                         *)
LEMMA DivisionOf ==
    ASSUME NEW v \in Int, NEW d \in Nat \ {0}
    PROVE  \E q \in Int, r \in 0 .. (d - 1) :
               q = v \div d /\ r = v % d /\ v = q * d + r /\ (v \in Nat => q \in Nat)
<1>1. v \div d \in Int /\ v % d \in 0 .. (d - 1) /\ v = (v \div d) * d + (v % d)
      /\ (v \in Nat => v \div d \in Nat)
  OBVIOUS
<1> QED BY <1>1

(* The part of a number below a digit, and the next digit.                 *)
LEMMA NextDigit ==
    ASSUME NEW v \in Nat, NEW q \in Nat \ {0}, NEW p \in Nat \ {0}
    PROVE  /\ (v \div q) % p \in 0 .. (p - 1)
           /\ v % (q * p) = ((v \div q) % p) * q + (v % q)
<1> DEFINE h == v \div q
           r == v % q
<1>1. h \in Nat /\ r \in 0 .. (q - 1) /\ v = h * q + r
  OBVIOUS
<1> HIDE DEF h, r
<1> DEFINE a == h \div p
           x == h % p
<1>2. a \in Nat /\ x \in 0 .. (p - 1) /\ h = a * p + x
  BY <1>1
<1> HIDE DEF a, x
<1>3. h * q = a * (q * p) + x * q
  <2>1. h * q = (a * p) * q + x * q
    BY <1>2
  <2>2. (a * p) * q = a * (q * p)
    BY <1>2
  <2> QED BY <2>1, <2>2
<1> DEFINE s == x * q + r
<1>4. s \in Nat /\ s < q * p
  <2>1. PICK z \in Nat : p = x + 1 + z
    <3>1. p = x + 1 + (p - x - 1) /\ p - x - 1 \in Nat
      BY <1>2
    <3> QED BY <3>1
  <2>2. q * p = x * q + q + z * q /\ z * q \in Nat /\ x * q \in Nat
    BY <1>2, <2>1
  <2> QED BY <1>1, <2>2
<1>5. q * p \in Nat \ {0} /\ a * (q * p) \in Nat
  BY <1>2, PositiveProduct
<1>6. v = a * (q * p) + s
  <2>1. x * q \in Nat
    BY <1>2
  <2> QED BY <1>1, <1>3, <1>5, <2>1 DEF s
<1> HIDE DEF s
<1>7. v % (q * p) = s
  <2> DEFINE d == q * p
  <2>1. d \in Nat \ {0} /\ v = a * d + s /\ s < d
    BY <1>4, <1>5, <1>6
  <2> HIDE DEF d
  <2>2. v % d = s
    BY <1>2, <1>4, <2>1, QuotientOf
  <2> QED BY <2>2 DEF d
<1>8. x = (v \div q) % p /\ r = v % q
  BY DEF x, h, r
<1>9. s = x * q + r
  BY DEF s
<1> QED BY <1>2, <1>7, <1>8, <1>9

(* The digits of a number make it up, as far as they go.                   *)
LEMMA DigitsOf ==
    ASSUME NEW bits \in Nat \ {0}, NEW v \in Nat, NEW n \in Nat, NEW f,
           \A k \in 0 .. (n - 1) :
               f[k] = ((v \div 2^(bits * k)) % 2^bits) * 2^(bits * k)
    PROVE  Total(f, 0 .. (n - 1)) = v % 2^(bits * n)
<1> DEFINE d == [k \in 0 .. (n - 1) |-> (v \div 2^(bits * k)) % 2^bits]
           T(m) == Total(f, 0 .. (m - 1))
           pw(m) == 2^(bits * m)
           N == {m \in Nat : m <= n => T(m) = v % pw(m)}
<1>1. \A k \in Nat : bits * k \in Nat /\ pw(k) \in Nat \ {0} /\ pw(k + 1) = pw(k) * 2^bits
  <2> TAKE k \in Nat
  <2>1. bits * k \in Nat /\ bits * (k + 1) = bits * k + bits
    OBVIOUS
  <2> QED BY <2>1, PowersDouble, PowersAdd
<1>2. 2^bits \in Nat \ {0}
  BY PowersDouble
<1>3. AddUp(f, d, n, bits)
  <2>1. ASSUME NEW k \in 0 .. (n - 1)
        PROVE  d[k] \in 0 .. (2^bits - 1) /\ f[k] = d[k] * 2^(bits * k)
    <3>1. d[k] = (v \div pw(k)) % 2^bits
      OBVIOUS
    <3>2. k \in Nat /\ pw(k) \in Nat \ {0}
      BY <1>1
    <3>3. (v \div pw(k)) % 2^bits \in 0 .. (2^bits - 1)
      BY <1>2, <3>2, NextDigit
    <3> QED BY <3>1, <3>3
  <2> HIDE DEF d
  <2>2. AreDigits(f, d, n, bits)
    BY <2>1 DEF AreDigits
  <2> QED BY <2>2, DigitsAddUp
<1>4. 0 \in N
  <2>1. T(0) = 0
    <3>1. 0 .. (0 - 1) = {}
      OBVIOUS
    <3> QED BY <3>1, SumOfNone
  <2>2. pw(0) = 1
    <3>1. bits * 0 = 0
      OBVIOUS
    <3> QED BY <3>1, NoPower
  <2>3. v % 1 = 0
    OBVIOUS
  <2> QED BY <2>1, <2>2, <2>3
<1>5. ASSUME NEW m \in Nat, m \in N PROVE m + 1 \in N
  <2> SUFFICES ASSUME m + 1 <= n PROVE T(m + 1) = v % pw(m + 1)
    OBVIOUS
  <2>1. m + 1 \in 0 .. n /\ m + 1 # 0 /\ (m + 1) - 1 = m /\ m \in 0 .. (n - 1) /\ m <= n
    OBVIOUS
  <2>2. T(m + 1) = d[m] * pw(m) + T(m)
    <3>1. T(m + 1) = d[(m + 1) - 1] * pw((m + 1) - 1) + T((m + 1) - 1)
      BY <1>3, <2>1 DEF AddUp
    <3> QED BY <2>1, <3>1
  <2>3. d[m] = (v \div pw(m)) % 2^bits
    BY <2>1
  <2>4. T(m) = v % pw(m)
    BY <1>5, <2>1
  <2> HIDE DEF d, T, pw
  <2>5. v % (pw(m) * 2^bits) = ((v \div pw(m)) % 2^bits) * pw(m) + (v % pw(m))
    BY <1>1, <1>2, NextDigit
  <2> QED BY <1>1, <2>2, <2>3, <2>4, <2>5
<1> HIDE DEF N
<1>6. Nat \subseteq N
  BY <1>4, <1>5, Induction
<1>7. n \in N
  BY <1>6
<1> QED BY <1>7 DEF N
==============================================================================
