----------------------- MODULE PrioritySelectionProofs -----------------------
(***************************************************************************)
(* Proofs about the table of levels: the order of its slots serves every   *)
(* level and the named priorities in their order, for every configuration  *)
(* and not only those that TLC builds.                                     *)
(***************************************************************************)
EXTENDS PrioritySelection, DataLemmas, FiniteSetTheorems, TLAPS

(* Every level has a weight, and a lower level's is not larger: so it is   *)
(* by the linear rule, and by the exponential one until powers wrap.       *)
WeightsOrdered ==
    \A l \in Level : /\ Weight(l) \in Nat \ {0}
                     /\ \A k \in Level : k < l => Weight(k) >= Weight(l)

(* The places of the table that name a level.                              *)
Places(s, l) == {i \in 1 .. Len(s) : s[i] = l}

LEMMA PlacesFinite ==
    ASSUME NEW s \in Seq(Nat), NEW l
    PROVE  IsFiniteSet(Places(s, l)) /\ Cardinality(Places(s, l)) \in Nat
<1>1. IsFiniteSet(1 .. Len(s))
  BY FS_Interval
<1>2. Places(s, l) \subseteq 1 .. Len(s)
  BY DEF Places
<1> QED BY <1>1, <1>2, FS_Subset, FS_CardinalityType

(* One level more adds its weight to its places, and no other place.       *)
LEMMA LevelAppended ==
    ASSUME NEW s \in Seq(Nat), NEW w \in Nat, NEW k \in Nat, \A i \in 1 .. Len(s) : s[i] < k
    PROVE  LET t == s \o [i \in 1 .. w |-> k]
           IN  /\ t \in Seq(Nat) /\ \A i \in 1 .. Len(t) : t[i] < k + 1
               /\ \A l \in Nat : l < k => Places(t, l) = Places(s, l)
               /\ Cardinality(Places(t, k)) = w
<1> DEFINE more == [i \in 1 .. w |-> k]
           t    == s \o more
           n    == Len(s)
<1>1. more \in Seq(Nat) /\ Len(more) = w /\ n \in Nat
  OBVIOUS
<1> HIDE DEF more
<1>2. /\ t \in Seq(Nat) /\ Len(t) = n + w
      /\ \A i \in 1 .. n : t[i] = s[i]
      /\ \A i \in (n + 1) .. (n + w) : t[i] = more[i - n]
  BY <1>1
<1>3. \A i \in (n + 1) .. (n + w) : t[i] = k
  <2>1. \A i \in (n + 1) .. (n + w) : i - n \in 1 .. w
    BY <1>1
  <2> QED BY <1>2, <2>1 DEF more
<1>4. \A i \in 1 .. (n + w) : i \in 1 .. n \/ i \in (n + 1) .. (n + w)
  BY <1>1
<1> HIDE DEF t, n
<1>5. \A i \in 1 .. n : s[i] \in Nat /\ s[i] < k /\ i \in 1 .. (n + w)
  BY <1>1 DEF n
<1>6. \A i \in 1 .. Len(t) : t[i] < k + 1
  <2> SUFFICES ASSUME NEW i \in 1 .. (n + w)
               PROVE  t[i] < k + 1
    BY <1>2
  <2>1. CASE i \in 1 .. n
    BY <1>2, <1>5, <2>1
  <2>2. CASE i \in (n + 1) .. (n + w)
    BY <1>3, <2>2
  <2> QED BY <1>4, <2>1, <2>2
<1>7. ASSUME NEW l \in Nat, l < k
      PROVE  Places(t, l) = Places(s, l)
  <2>1. \A i \in 1 .. n : i \in 1 .. (n + w) /\ t[i] = s[i]
    BY <1>2, <1>5
  <2>2. \A i \in 1 .. (n + w) : t[i] = l => i \in 1 .. n
    BY <1>3, <1>4, <1>7
  <2> QED BY <1>2, <2>1, <2>2 DEF Places, n
<1>8. Places(t, k) = (n + 1) .. (n + w)
  <2>1. \A i \in (n + 1) .. (n + w) : i \in 1 .. (n + w)
    BY <1>1
  <2>2. \A i \in 1 .. n : t[i] # k
    BY <1>2, <1>5
  <2> QED BY <1>1, <1>2, <1>3, <1>4, <2>1, <2>2 DEF Places
<1>9. Cardinality((n + 1) .. (n + w)) = w
  BY <1>1, FS_Interval
<1> QED BY <1>2, <1>6, <1>7, <1>8, <1>9 DEF t, more, n

(* While the table is built, the levels behind next have their slots, and  *)
(* the others none.                                                        *)
TableInv ==
    /\ configLevels \in 0 .. 255 /\ boost \in 0 .. 255 /\ exponential \in BOOLEAN
    /\ next \in 0 .. Levels
    /\ TopOnly => selection = <<0>> /\ next = Levels
    /\ WeightsOrdered /\ ~TopOnly =>
           /\ selection \in Seq(Nat)
           /\ \A i \in 1 .. Len(selection) : selection[i] < next
           /\ \A l \in Level : l < next => Cardinality(Places(selection, l)) = Weight(l)

LEMMA TableStarts == Init => TableInv
<1> SUFFICES ASSUME Init PROVE TableInv
  OBVIOUS
<1>1. configLevels \in 0 .. 255 /\ boost \in 0 .. 255 /\ exponential \in BOOLEAN
  BY ConfigAssumption DEF Init
<1>2. Levels \in Nat
  BY <1>1 DEF Levels
<1>3. CASE TopOnly
  BY <1>1, <1>2, <1>3 DEF Init, TableInv
<1>4. CASE ~TopOnly
  <2>1. selection = <<>> /\ next = 0
    BY <1>4 DEF Init
  <2>2. <<>> \in Seq(Nat) /\ Len(<<>>) = 0
    OBVIOUS
  <2>3. \A l \in Level : ~(l < 0)
    BY <1>2 DEF Level
  <2> QED BY <1>1, <1>2, <1>4, <2>1, <2>2, <2>3 DEF TableInv
<1> QED BY <1>3, <1>4

(* The input of the table stays, and so do the weights.                    *)
LEMMA WeightsStay ==
    ASSUME UNCHANGED <<configLevels, boost, exponential>>
    PROVE  /\ Levels' = Levels /\ Level' = Level /\ TopOnly' = TopOnly
           /\ \A l \in Level : Weight(l)' = Weight(l)
           /\ WeightsOrdered' = WeightsOrdered
<1>1. Levels' = Levels /\ Level' = Level
  BY DEF Levels, Level
<1>2. TopOnly' = TopOnly
  BY <1>1 DEF TopOnly
<1>3. \A l : Weight(l)' = Weight(l)
  BY <1>1 DEF Weight, PowI
<1>4. WeightsOrdered' = WeightsOrdered
  BY <1>1, <1>3 DEF WeightsOrdered
<1> QED BY <1>1, <1>2, <1>3, <1>4

LEMMA TableGrows == TableInv /\ [Next]_vars => TableInv'
<1> SUFFICES ASSUME TableInv, [Next]_vars
             PROVE  TableInv'
  OBVIOUS
<1>1. CASE UNCHANGED vars
  <2>1. UNCHANGED <<configLevels, boost, exponential, selection, next>>
    BY <1>1 DEF vars
  <2> QED BY <2>1, WeightsStay DEF TableInv
<1>2. CASE AppendLevel
  <2>1. /\ next < Levels /\ next' = next + 1
        /\ selection' = selection \o [i \in 1 .. Weight(next) |-> next]
        /\ UNCHANGED <<configLevels, boost, exponential>>
    BY <1>2 DEF AppendLevel
  <2>2. /\ Levels' = Levels /\ Level' = Level /\ TopOnly' = TopOnly
        /\ \A l \in Level : Weight(l)' = Weight(l)
        /\ WeightsOrdered' = WeightsOrdered
    BY <2>1, WeightsStay
  <2>3. Levels \in Nat /\ Level = 0 .. (Levels - 1)
    BY DEF Levels, Level, TableInv
  <2>4. next \in Level /\ next' \in 0 .. Levels
    BY <2>1, <2>3 DEF TableInv
  <2>5. /\ configLevels' \in 0 .. 255 /\ boost' \in 0 .. 255 /\ exponential' \in BOOLEAN
    BY <2>1 DEF TableInv
  <2>6. ~TopOnly
    <3> SUFFICES ASSUME TopOnly PROVE FALSE
      OBVIOUS
    <3> QED BY <2>1, <2>3 DEF TableInv
  <2>7. CASE ~WeightsOrdered
    BY <2>2, <2>4, <2>5, <2>6, <2>7 DEF TableInv
  <2>8. CASE WeightsOrdered
    <3>1. /\ selection \in Seq(Nat)
          /\ \A i \in 1 .. Len(selection) : selection[i] < next
          /\ \A l \in Level : l < next => Cardinality(Places(selection, l)) = Weight(l)
      BY <2>6, <2>8 DEF TableInv
    <3>2. Weight(next) \in Nat /\ next \in Nat
      BY <2>3, <2>4, <2>8 DEF WeightsOrdered
    <3>3. /\ selection' \in Seq(Nat)
          /\ \A i \in 1 .. Len(selection') : selection'[i] < next + 1
          /\ \A l \in Nat : l < next => Places(selection', l) = Places(selection, l)
          /\ Cardinality(Places(selection', next)) = Weight(next)
      BY <2>1, <3>1, <3>2, LevelAppended
    <3>4. ASSUME NEW l \in Level, l < next + 1
          PROVE  Cardinality(Places(selection', l)) = Weight(l)
      <4>1. l \in Nat /\ (l < next \/ l = next)
        BY <2>3, <3>2, <3>4
      <4> QED BY <3>1, <3>3, <4>1
    <3> QED BY <2>1, <2>2, <2>4, <2>5, <2>6, <2>8, <3>3, <3>4 DEF TableInv
  <2> QED BY <2>7, <2>8
<1> QED BY <1>1, <1>2 DEF Next, Done

LEMMA TableInvariance == Spec => []TableInv
<1> QED BY TableStarts, TableGrows, PTL DEF Spec

(* The named priorities are spread over the levels in their order.         *)
LEMMA PrioritiesInOrder ==
    ASSUME configLevels \in 0 .. 255, Levels \notin {1, 2, 3}
    PROVE  /\ \A i \in 1 .. 5 : QueueOf(TaskPriority[i]) \in Level
           /\ \A i \in 1 .. 4 : QueueOf(TaskPriority[i]) <= QueueOf(TaskPriority[i + 1])
<1> DEFINE c == configLevels
<1>1. c \in 4 .. 255 /\ Levels = c /\ Level = 0 .. (c - 1)
  BY DEF Levels, Level
<1>2. /\ QueueOf("Critical") = 0 /\ QueueOf("Normal") = c \div 3
      /\ QueueOf("Low") = (2 * c) \div 3
      /\ 0 <= c \div 3 /\ c \div 3 <= (2 * c) \div 3 /\ (2 * c) \div 3 <= c - 2
      /\ c \div 3 \in Int /\ (2 * c) \div 3 \in Int
  <2>1. /\ 0 <= c \div 3 /\ c \div 3 <= (2 * c) \div 3 /\ (2 * c) \div 3 <= c - 2
        /\ c \div 3 \in Int /\ (2 * c) \div 3 \in Int
    BY <1>1
  <2>2. /\ MapPriorityToLevel("Critical") = 0 /\ MapPriorityToLevel("Normal") = c \div 3
        /\ MapPriorityToLevel("Low") = (2 * c) \div 3
    BY DEF MapPriorityToLevel
  <2>3. 0 < c /\ c \div 3 < c /\ (2 * c) \div 3 < c
    BY <1>1, <2>1
  <2> QED BY <1>1, <2>1, <2>2, <2>3 DEF QueueOf
<1>3. QueueOf("Background") = c - 2 /\ QueueOf("System") = c - 1
  <2>1. (c + 254) % 256 = c - 2 /\ (c + 255) % 256 = c - 1
    BY <1>1
  <2>2. c - 2 < c /\ c - 1 < c
    BY <1>1
  <2> QED BY <1>1, <2>1, <2>2 DEF QueueOf, MapPriorityToLevel
<1>4. /\ TaskPriority[1] = "Critical" /\ TaskPriority[2] = "Normal" /\ TaskPriority[3] = "Low"
      /\ TaskPriority[4] = "Background" /\ TaskPriority[5] = "System"
  BY DEF TaskPriority
<1> DEFINE q(i) == QueueOf(TaskPriority[i])
<1>5. /\ q(1) = 0 /\ q(2) = c \div 3 /\ q(3) = (2 * c) \div 3 /\ q(4) = c - 2 /\ q(5) = c - 1
  BY <1>2, <1>3, <1>4
<1> HIDE DEF q
<1>6. \A i \in 1 .. 5 : i = 1 \/ i = 2 \/ i = 3 \/ i = 4 \/ i = 5
  OBVIOUS
<1>7. \A i \in 1 .. 5 : q(i) \in Level
  BY <1>1, <1>2, <1>5, <1>6
<1>8. q(1) <= q(2) /\ q(2) <= q(3) /\ q(3) <= q(4) /\ q(4) <= q(5)
  BY <1>1, <1>2, <1>5
<1>9. \A i \in 1 .. 4 : q(i) <= q(i + 1)
  <2> SUFFICES ASSUME NEW i \in 1 .. 4 PROVE q(i) <= q(i + 1)
    OBVIOUS
  <2>1. i = 1 \/ i = 2 \/ i = 3 \/ i = 4
    OBVIOUS
  <2>2. 1 + 1 = 2 /\ 2 + 1 = 3 /\ 3 + 1 = 4 /\ 4 + 1 = 5
    OBVIOUS
  <2> QED BY <1>8, <2>1, <2>2
<1> QED BY <1>7, <1>9 DEF q

(* Whenever the weights are in order, the finished table serves every      *)
(* level, and a higher priority at least as often, for all configurations. *)
THEOREM OrderedTableServes == Spec => [](WeightsOrdered => EveryLevelServed)
<1>1. TableInv => (WeightsOrdered => EveryLevelServed)
  <2> SUFFICES ASSUME TableInv, WeightsOrdered, Built
               PROVE  /\ selection # <<>>
                      /\ ~TopOnly => \A l \in Level : Slots(l) > 0
                      /\ ~TopOnly /\ Levels \notin {2, 3} => HigherServedMore
    BY DEF EveryLevelServed
  <2>1. Levels \in Nat \ {0} /\ Level = 0 .. (Levels - 1) /\ next = Levels
    BY DEF TableInv, Levels, Level, Built
  <2>2. CASE TopOnly
    BY <2>2 DEF TableInv
  <2>3. CASE ~TopOnly
    <3>1. selection \in Seq(Nat)
      BY <2>3 DEF TableInv
    <3>2. ASSUME NEW l \in Level
          PROVE  Slots(l) = Weight(l)
      <4>1. l < next
        BY <2>1
      <4>2. Cardinality(Places(selection, l)) = Weight(l)
        BY <2>3, <4>1 DEF TableInv
      <4> QED BY <4>2 DEF Slots, Places
    <3>3. \A l \in Level : Weight(l) \in Nat \ {0}
      BY DEF WeightsOrdered
    <3>4. \A l \in Level : Slots(l) > 0
      BY <3>2, <3>3
    <3>5. selection # <<>>
      <4> SUFFICES ASSUME selection = <<>> PROVE FALSE
        OBVIOUS
      <4>1. 0 \in Level
        BY <2>1
      <4>2. {i \in 1 .. Len(selection) : selection[i] = 0} = {}
        <5>1. 1 .. Len(selection) = {}
          OBVIOUS
        <5> QED BY <5>1
      <4>3. Slots(0) = 0
        BY <4>2, FS_EmptySet DEF Slots
      <4> QED BY <3>4, <4>1, <4>3
    <3>6. ASSUME Levels \notin {2, 3}
          PROVE  HigherServedMore
      <4>1. configLevels \in 0 .. 255 /\ Levels \notin {1, 2, 3}
        BY <2>3, <3>6 DEF TableInv, TopOnly
      <4>2. /\ \A i \in 1 .. 5 : QueueOf(TaskPriority[i]) \in Level
            /\ \A i \in 1 .. 4 : QueueOf(TaskPriority[i]) <= QueueOf(TaskPriority[i + 1])
        BY <4>1, PrioritiesInOrder
      <4>3. ASSUME NEW k \in Level, NEW l \in Level, k <= l
            PROVE  Slots(k) >= Slots(l)
        <5>1. Weight(k) >= Weight(l)
          <6>1. CASE k = l
            BY <3>3, <6>1
          <6>2. CASE k < l
            BY <6>2 DEF WeightsOrdered
          <6> QED BY <2>1, <4>3, <6>1, <6>2
        <5> QED BY <3>2, <5>1
      <4>4. \A i \in 1 .. 4 : i \in 1 .. 5 /\ i + 1 \in 1 .. 5
        OBVIOUS
      <4> QED BY <4>2, <4>3, <4>4 DEF HigherServedMore
    <3> QED BY <3>4, <3>5, <3>6
  <2> QED BY <2>2, <2>3
<1> QED BY <1>1, TableInvariance, PTL

(* By the linear rule they always are.                                     *)
THEOREM LinearTableServes == Spec => [](~exponential => EveryLevelServed)
<1>1. TableInv /\ ~exponential => WeightsOrdered
  <2> SUFFICES ASSUME TableInv, ~exponential
               PROVE  WeightsOrdered
    OBVIOUS
  <2>1. Levels \in Nat \ {0} /\ Level = 0 .. (Levels - 1)
    BY DEF TableInv, Levels, Level
  <2>2. \A l : Weight(l) = Levels - l
    BY DEF Weight
  <2> QED BY <2>1, <2>2 DEF WeightsOrdered
<1> QED BY <1>1, TableInvariance, OrderedTableServes, PTL

-----------------------------------------------------------------------------
(* The powers of a number, not wrapped.                                    *)
Power(base) ==
    LET power[n \in Nat] == IF n = 0 THEN 1 ELSE power[n - 1] * base
    IN  power

LEMMA PowerRule ==
    ASSUME NEW base \in Nat
    PROVE  \A n \in Nat : Power(base)[n] = IF n = 0 THEN 1 ELSE Power(base)[n - 1] * base
<1> DEFINE Good(g) == g = [n \in Nat |-> IF n = 0 THEN 1 ELSE g[n - 1] * base]
<1>1. PICK g \in [Nat -> Nat] : g[0] = 1 /\ \A n \in Nat : g[n + 1] = g[n] * base
  <2> DEFINE step == [p \in Nat \X Nat |-> p[2] * base]
  <2>1. step \in [Nat \X Nat -> Nat]
    OBVIOUS
  <2>2. \A n, m \in Nat : step[<<n, m>>] = m * base
    OBVIOUS
  <2> DEFINE first == 1
  <2>3. first \in Nat
    OBVIOUS
  <2> HIDE DEF step, first
  <2>4. Iterates(Nat, first, step) # {}
    BY <2>1, <2>3, Iteration
  <2>5. PICK g \in [Nat -> Nat] : g[0] = first /\ \A n \in Nat : g[n + 1] = step[<<n, g[n]>>]
    BY <2>4 DEF Iterates
  <2>6. \A n \in Nat : g[n] \in Nat
    OBVIOUS
  <2> QED BY <2>2, <2>5, <2>6 DEF first
<1>2. Good(g)
  <2>1. ASSUME NEW n \in Nat
        PROVE  g[n] = IF n = 0 THEN 1 ELSE g[n - 1] * base
    <3>1. CASE n = 0
      BY <1>1, <3>1
    <3>2. CASE n # 0
      <4>1. n - 1 \in Nat /\ (n - 1) + 1 = n
        BY <3>2
      <4> QED BY <1>1, <3>2, <4>1
    <3> QED BY <3>1, <3>2
  <2>2. g = [n \in Nat |-> g[n]]
    OBVIOUS
  <2> QED BY <2>1, <2>2
<1>3. Good(CHOOSE h : Good(h))
  <2> HIDE DEF Good
  <2> QED BY <1>2
<1>4. Power(base) = CHOOSE h : Good(h)
  BY DEF Power
<1> HIDE DEF Good
<1>5. Good(Power(base))
  BY <1>3, <1>4
<1> QED BY <1>5 DEF Good

LEMMA PowIRule ==
    ASSUME NEW base \in Nat
    PROVE  \A n \in Nat : PowI(base)[n] = IF n = 0 THEN 1 % WeightRange
                                          ELSE (PowI(base)[n - 1] * base) % WeightRange
<1> DEFINE Good(g) == g = [n \in Nat |-> IF n = 0 THEN 1 % WeightRange
                                         ELSE (g[n - 1] * base) % WeightRange]
<1>1. PICK g \in [Nat -> Nat] :
          g[0] = 1 % WeightRange /\ \A n \in Nat : g[n + 1] = (g[n] * base) % WeightRange
  <2> DEFINE step == [p \in Nat \X Nat |-> (p[2] * base) % WeightRange]
  <2>1. step \in [Nat \X Nat -> Nat]
    <3>1. \A p \in Nat \X Nat : p[2] * base \in Nat
      OBVIOUS
    <3>2. \A n \in Nat : n % WeightRange \in Nat
      BY ConfigAssumption
    <3> QED BY <3>1, <3>2
  <2>2. \A n, m \in Nat : step[<<n, m>>] = (m * base) % WeightRange
    OBVIOUS
  <2> DEFINE first == 1 % WeightRange
  <2>3. first \in Nat
    BY ConfigAssumption
  <2> HIDE DEF step, first
  <2>4. Iterates(Nat, first, step) # {}
    BY <2>1, <2>3, Iteration
  <2>5. PICK g \in [Nat -> Nat] : g[0] = first /\ \A n \in Nat : g[n + 1] = step[<<n, g[n]>>]
    BY <2>4 DEF Iterates
  <2>6. \A n \in Nat : g[n] \in Nat
    OBVIOUS
  <2> QED BY <2>2, <2>5, <2>6 DEF first
<1>2. Good(g)
  <2>1. ASSUME NEW n \in Nat
        PROVE  g[n] = IF n = 0 THEN 1 % WeightRange ELSE (g[n - 1] * base) % WeightRange
    <3>1. CASE n = 0
      BY <1>1, <3>1
    <3>2. CASE n # 0
      <4>1. n - 1 \in Nat /\ (n - 1) + 1 = n
        BY <3>2
      <4> QED BY <1>1, <3>2, <4>1
    <3> QED BY <3>1, <3>2
  <2>2. g = [n \in Nat |-> g[n]]
    OBVIOUS
  <2> QED BY <2>1, <2>2
<1>3. Good(CHOOSE h : Good(h))
  <2> HIDE DEF Good
  <2> QED BY <1>2
<1>4. PowI(base) = CHOOSE h : Good(h)
  BY DEF PowI
<1> HIDE DEF Good
<1>5. Good(PowI(base))
  BY <1>3, <1>4
<1> QED BY <1>5 DEF Good

(* Powers of a number that is not 0 grow.                                  *)
LEMMA PowersGrow ==
    ASSUME NEW base \in Nat \ {0}
    PROVE  /\ \A n \in Nat : Power(base)[n] \in Nat \ {0}
           /\ \A n, k \in Nat : Power(base)[n] <= Power(base)[n + k]
<1>1. \A n \in Nat : Power(base)[n] = IF n = 0 THEN 1 ELSE Power(base)[n - 1] * base
  BY PowerRule
<1>2. Power(base)[0] = 1 /\ \A n \in Nat : Power(base)[n + 1] = Power(base)[n] * base
  <2>1. \A n \in Nat : n + 1 \in Nat /\ n + 1 # 0 /\ (n + 1) - 1 = n
    OBVIOUS
  <2> QED BY <1>1, <2>1
<1>3. ASSUME NEW n \in Nat \ {0}
      PROVE  n * base \in Nat \ {0} /\ n <= n * base
  OBVIOUS
<1>4. \A n \in Nat : Power(base)[n] \in Nat \ {0}
  <2> DEFINE S == {n \in Nat : Power(base)[n] \in Nat \ {0}}
  <2>1. 0 \in S /\ \A n \in Nat : n \in S => n + 1 \in S
    BY <1>2, <1>3
  <2> HIDE DEF S
  <2>2. Nat \subseteq S
    BY <2>1, Induction
  <2> QED BY <2>2 DEF S
<1>5. ASSUME NEW n \in Nat
      PROVE  \A k \in Nat : Power(base)[n] <= Power(base)[n + k]
  <2> DEFINE S == {k \in Nat : Power(base)[n] <= Power(base)[n + k]}
  <2>1. 0 \in S
    BY <1>4
  <2>2. ASSUME NEW k \in Nat, k \in S PROVE k + 1 \in S
    <3>1. n + k \in Nat /\ n + (k + 1) = (n + k) + 1
      OBVIOUS
    <3>2. Power(base)[n + k] <= Power(base)[(n + k) + 1]
      BY <1>2, <1>3, <1>4, <3>1
    <3>3. /\ Power(base)[n] \in Nat /\ Power(base)[n + k] \in Nat
          /\ Power(base)[(n + k) + 1] \in Nat
      BY <1>4, <3>1
    <3> QED BY <2>2, <3>1, <3>2, <3>3
  <2> HIDE DEF S
  <2>3. Nat \subseteq S
    BY <2>1, <2>2, Induction
  <2> QED BY <2>3 DEF S
<1> QED BY <1>4, <1>5

(* As long as powers are in the range of a weight, PowI() does not wrap.   *)
LEMMA PowIFits ==
    ASSUME NEW base \in Nat \ {0}, NEW n \in Nat, Power(base)[n] < WeightRange
    PROVE  \A m \in 0 .. n : PowI(base)[m] = Power(base)[m]
<1> DEFINE S == {m \in Nat : m <= n => PowI(base)[m] = Power(base)[m]}
<1>1. WeightRange \in Nat \ {0}
  BY ConfigAssumption
<1>2. \A k \in Nat : k < WeightRange => k % WeightRange = k
  BY <1>1
<1>3. \A m \in Nat : m <= n => Power(base)[m] \in Nat /\ Power(base)[m] < WeightRange
  <2> SUFFICES ASSUME NEW m \in Nat, m <= n
               PROVE  Power(base)[m] \in Nat /\ Power(base)[m] < WeightRange
    OBVIOUS
  <2>1. n - m \in Nat /\ m + (n - m) = n
    OBVIOUS
  <2>2. Power(base)[m] <= Power(base)[n]
    BY <2>1, PowersGrow
  <2>3. Power(base)[m] \in Nat /\ Power(base)[n] \in Nat
    BY PowersGrow
  <2> QED BY <1>1, <2>2, <2>3
<1>4. /\ Power(base)[0] = 1 /\ \A m \in Nat : Power(base)[m + 1] = Power(base)[m] * base
      /\ PowI(base)[0] = 1 % WeightRange
      /\ \A m \in Nat : PowI(base)[m + 1] = (PowI(base)[m] * base) % WeightRange
  <2>1. \A m \in Nat : m + 1 \in Nat /\ m + 1 # 0 /\ (m + 1) - 1 = m
    OBVIOUS
  <2>2. \A m \in Nat : Power(base)[m] = IF m = 0 THEN 1 ELSE Power(base)[m - 1] * base
    BY PowerRule
  <2>3. \A m \in Nat : PowI(base)[m] = IF m = 0 THEN 1 % WeightRange
                                          ELSE (PowI(base)[m - 1] * base) % WeightRange
    BY PowIRule
  <2>4. Power(base)[0] = 1 /\ PowI(base)[0] = 1 % WeightRange
    BY <2>2, <2>3
  <2> QED BY <2>1, <2>2, <2>3, <2>4
<1>5. 0 \in S
  <2>1. 1 < WeightRange
    BY <1>3, <1>4
  <2>2. 1 % WeightRange = 1
    BY <1>2, <2>1
  <2> QED BY <1>4, <2>2
<1>6. ASSUME NEW m \in Nat, m \in S
      PROVE  m + 1 \in S
  <2> SUFFICES ASSUME m + 1 <= n PROVE PowI(base)[m + 1] = Power(base)[m + 1]
    OBVIOUS
  <2>1. PowI(base)[m] = Power(base)[m]
    BY <1>6
  <2>2. Power(base)[m + 1] \in Nat /\ Power(base)[m + 1] < WeightRange
    BY <1>3
  <2> QED BY <1>2, <1>4, <2>1, <2>2
<1> HIDE DEF S
<1>7. Nat \subseteq S
  BY <1>5, <1>6, Induction
<1> QED BY <1>7 DEF S

(* The largest weight of the exponential rule does not wrap.               *)
WeightsFit == exponential => Power(boost)[Levels - 1] < WeightRange

(* By either rule the finished table serves every level, and a higher      *)
(* priority at least as often, unless a weight is too large for uint32_t.  *)
THEOREM FittingTableServes == Spec => [](WeightsFit => EveryLevelServed)
<1>1. TableInv /\ WeightsFit /\ ~TopOnly => WeightsOrdered
  <2> SUFFICES ASSUME TableInv, WeightsFit, ~TopOnly
               PROVE  WeightsOrdered
    OBVIOUS
  <2>1. Levels \in Nat \ {0} /\ Level = 0 .. (Levels - 1)
    BY DEF TableInv, Levels, Level
  <2>2. CASE ~exponential
    <3>1. \A l : Weight(l) = Levels - l
      BY <2>2 DEF Weight
    <3> QED BY <2>1, <3>1 DEF WeightsOrdered
  <2>3. CASE exponential
    <3>1. boost \in Nat \ {0}
      BY DEF TableInv, TopOnly
    <3>2. ASSUME NEW l \in Level
          PROVE  /\ Levels - 1 - l \in Nat
                 /\ Weight(l) = Power(boost)[Levels - 1 - l]
      <4>1. Levels - 1 \in Nat /\ Levels - 1 - l \in 0 .. (Levels - 1)
        BY <2>1
      <4>2. PowI(boost)[Levels - 1 - l] = Power(boost)[Levels - 1 - l]
        BY <2>3, <3>1, <4>1, PowIFits DEF WeightsFit
      <4> QED BY <2>3, <4>1, <4>2 DEF Weight
    <3>3. \A l \in Level : Weight(l) \in Nat \ {0}
      BY <3>1, <3>2, PowersGrow
    <3>4. ASSUME NEW l \in Level, NEW k \in Level, k < l
          PROVE  Weight(k) >= Weight(l)
      <4>1. l - k \in Nat /\ (Levels - 1 - l) + (l - k) = Levels - 1 - k
        BY <2>1, <3>4
      <4>2. Power(boost)[Levels - 1 - l] <= Power(boost)[Levels - 1 - k]
        BY <3>1, <3>2, <4>1, PowersGrow
      <4> QED BY <3>2, <3>3, <4>2
    <3> QED BY <3>3, <3>4 DEF WeightsOrdered
  <2> QED BY <2>2, <2>3
<1>2. TableInv /\ TopOnly => EveryLevelServed
  <2> SUFFICES ASSUME TableInv, TopOnly PROVE selection # <<>>
    BY DEF EveryLevelServed
  <2> QED BY DEF TableInv
<1>3. TableInv /\ WeightsFit => WeightsOrdered \/ EveryLevelServed
  BY <1>1, <1>2
<1> QED BY <1>3, TableInvariance, OrderedTableServes, PTL
==============================================================================
