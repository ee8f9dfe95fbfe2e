----------------------------- MODULE LinkerProofs -----------------------------
(***************************************************************************)
(* Proofs about the loading of modules, for any number of modules that     *)
(* import one another in any way.                                          *)
(***************************************************************************)
EXTENDS Linker, DataLemmas, TLAPS

-----------------------------------------------------------------------------
(* The inductive invariant, in parts.                                      *)

Call == [mod : Module, pass : {"link", "postlink"}, index : Nat \ {0}]

Values == {"unset", "bound", "null", "bogus"}

PoolsTyped ==
    /\ program \in [Module -> Source]
    /\ DOMAIN bound = Module
    /\ \A m \in Module : bound[m] \in [1 .. Len(program[m].pool) -> Values]

OnStack(m) == \E k \in 1 .. Len(stack) : stack[k].mod = m

(* A module is on the stack at most once, and each reaches those its call  *)
(* led to: only the innermost is anywhere but in the linking stage.        *)
StackAgrees ==
    /\ stack \in Seq(Call)
    /\ \A j, k \in 1 .. Len(stack) : stack[j].mod = stack[k].mod => j = k
    /\ \A k \in 1 .. Len(stack) : stack[k].mod \in table
    /\ \A k \in 1 .. Len(stack) : k > 1 => stage[stack[k].mod] = Preverified
    /\ stack # <<>> => stage[top.mod] < Ready
    /\ stack # <<>> /\ stage[top.mod] < Preverified => top.pass = "link" /\ top.index = 1
    /\ \A j, k \in 1 .. Len(stack) : j <= k => Reaches(stack[k].mod, stack[j].mod)

(* A module that was left is ready, or it was given up early on.           *)
TableAgrees ==
    \A m \in Module :
        /\ m \notin table => stage[m] = None
        /\ m \in table /\ ~OnStack(m) => stage[m] = Ready \/ stage[m] < Preverified

(* Entry i of m is bound as far as it can be.                              *)
Done(m, i) ==
    LET e == program[m].pool[i]
    IN  /\ e.found => bound[m][i] = "bound"
        /\ e.mod = m \/ stage[e.mod] = Ready

Tag(m, i) == program[m].pool[i].tag

(* Call c has been over entry i.                                           *)
Passed(c, i) ==
    \/ c.pass = "link" /\ i < c.index /\ Tag(c.mod, i) \in {"CLASS_INFO", "FUNCTION_INFO"}
    \/ c.pass = "postlink" /\ Tag(c.mod, i) \in {"CLASS_INFO", "FUNCTION_INFO"}
    \/ c.pass = "postlink" /\ i < c.index /\ Tag(c.mod, i) \in {"FIELD_INFO", "METHOD_INFO"}

PassesAgree ==
    /\ \A k \in 1 .. Len(stack) : \A i \in 1 .. Len(program[stack[k].mod].pool) :
           Passed(stack[k], i) => Done(stack[k].mod, i)
    /\ \A m \in Module : stage[m] >= Linked =>
           \A i \in 1 .. Len(program[m].pool) : Tag(m, i) # "MODULE_INFO" => Done(m, i)

IInv == /\ TypeOK /\ PoolsTyped /\ StackAgrees /\ TableAgrees /\ PassesAgree /\ StallMeansCycle

-----------------------------------------------------------------------------
(* What the definitions say.                                               *)

LEMMA ReachesSelf == ASSUME NEW m PROVE Reaches(m, m)
BY DEF Reaches

LEMMA ReachesOn ==
    ASSUME NEW m, NEW n, NEW p \in Module, Reaches(m, n), Imports(n, p)
    PROVE  Reaches(m, p)
BY DEF Reaches

LEMMA ReachesSame ==
    ASSUME UNCHANGED program PROVE \A m, n : Reaches(m, n)' <=> Reaches(m, n)
BY DEF Reaches, Imports

LEMMA PassedSame ==
    ASSUME UNCHANGED program PROVE \A c, i : Passed(c, i)' <=> Passed(c, i)
BY DEF Passed, Tag

LEMMA StageFacts ==
    /\ None = 0 /\ FileLoaded = 1 /\ Parsed = 2 /\ Preverified = 3
    /\ Linked = 4 /\ Verified = 5 /\ Ready = 6
BY DEF None, FileLoaded, Parsed, Preverified, Linked, Verified, Ready

LEMMA StackFacts ==
    ASSUME StackAgrees, NEW k \in 1 .. Len(stack)
    PROVE  stack[k] \in Call /\ stack[k].mod \in Module
<1>1. stack[k] \in Call
  BY DEF StackAgrees
<1> QED BY <1>1 DEF Call

LEMMA PoolFacts ==
    ASSUME PoolsTyped, NEW m \in Module
    PROVE  /\ program[m].pool \in Seq(Entry) /\ Len(program[m].pool) \in Nat
           /\ \A i \in 1 .. Len(program[m].pool) :
                  program[m].pool[i] \in Entry /\ program[m].pool[i].mod \in Module
<1>1. program[m] \in Source
  BY DEF PoolsTyped
<1>2. program[m].pool \in Seq(Entry)
  BY <1>1 DEF Source
<1>3. \A i \in 1 .. Len(program[m].pool) : program[m].pool[i] \in Entry
  BY <1>2
<1> QED BY <1>2, <1>3 DEF Entry

(* The innermost call.                                                     *)
LEMMA TopFacts ==
    ASSUME IInv, pc = "loading"
    PROVE  /\ stack \in Seq(Call) /\ stack # <<>> /\ top = stack[1] /\ top \in Call
           /\ Len(stack) \in Nat \ {0} /\ 1 \in 1 .. Len(stack)
           /\ top.mod \in Module /\ top.mod \in table
           /\ stage[top.mod] \in 0 .. 5
<1>1. stack \in Seq(Call) /\ stack # <<>>
  BY DEF IInv, StackAgrees, TypeOK
<1>2. /\ top = stack[1] /\ top \in Call /\ Len(stack) \in Nat \ {0}
      /\ 1 \in 1 .. Len(stack)
  BY <1>1 DEF top
<1>3. top.mod \in Module
  BY <1>2 DEF Call
<1>4. stage[top.mod] \in 0 .. 6 /\ stage[top.mod] < 6
  BY <1>1, <1>3, StageFacts DEF IInv, TypeOK, StackAgrees
<1> QED BY <1>1, <1>2, <1>3, <1>4 DEF IInv, StackAgrees

LEMMA EntryFacts ==
    ASSUME IInv, AtEntry(top.pass)
    PROVE  /\ top.index \in 1 .. Len(pool) /\ entry \in Entry /\ entry.mod \in Module
           /\ Imports(top.mod, entry.mod)
           /\ pc = "loading" /\ stage[top.mod] = Preverified
<1>1. /\ pc = "loading" /\ stage[top.mod] = Preverified /\ top.index <= Len(pool)
  BY DEF AtEntry, Linking
<1>2. top \in Call /\ top.mod \in Module
  BY <1>1, TopFacts
<1>3. top.index \in Nat \ {0}
  BY <1>2 DEF Call
<1>4. pool \in Seq(Entry)
  BY <1>2 DEF pool, IInv, PoolsTyped, Source
<1>5. top.index \in 1 .. Len(pool)
  BY <1>1, <1>3, <1>4
<1>6. entry \in Entry
  BY <1>4, <1>5 DEF entry
<1>7. entry.mod \in Module
  BY <1>6 DEF Entry
<1>8. Imports(top.mod, entry.mod)
  BY <1>5 DEF Imports, entry, pool
<1> QED BY <1>1, <1>5, <1>6, <1>7, <1>8

LEMMA ThisPass ==
    ASSUME OfThisPass
    PROVE  /\ AtEntry(top.pass)
           /\ top.pass = "link" => entry.tag \in {"MODULE_INFO", "CLASS_INFO", "FUNCTION_INFO"}
           /\ top.pass = "postlink" => entry.tag \in {"FIELD_INFO", "METHOD_INFO"}
BY DEF OfThisPass, AtEntry

(* Nothing already known about an entry is lost when a module advances.    *)
LEMMA DoneStays ==
    ASSUME NEW m, NEW i, Done(m, i), bound'[m][i] = bound[m][i], UNCHANGED program,
           stage[program[m].pool[i].mod] = Ready => stage'[program[m].pool[i].mod] = Ready
    PROVE  Done(m, i)'
BY DEF Done

LEMMA Initially == Init => IInv
<1> SUFFICES ASSUME Init PROVE IInv
  OBVIOUS
<1>1. program \in [Module -> Source]
  BY ProgramAssumption DEF Init
<1>2. TypeOK
  <2>1. \A m \in Module : bound[m] \in [1 .. Len(program[m].pool) -> {"unset", "bound", "null", "bogus"}]
    BY DEF Init
  <2>2. stage \in [Module -> 0 .. 6]
    BY StageFacts DEF Init
  <2>3. \A i \in DOMAIN stack : FALSE
    BY DEF Init
  <2> QED BY <2>1, <2>2, <2>3, StageFacts DEF Init, TypeOK
<1>3. PoolsTyped
  BY <1>1 DEF Init, PoolsTyped, Values
<1>4. StackAgrees
  BY DEF Init, StackAgrees
<1>5. TableAgrees
  BY DEF Init, TableAgrees
<1>6. PassesAgree
  BY StageFacts DEF Init, PassesAgree
<1> QED BY <1>2, <1>3, <1>4, <1>5, <1>6 DEF IInv, Init, StallMeansCycle

-----------------------------------------------------------------------------
(* The kinds of steps.                                                     *)

(* The innermost module goes to the next stage; it is linked only when it  *)
(* has been over every entry.                                              *)
LEMMA AdvancePreserves ==
    ASSUME IInv, pc = "loading", UNCHANGED <<program, pc, table, bound, stack, null>>,
           NEW s \in 1 .. 5, SetStage(s), stage[top.mod] = s - 1,
           s = 4 => \A i \in 1 .. Len(pool) : Tag(top.mod, i) # "MODULE_INFO" => Done(top.mod, i)
    PROVE  IInv'
<1> DEFINE m == top.mod
<1>1. /\ m \in Module /\ m = stack[1].mod /\ 1 \in 1 .. Len(stack) /\ top' = top
      /\ m \in table /\ OnStack(m)
  BY TopFacts DEF top, OnStack
<1>2. m = top.mod
  OBVIOUS
<1> HIDE DEF m
<1>3. /\ stage \in [Module -> 0 .. 6] /\ stage[m] = s - 1
      /\ stage' = [stage EXCEPT ![m] = s]
  BY <1>2, StageFacts DEF IInv, TypeOK, SetStage
<1>4. \A x \in Module : stage'[x] = IF x = m THEN s ELSE stage[x]
  BY <1>1, <1>3
<1>5. /\ \A x \in Module : stage[x] = 6 => stage'[x] = 6
      /\ stage' \in [Module -> 0 .. 6]
  BY <1>1, <1>3, <1>4
<1>6. TypeOK'
  BY <1>5, StageFacts DEF IInv, TypeOK
<1>7. PoolsTyped'
  BY DEF IInv, PoolsTyped
<1>8. StackAgrees'
  <2>1. \A k \in 1 .. Len(stack) : k > 1 => stack[k].mod # m /\ stack[k].mod \in Module
    BY <1>1, StackFacts DEF IInv, StackAgrees
  <2>2. \A k \in 1 .. Len(stack) : k > 1 => stage'[stack[k].mod] = Preverified
    BY <1>4, <2>1 DEF IInv, StackAgrees
  <2>3. stage'[m] < Ready /\ (stage'[m] < Preverified => stage[m] < Preverified)
    BY <1>1, <1>3, <1>4, StageFacts
  <2> QED BY <1>1, <1>2, <2>2, <2>3 DEF IInv, StackAgrees, Reaches, Imports
<1>9. TableAgrees'
  BY <1>1, <1>4 DEF IInv, TableAgrees, OnStack
<1>10. PassesAgree'
  <2>1. ASSUME NEW x \in Module, NEW i \in 1 .. Len(program[x].pool), Done(x, i) PROVE Done(x, i)'
    <3>1. /\ program[x].pool[i].mod \in Module
          /\ UNCHANGED <<program, bound>>
      BY PoolFacts DEF IInv
    <3> QED BY <1>5, <2>1, <3>1, DoneStays, StageFacts
  <2>2. \A k \in 1 .. Len(stack) : stack[k].mod \in Module
    BY StackFacts DEF IInv
  <2>3. \A k \in 1 .. Len(stack) : \A i \in 1 .. Len(program[stack[k].mod].pool) :
            Passed(stack[k], i) => Done(stack[k].mod, i)'
    BY <2>1, <2>2 DEF IInv, PassesAgree
  <2>4. ASSUME NEW x \in Module, stage'[x] >= 4, NEW i \in 1 .. Len(program[x].pool),
               Tag(x, i) # "MODULE_INFO"
        PROVE  Done(x, i)'
    <3>1. CASE x = m /\ s = 4
      BY <1>2, <2>1, <2>4, <3>1 DEF pool
    <3>2. CASE ~(x = m /\ s = 4)
      <4>1. stage[x] >= 4
        BY <1>3, <1>4, <2>4, <3>2
      <4> QED BY <2>1, <2>4, <4>1, StageFacts DEF IInv, PassesAgree
    <3> QED BY <3>1, <3>2
  <2> QED BY <2>3, <2>4, StageFacts DEF PassesAgree, Passed, Tag
<1> QED BY <1>6, <1>7, <1>8, <1>9, <1>10 DEF IInv, StallMeansCycle

(* A call returns: its module is ready, or is given up before it linked.   *)
LEMMA ReturnPreserves ==
    ASSUME IInv, pc = "loading", UNCHANGED <<program, table, bound>>,
           NEW isNull \in BOOLEAN, ReturnWith(isNull),
           \/ stage[top.mod] < Preverified /\ UNCHANGED stage
           \/ stage[top.mod] = Verified /\ SetStage(Ready)
    PROVE  IInv'
<1> DEFINE m   == top.mod
           new == Tail(stack)
<1>1. /\ stack \in Seq(Call) /\ stack # <<>> /\ top = stack[1]
      /\ m \in Module /\ m = stack[1].mod /\ 1 \in 1 .. Len(stack)
  BY TopFacts
<1>2. /\ new \in Seq(Call) /\ Len(stack) \in Nat \ {0} /\ Len(new) = Len(stack) - 1
      /\ \A k \in 1 .. Len(new) : new[k] = stack[k + 1]
      /\ new # <<>> => Head(new) = stack[2] /\ Len(stack) > 1
  BY <1>1, TailEntries
<1>3. /\ stack' = new /\ null' \in BOOLEAN
      /\ pc' \in {"idle", "loading"} /\ (pc' = "idle" <=> new = <<>>)
  BY DEF ReturnWith
<1>4. m = top.mod
  OBVIOUS
<1> HIDE DEF m, new
<1>5. /\ stage \in [Module -> 0 .. 6] /\ stage' \in [Module -> 0 .. 6]
      /\ \A x \in Module : x # m => stage'[x] = stage[x]
      /\ \A x \in Module : stage[x] = 6 => stage'[x] = 6
      /\ stage'[m] = 6 \/ (stage'[m] = stage[m] /\ stage[m] < 3)
  <2>1. stage \in [Module -> 0 .. 6]
    BY StageFacts DEF IInv, TypeOK
  <2>2. stage' = [stage EXCEPT ![m] = 6] \/ (stage' = stage /\ stage[m] < 3)
    BY <1>4, StageFacts DEF SetStage
  <2> QED BY <1>1, <2>1, <2>2
<1>6. \A k \in 1 .. Len(new) : k + 1 \in 1 .. Len(stack) /\ k + 1 > 1 /\ new[k] = stack[k + 1]
  BY <1>2
<1>7. \A k \in 1 .. Len(new) : new[k].mod # m /\ new[k].mod \in Module
  BY <1>1, <1>6, StackFacts DEF IInv, StackAgrees
<1>8. TypeOK'
  <2>1. \A k \in DOMAIN new : new[k] \in [mod : Module, pass : {"link", "postlink"}, index : Nat]
    <3>1. \A k \in DOMAIN new : new[k] \in Call
      BY <1>2
    <3> QED BY <3>1 DEF Call
  <2>2. table' \subseteq Module /\ \A x \in Module :
            bound'[x] \in [1 .. Len(program'[x].pool) -> {"unset", "bound", "null", "bogus"}]
    BY DEF IInv, TypeOK
  <2> QED BY <1>3, <1>5, <2>1, <2>2, StageFacts DEF TypeOK
<1>9. PoolsTyped'
  BY DEF IInv, PoolsTyped
<1>10. StackAgrees'
  <2>1. \A k \in 1 .. Len(new) : new[k].mod \in table /\ stage'[new[k].mod] = Preverified
    BY <1>5, <1>6, <1>7 DEF IInv, StackAgrees
  <2>2. \A j, k \in 1 .. Len(new) : new[j].mod = new[k].mod => j = k
    <3>1. \A j, k \in 1 .. Len(new) : new[j].mod = new[k].mod => j + 1 = k + 1
      BY <1>6 DEF IInv, StackAgrees
    <3> QED BY <1>2, <3>1
  <2>3. \A j, k \in 1 .. Len(new) : j <= k => Reaches(new[k].mod, new[j].mod)
    <3>1. \A j, k \in 1 .. Len(new) : j <= k => j + 1 <= k + 1
      BY <1>2
    <3> QED BY <1>6, <3>1 DEF IInv, StackAgrees
  <2>4. new # <<>> => Head(new) = new[1] /\ 1 \in 1 .. Len(new)
    BY <1>2
  <2>5. new # <<>> => stage'[Head(new).mod] = 3
    BY <2>1, <2>4, StageFacts
  <2>6. new # <<>> => top' = Head(new)
    BY <1>3 DEF top
  <2>7. UNCHANGED <<program, table>>
    OBVIOUS
  <2> QED BY <1>2, <1>3, <2>1, <2>2, <2>3, <2>5, <2>6, <2>7, ReachesSame, StageFacts DEF StackAgrees
<1>11. TableAgrees'
  <2>1. ASSUME NEW x \in Module, OnStack(x), x # m PROVE OnStack(x)'
    <3>1. PICK k \in 1 .. Len(stack) : stack[k].mod = x
      BY <2>1 DEF OnStack
    <3>2. k # 1
      BY <1>1, <2>1, <3>1
    <3>3. k - 1 \in 1 .. Len(new) /\ (k - 1) + 1 = k
      BY <1>2, <3>2
    <3>4. new[k - 1] = stack[k]
      BY <1>6, <3>3
    <3> QED BY <1>3, <3>1, <3>3, <3>4 DEF OnStack
  <2>2. m \in table
    BY TopFacts DEF m
  <2> QED BY <1>1, <1>5, <2>1, <2>2, StageFacts DEF IInv, TableAgrees
<1>12. PassesAgree'
  <2>1. ASSUME NEW x \in Module, NEW i \in 1 .. Len(program[x].pool), Done(x, i) PROVE Done(x, i)'
    <3>1. program[x].pool[i].mod \in Module /\ UNCHANGED <<program, bound>>
      BY PoolFacts DEF IInv
    <3> QED BY <1>5, <2>1, <3>1, DoneStays, StageFacts
  <2>2. ASSUME NEW k \in 1 .. Len(stack'), NEW i \in 1 .. Len(program[stack'[k].mod].pool),
               Passed(stack'[k], i)
        PROVE  Done(stack[k + 1].mod, i) /\ stack'[k].mod = stack[k + 1].mod
    BY <1>3, <1>6, <2>2 DEF IInv, PassesAgree
  <2>3. \A k \in 1 .. Len(stack') : stack'[k].mod \in Module
    BY <1>3, <1>7
  <2>4. \A k \in 1 .. Len(stack') : \A i \in 1 .. Len(program'[stack'[k].mod].pool) :
            Passed(stack[k], i)' => Done(stack[k].mod, i)'
    BY <2>1, <2>2, <2>3, PassedSame
  <2>5. \A x \in Module : stage'[x] >= 4 => stage[x] >= 4
    BY <1>4, <1>5, StageFacts DEF SetStage
  <2>6. \A x \in Module : stage'[x] >= 4 =>
            \A i \in 1 .. Len(program[x].pool) : Tag(x, i) # "MODULE_INFO" => Done(x, i)'
    BY <2>1, <2>5, StageFacts DEF IInv, PassesAgree
  <2> QED BY <2>4, <2>6, StageFacts DEF PassesAgree, Tag
<1>13. StallMeansCycle'
  BY <1>3 DEF StallMeansCycle
<1> QED BY <1>8, <1>9, <1>10, <1>11, <1>12, <1>13 DEF IInv

(* A module that is not in the table is loaded: by main() or a plugin, or  *)
(* from within the linking of a module that imports it.                    *)
LEMMA LoadModulePreserves ==
    ASSUME IInv, NEW m \in Module, LoadModule(m),
           stack # <<>> => stage[top.mod] = Preverified /\ Imports(top.mod, m)
    PROVE  IInv'
<1> DEFINE call == [mod |-> m, pass |-> "link", index |-> 1]
           new  == <<call>> \o stack
<1>1. /\ m \notin table /\ table' = table \cup {m} /\ stack' = new /\ pc' = "loading"
      /\ null' = FALSE /\ UNCHANGED <<program, stage, bound>>
  BY DEF LoadModule
<1>2. call \in Call /\ call.mod = m /\ call.pass = "link" /\ call.index = 1
  BY DEF Call
<1>3. stack \in Seq(Call) /\ Len(stack) \in Nat
  BY DEF IInv, StackAgrees
<1> HIDE DEF call
<1>4. /\ new \in Seq(Call) /\ new # <<>> /\ Len(new) = Len(stack) + 1 /\ Head(new) = call
      /\ new[1] = call
      /\ \A k \in 2 .. (Len(stack) + 1) : new[k] = stack[k - 1]
  BY <1>2, <1>3, PushFrontEntries
<1> HIDE DEF new
<1>5. \A k \in 1 .. Len(new) : k # 1 => k - 1 \in 1 .. Len(stack) /\ new[k] = stack[k - 1]
  BY <1>3, <1>4
<1>6. \A k \in 1 .. Len(new) : new[k].mod \in table'
  BY <1>1, <1>2, <1>4, <1>5 DEF IInv, StackAgrees
<1>7. \A k \in 1 .. Len(new) : k # 1 => new[k].mod # m
  BY <1>1, <1>5 DEF IInv, StackAgrees
<1>8. stage[m] = None /\ None = 0 /\ Preverified = 3 /\ Ready = 6
  BY <1>1, StageFacts DEF IInv, TableAgrees
<1>9. TypeOK'
  <2>1. \A k \in DOMAIN new : new[k] \in [mod : Module, pass : {"link", "postlink"}, index : Nat]
    <3>1. \A k \in DOMAIN new : new[k] \in Call
      BY <1>4
    <3> QED BY <3>1 DEF Call
  <2> QED BY <1>1, <1>4, <2>1 DEF IInv, TypeOK
<1>10. PoolsTyped'
  BY <1>1 DEF IInv, PoolsTyped
<1>11. StackAgrees'
  <2>1. \A j, k \in 1 .. Len(new) : new[j].mod = new[k].mod => j = k
    <3>1. ASSUME NEW j \in 1 .. Len(new), NEW k \in 1 .. Len(new), j # 1, k # 1,
                 new[j].mod = new[k].mod
          PROVE  j = k
      <4>1. /\ j - 1 \in 1 .. Len(stack) /\ k - 1 \in 1 .. Len(stack)
            /\ stack[j - 1].mod = stack[k - 1].mod
        BY <1>5, <3>1
      <4>2. j - 1 = k - 1
        BY <4>1 DEF IInv, StackAgrees
      <4> QED BY <4>2
    <3> QED BY <1>2, <1>4, <1>7, <3>1
  <2>2. \A k \in 1 .. Len(new) : k > 1 => stage[new[k].mod] = Preverified
    <3> SUFFICES ASSUME NEW k \in 1 .. Len(new), k > 1 PROVE stage[new[k].mod] = Preverified
      OBVIOUS
    <3>1. k - 1 \in 1 .. Len(stack) /\ new[k] = stack[k - 1] /\ stack # <<>>
      BY <1>3, <1>5
    <3>2. CASE k - 1 = 1
      BY <1>3, <3>1, <3>2 DEF top
    <3>3. CASE k - 1 # 1
      BY <3>1, <3>3 DEF IInv, StackAgrees
    <3> QED BY <3>2, <3>3
  <2>3. ASSUME NEW j \in 1 .. Len(new), NEW k \in 1 .. Len(new), j <= k
        PROVE  Reaches(new[k].mod, new[j].mod)
    <3>1. CASE j # 1
      <4>1. k # 1 /\ j - 1 <= k - 1
        BY <2>3, <3>1
      <4> QED BY <1>5, <3>1, <4>1 DEF IInv, StackAgrees
    <3>2. CASE j = 1 /\ k = 1
      BY <3>2, ReachesSelf
    <3>3. CASE j = 1 /\ k # 1
      <4>1. k - 1 \in 1 .. Len(stack) /\ new[k] = stack[k - 1] /\ stack # <<>>
        BY <1>3, <1>5, <3>3
      <4>2. 1 \in 1 .. Len(stack) /\ 1 <= k - 1 /\ top = stack[1]
        BY <1>3, <4>1 DEF top
      <4>3. Reaches(stack[k - 1].mod, stack[1].mod) /\ Imports(top.mod, m)
        BY <4>1, <4>2 DEF IInv, StackAgrees
      <4>4. Reaches(stack[k - 1].mod, m)
        BY <4>2, <4>3, ReachesOn
      <4> QED BY <1>2, <1>4, <3>3, <4>1, <4>4
    <3> QED BY <3>1, <3>2, <3>3
  <2>4. \A x, y : Reaches(x, y)' <=> Reaches(x, y)
    BY <1>1, ReachesSame
  <2>5. top' = call
    BY <1>1, <1>4 DEF top
  <2> QED BY <1>1, <1>2, <1>4, <1>6, <1>8, <2>1, <2>2, <2>3, <2>4, <2>5 DEF StackAgrees
<1>12. TableAgrees'
  <2>1. ASSUME NEW x \in Module, OnStack(x) PROVE OnStack(x)'
    <3>1. PICK k \in 1 .. Len(stack) : stack[k].mod = x
      BY <2>1 DEF OnStack
    <3>2. k + 1 \in 1 .. Len(new) /\ k + 1 # 1 /\ (k + 1) - 1 = k
      BY <1>3, <1>4
    <3>3. new[k + 1] = stack[k]
      BY <1>5, <3>2
    <3> QED BY <1>1, <3>1, <3>2, <3>3 DEF OnStack
  <2>2. OnStack(m)'
    <3>1. 1 \in 1 .. Len(new) /\ new[1].mod = m
      BY <1>2, <1>3, <1>4
    <3> QED BY <1>1, <3>1 DEF OnStack
  <2> QED BY <1>1, <2>1, <2>2 DEF IInv, TableAgrees
<1>13. PassesAgree'
  <2>1. ASSUME NEW k \in 1 .. Len(new), NEW i \in 1 .. Len(program[new[k].mod].pool),
               Passed(new[k], i)
        PROVE  Done(new[k].mod, i)
    <3>1. CASE k = 1
      <4>1. i \in Nat \ {0}
        <5>1. Len(program[m].pool) \in Nat
          BY PoolFacts DEF IInv
        <5> QED BY <1>2, <1>4, <3>1, <5>1
      <4> QED BY <1>2, <1>4, <2>1, <3>1, <4>1 DEF Passed
    <3>2. CASE k # 1
      BY <1>5, <2>1, <3>2 DEF IInv, PassesAgree
    <3> QED BY <3>1, <3>2
  <2>2. \A c, i : Passed(c, i)' <=> Passed(c, i)
    BY <1>1, PassedSame
  <2>3. \A x, i : Done(x, i)' <=> Done(x, i)
    BY <1>1 DEF Done
  <2> QED BY <1>1, <2>1, <2>2, <2>3 DEF IInv, PassesAgree, Tag
<1>14. StallMeansCycle'
  BY <1>1 DEF StallMeansCycle
<1> QED BY <1>9, <1>10, <1>11, <1>12, <1>13, <1>14 DEF IInv

(* A change of the innermost call that stays in its module.                *)
LEMMA FrontPreserves ==
    ASSUME IInv, pc = "loading", NEW t \in Module, t = top.mod,
           NEW c \in Call, c.mod = t, stack' = [stack EXCEPT ![1] = c],
           stage[t] = Preverified, UNCHANGED <<program, pc, table, stage>>,
           null' \in BOOLEAN, PoolsTyped',
           \A m \in Module \ {t} : bound'[m] = bound[m],
           \A i \in 1 .. Len(program[t].pool) : Passed(c, i) => Done(t, i)'
    PROVE  IInv'
<1> DEFINE new == [stack EXCEPT ![1] = c]
<1>1. /\ stack \in Seq(Call) /\ stack # <<>> /\ top = stack[1]
      /\ 1 \in 1 .. Len(stack) /\ Len(stack) \in Nat
  BY TopFacts
<1>2. /\ new \in Seq(Call) /\ Len(new) = Len(stack) /\ new # <<>> /\ Head(new) = c
      /\ \A k \in 1 .. Len(stack) : new[k] = IF k = 1 THEN c ELSE stack[k]
  BY <1>1, FrontEntry
<1>3. stack' = new
  OBVIOUS
<1> HIDE DEF new
<1>4. /\ \A k \in 1 .. Len(stack) : new[k].mod = stack[k].mod
      /\ top' = c
  BY <1>1, <1>2, <1>3 DEF top
<1>5. TypeOK'
  <2>1. \A k \in DOMAIN new : new[k] \in [mod : Module, pass : {"link", "postlink"}, index : Nat]
    <3>1. \A k \in DOMAIN new : new[k] \in Call
      BY <1>2
    <3> QED BY <3>1 DEF Call
  <2>2. \A m \in Module : bound'[m] \in [1 .. Len(program'[m].pool) -> {"unset", "bound", "null", "bogus"}]
    BY DEF PoolsTyped, Values
  <2> QED BY <1>2, <1>3, <2>1, <2>2 DEF IInv, TypeOK
<1>6. StackAgrees'
  <2>1. \A j, k \in 1 .. Len(new) : new[j].mod = new[k].mod => j = k
    BY <1>2, <1>4 DEF IInv, StackAgrees
  <2>2. \A k \in 1 .. Len(new) : new[k].mod \in table
    BY <1>2, <1>4 DEF IInv, StackAgrees
  <2>3. \A k \in 1 .. Len(new) : k > 1 => stage[new[k].mod] = Preverified
    BY <1>2, <1>4 DEF IInv, StackAgrees
  <2>4. \A j, k \in 1 .. Len(new) : j <= k => Reaches(new[k].mod, new[j].mod)
    BY <1>2, <1>4 DEF IInv, StackAgrees
  <2>5. \A x, y : Reaches(x, y)' <=> Reaches(x, y)
    BY ReachesSame
  <2>6. stage'[top'.mod] = 3
    BY <1>4, StageFacts
  <2>7. \A j, k \in 1 .. Len(stack') : j <= k => Reaches(stack'[k].mod, stack'[j].mod)
    BY <1>3, <2>4
  <2>8. \A j, k \in 1 .. Len(stack') : j <= k => Reaches(stack[k].mod, stack[j].mod)'
    BY <2>5, <2>7
  <2>9. /\ \A k \in 1 .. Len(stack') : stack'[k].mod \in table'
        /\ \A k \in 1 .. Len(stack') : k > 1 => stage'[stack'[k].mod] = Preverified
        /\ \A j, k \in 1 .. Len(stack') : stack'[j].mod = stack'[k].mod => j = k
    BY <1>3, <2>1, <2>2, <2>3
  <2>10. stage'[top'.mod] < Ready /\ ~(stage'[top'.mod] < Preverified)
    BY <2>6, StageFacts
  <2>11. stack' \in Seq(Call)
    BY <1>2, <1>3, Zenon
  <2> QED BY <2>8, <2>9, <2>10, <2>11 DEF StackAgrees
<1>7. TableAgrees'
  BY <1>2, <1>3, <1>4 DEF IInv, TableAgrees, OnStack
<1>8. PassesAgree'
  <2>1. \A x \in Module \ {t} : \A i : Done(x, i) => Done(x, i)'
    BY DEF Done
  <2>2. \A k \in 1 .. Len(stack) : k # 1 => stack[k].mod \in Module \ {t}
    BY <1>1, StackFacts DEF IInv, StackAgrees
  <2>3. \A x, i : Passed(x, i)' <=> Passed(x, i)
    BY PassedSame
  <2>4. ASSUME NEW k \in 1 .. Len(new), NEW i \in 1 .. Len(program[new[k].mod].pool),
               Passed(new[k], i)
        PROVE  Done(stack[k].mod, i)'
    <3>1. CASE k = 1
      <4>1. new[k].mod = t /\ stack'[k].mod = t
        BY <1>2, <1>3, <3>1
      <4> QED BY <1>2, <2>4, <3>1, <4>1
    <3>2. CASE k # 1
      <4>1. new[k] = stack[k] /\ k \in 1 .. Len(stack)
        BY <1>2, <3>2
      <4>2. Done(stack[k].mod, i)
        BY <2>4, <4>1 DEF IInv, PassesAgree
      <4> QED BY <1>3, <2>1, <2>2, <3>2, <4>1, <4>2
    <3> QED BY <3>1, <3>2
  <2>5. \A x \in Module : stage'[x] >= Linked =>
            \A i \in 1 .. Len(program[x].pool) : Tag(x, i) # "MODULE_INFO" => Done(x, i)'
    BY <2>1, StageFacts DEF IInv, PassesAgree
  <2> QED BY <1>2, <1>3, <2>3, <2>4, <2>5, StageFacts DEF PassesAgree, Tag
<1> QED BY <1>5, <1>6, <1>7, <1>8 DEF IInv, StallMeansCycle

(* An entry is bound, or passed over.                                      *)
LEMMA BindPreserves ==
    ASSUME IInv, AtEntry(top.pass), NEW value \in Values, Bind(value),
           ~OfThisPass => value = bound[top.mod][top.index],
           OfThisPass /\ entry.tag # "MODULE_INFO" =>
               /\ entry.found => value = "bound"
               /\ entry.mod = top.mod \/ stage[entry.mod] = Ready
    PROVE  IInv'
<1>1. PICK t \in Module, n \in Nat \ {0}, e \in Entry, p \in {"link", "postlink"} :
          t = top.mod /\ n = top.index /\ e = entry /\ p = top.pass
  BY EntryFacts, TopFacts DEF Call
<1>2. /\ pc = "loading" /\ stage[t] = Preverified
      /\ n \in 1 .. Len(program[t].pool) /\ Len(program[t].pool) \in Nat
      /\ top = stack[1] /\ top \in Call /\ stack \in Seq(Call) /\ stack # <<>>
      /\ e = program[t].pool[n]
  BY <1>1, EntryFacts, TopFacts, PoolFacts DEF IInv, pool, entry
<1>3. PICK c \in Call : c = [stack[1] EXCEPT !.index = n + 1]
  <2>1. [stack[1] EXCEPT !.index = n + 1] \in Call
    BY <1>2 DEF Call
  <2> QED BY <2>1
<1>4. c.mod = t /\ c.pass = p /\ c.index = n + 1
  BY <1>1, <1>2, <1>3 DEF Call
<1>5. /\ bound' = [bound EXCEPT ![t][n] = value]
      /\ UNCHANGED <<program, pc, table, stage>> /\ null' = FALSE
  BY <1>1 DEF Bind
<1>6. stack' = [stack EXCEPT ![1] = c]
  BY <1>1, <1>2, <1>3 DEF Bind
<1>7. /\ DOMAIN bound = Module /\ bound[t] \in [1 .. Len(program[t].pool) -> Values]
      /\ program \in [Module -> Source]
  BY DEF IInv, PoolsTyped
<1>8. /\ bound'[t][n] = value
      /\ \A i \in 1 .. Len(program[t].pool) : i # n => bound'[t][i] = bound[t][i]
      /\ \A m \in Module \ {t} : bound'[m] = bound[m]
      /\ bound'[t] \in [1 .. Len(program[t].pool) -> Values] /\ DOMAIN bound' = Module
  BY <1>2, <1>5, <1>7
<1>9. PoolsTyped'
  BY <1>5, <1>7, <1>8 DEF IInv, PoolsTyped
<1>10. ASSUME NEW i \in 1 .. Len(program[t].pool), Passed(c, i) PROVE Done(t, i)'
  <2>1. ASSUME Passed(top, i), bound'[t][i] = bound[t][i] PROVE Done(t, i)'
    <3>1. 1 \in 1 .. Len(stack)
      BY <1>2
    <3>2. Done(t, i)
      BY <1>1, <1>2, <2>1, <3>1 DEF IInv, PassesAgree
    <3> QED BY <1>5, <2>1, <3>2 DEF Done
  <2>2. CASE i # n
    <3>1. i < n + 1 => i < n
      BY <1>2, <2>2
    <3>2. Passed(top, i)
      BY <1>1, <1>4, <1>10, <3>1 DEF Passed
    <3> QED BY <1>8, <2>1, <2>2, <3>2
  <2>3. CASE i = n /\ OfThisPass
    <3>1. e.tag # "MODULE_INFO"
      BY <1>2, <1>4, <1>10, <2>3 DEF Passed, Tag
    <3>2. /\ e.found => bound'[t][i] = "bound"
          /\ e.mod = t \/ stage[e.mod] = Ready
      BY <1>1, <1>8, <2>3, <3>1
    <3> QED BY <1>2, <1>5, <2>3, <3>2, StageFacts DEF Done
  <2>4. CASE i = n /\ ~OfThisPass
    <3>1. /\ p = "link" => e.tag \notin {"CLASS_INFO", "FUNCTION_INFO"}
          /\ p = "postlink" => e.tag \notin {"FIELD_INFO", "METHOD_INFO"}
      BY <1>1, <2>4 DEF OfThisPass
    <3>2. p = "postlink" /\ Tag(t, i) \in {"CLASS_INFO", "FUNCTION_INFO"}
      BY <1>2, <1>4, <1>10, <2>4, <3>1 DEF Passed, Tag
    <3>3. Passed(top, i)
      BY <1>1, <3>2 DEF Passed
    <3>4. bound'[t][i] = bound[t][i]
      BY <1>1, <1>8, <2>4
    <3> QED BY <2>1, <3>3, <3>4
  <2> QED BY <2>2, <2>3, <2>4
<1> QED BY <1>1, <1>2, <1>4, <1>5, <1>6, <1>8, <1>9, <1>10, FrontPreserves

(* The loading blocks or faults, where it is.                              *)
LEMMA HaltPreserves ==
    ASSUME IInv, pc = "loading", pc' \in {"stalled", "fault"},
           UNCHANGED <<program, table, stage, bound, stack, null>>,
           pc' = "stalled" => Failed(entry.mod) \/ Reaches(entry.mod, top.mod)
    PROVE  IInv'
<1>1. TypeOK' /\ PoolsTyped' /\ TableAgrees'
  BY DEF IInv, TypeOK, PoolsTyped, TableAgrees, OnStack
<1>2. StackAgrees'
  BY ReachesSame DEF IInv, StackAgrees, top
<1>3. PassesAgree'
  BY DEF IInv, PassesAgree, Passed, Done, Tag
<1>4. entry' = entry /\ top' = top
  BY DEF entry, top, pool
<1>5. StallMeansCycle'
  BY <1>4, ReachesSame DEF StallMeansCycle, Failed
<1> QED BY <1>1, <1>2, <1>3, <1>5 DEF IInv

(* The first pass of a module is over: it starts again, for the second.    *)
LEMMA SecondPassPreserves ==
    ASSUME IInv, EndPass, top.pass = "link" PROVE IInv'
<1>1. PICK t \in Module : t = top.mod
  BY TopFacts DEF EndPass, Linking
<1>2. /\ pc = "loading" /\ stage[t] = Preverified
      /\ stack' = [stack EXCEPT ![1].pass = "postlink", ![1].index = 1]
      /\ UNCHANGED <<program, pc, table, stage, bound, null>>
  BY <1>1 DEF EndPass, Linking
<1>3. /\ top = stack[1] /\ top \in Call /\ stack \in Seq(Call) /\ 1 \in 1 .. Len(stack)
      /\ Len(program[t].pool) \in Nat /\ top.index \in Nat
  BY <1>2, TopFacts, PoolFacts DEF IInv, Call
<1>4. ~(top.index <= Len(program[t].pool))
  BY <1>1, <1>3 DEF EndPass, pool
<1>5. PICK c \in Call : c = [mod |-> t, pass |-> "postlink", index |-> 1]
  <2>1. [mod |-> t, pass |-> "postlink", index |-> 1] \in Call
    BY DEF Call
  <2> QED BY <2>1
<1>6. PICK d \in Call : d = [stack[1] EXCEPT !.pass = "postlink"]
  <2>1. [stack[1] EXCEPT !.pass = "postlink"] \in Call
    BY <1>3 DEF Call
  <2> QED BY <2>1
<1>7. stack' = [stack EXCEPT ![1] = c]
  <2>1. PICK s \in Seq(Call) : s = [stack EXCEPT ![1] = d]
    <3>1. stack # <<>>
      BY <1>2, TopFacts
    <3>2. [stack EXCEPT ![1] = d] \in Seq(Call)
      BY <1>3, <3>1, FrontEntry
    <3> QED BY <3>2
  <2>2. stack' = [s EXCEPT ![1].index = 1]
    BY <1>2, <1>6, <2>1
  <2>3. s[1] = d
    BY <1>3, <2>1
  <2>4. [s EXCEPT ![1] = c] = [stack EXCEPT ![1] = c]
    <3>1. [[stack EXCEPT ![1] = d] EXCEPT ![1] = c] = [stack EXCEPT ![1] = c]
      BY <1>3
    <3> QED BY <2>1, <3>1
  <2>5. [d EXCEPT !.index = 1] = c
    <3>1. PICK p \in {"link", "postlink"}, n \in Nat :
              stack[1] = [mod |-> t, pass |-> p, index |-> n]
      <4>1. stack[1] \in Call /\ stack[1].mod = t
        BY <1>1, <1>3
      <4> QED BY <4>1 DEF Call
    <3>2. d = [mod |-> t, pass |-> "postlink", index |-> n]
      BY <1>6, <3>1
    <3> QED BY <1>5, <3>2
  <2>6. stack' = [s EXCEPT ![1] = [s[1] EXCEPT !.index = 1]]
    BY <2>2
  <2> QED BY <2>3, <2>4, <2>5, <2>6
<1>8. PoolsTyped' /\ null' \in BOOLEAN /\ \A m \in Module \ {t} : bound'[m] = bound[m]
  BY <1>2 DEF IInv, PoolsTyped, TypeOK
<1>9. ASSUME NEW i \in 1 .. Len(program[t].pool), Passed(c, i) PROVE Done(t, i)'
  <2>1. i < top.index /\ Tag(t, i) \in {"CLASS_INFO", "FUNCTION_INFO"}
    <3>1. i < top.index
      BY <1>3, <1>4
    <3>2. ~(i < 1)
      BY <1>3
    <3> QED BY <1>5, <1>9, <3>1, <3>2 DEF Passed
  <2>2. Passed(top, i)
    BY <1>1, <2>1 DEF Passed
  <2>3. Done(t, i)
    BY <1>1, <1>3, <2>2 DEF IInv, PassesAgree
  <2> QED BY <1>2, <2>3 DEF Done
<1> QED BY <1>1, <1>2, <1>5, <1>7, <1>8, <1>9, FrontPreserves

(* After the second pass every entry but those that name a module has been *)
(* gone over.                                                              *)
LEMMA LinkedPreserves ==
    ASSUME IInv, EndPass, top.pass # "link" PROVE IInv'
<1>1. /\ pc = "loading" /\ stage[top.mod] = Preverified /\ SetStage(Linked)
      /\ UNCHANGED <<program, pc, table, bound, stack, null>>
  BY DEF EndPass, Linking
<1>2. /\ top = stack[1] /\ top \in Call /\ 1 \in 1 .. Len(stack) /\ top.mod \in Module
      /\ top.index \in Nat /\ top.pass = "postlink"
  BY <1>1, TopFacts DEF Call
<1>3. /\ Len(pool) \in Nat
      /\ \A i \in 1 .. Len(pool) : Tag(top.mod, i) \in Tags
  BY <1>2, PoolFacts DEF IInv, pool, Tag, Entry
<1>4. \A i \in 1 .. Len(pool) : i < top.index
  BY <1>2, <1>3 DEF EndPass
<1>5. \A i \in 1 .. Len(pool) : Tag(top.mod, i) # "MODULE_INFO" => Passed(top, i)
  BY <1>2, <1>3, <1>4 DEF Tags, Passed
<1>6. \A i \in 1 .. Len(pool) : Tag(top.mod, i) # "MODULE_INFO" => Done(top.mod, i)
  BY <1>2, <1>5 DEF IInv, PassesAgree, pool
<1>7. SetStage(4) /\ stage[top.mod] = 4 - 1 /\ 4 \in 1 .. 5
  BY <1>1, StageFacts
<1> QED BY <1>1, <1>6, <1>7, AdvancePreserves

(* A stage that can fail.                                                  *)
LEMMA TryStagePreserves ==
    ASSUME IInv, NEW from \in 0 .. 1, NEW succeeds \in BOOLEAN,
           TryStage(from, from + 1, succeeds)
    PROVE  IInv'
<1>1. CASE succeeds
  <2>1. /\ SetStage(from + 1) /\ stage[top.mod] = from /\ pc = "loading"
        /\ UNCHANGED <<program, pc, table, bound, stack, null>>
    BY <1>1 DEF TryStage
  <2>2. from + 1 \in 1 .. 5 /\ from + 1 # 4 /\ (from + 1) - 1 = from
    OBVIOUS
  <2>3. PICK s \in 1 .. 5 : s = from + 1
    BY <2>2
  <2> QED BY <2>1, <2>2, <2>3, AdvancePreserves
<1>2. CASE ~succeeds
  <2>1. ReturnWith(TRUE) /\ UNCHANGED stage
    BY <1>2, Zenon DEF TryStage
  <2>2. /\ pc = "loading" /\ stage[top.mod] < Preverified
        /\ UNCHANGED <<program, table, bound>>
    BY StageFacts DEF TryStage
  <2>3. PICK isNull \in BOOLEAN : ReturnWith(isNull)
    BY <2>1
  <2> QED BY <2>1, <2>2, <2>3, ReturnPreserves
<1> QED BY <1>1, <1>2

(* The module waited for is left, or is waiting itself.                    *)
LEMMA StallPreserves ==
    ASSUME IInv, Stall PROVE IInv'
<1>1. /\ AtEntry(top.pass) /\ entry.mod \in table /\ stage[entry.mod] # Ready
      /\ pc' = "stalled" /\ UNCHANGED <<program, table, stage, bound, stack, null>>
  BY ThisPass DEF Stall, LooksUp
<1>2. pc = "loading" /\ entry.mod \in Module
  BY <1>1, EntryFacts
<1>3. Failed(entry.mod) \/ Reaches(entry.mod, top.mod)
  <2>1. CASE OnStack(entry.mod)
    <3>1. PICK k \in 1 .. Len(stack) : stack[k].mod = entry.mod
      BY <2>1 DEF OnStack
    <3>2. 1 \in 1 .. Len(stack) /\ 1 <= k /\ top = stack[1]
      BY <1>2, TopFacts
    <3>3. Reaches(stack[k].mod, stack[1].mod)
      BY <3>2 DEF IInv, StackAgrees
    <3> QED BY <3>1, <3>2, <3>3
  <2>2. CASE ~OnStack(entry.mod)
    BY <1>1, <1>2, <2>2 DEF IInv, TableAgrees, Failed
  <2> QED BY <2>1, <2>2
<1> QED BY <1>1, <1>2, <1>3, HaltPreserves

-----------------------------------------------------------------------------
(* The results.                                                            *)

LEMMA StepPreserves == ASSUME IInv, [Next]_vars PROVE IInv'
<1>1. ASSUME NEW m \in Module, Request(m) PROVE IInv'
  <2>1. stack = <<>> /\ LoadModule(m)
    BY <1>1 DEF Request, IInv, TypeOK
  <2> QED BY <2>1, LoadModulePreserves
<1>2. CASE ReadModule
  <2>1. PICK ok \in BOOLEAN : ok = (program[top.mod].file # "missing")
    OBVIOUS
  <2>2. TryStage(0, 0 + 1, ok)
    BY <1>2, <2>1, StageFacts DEF ReadModule
  <2> QED BY <2>2, TryStagePreserves
<1>3. CASE ParseModule
  <2>1. PICK ok \in BOOLEAN : ok = (program[top.mod].file # "malformed")
    OBVIOUS
  <2>2. TryStage(1, 1 + 1, ok)
    BY <1>3, <2>1, StageFacts DEF ParseModule
  <2> QED BY <2>2, TryStagePreserves
<1>4. CASE PreverifyModule
  <2>1. PICK s \in 1 .. 5 : s = 3
    OBVIOUS
  <2>2. /\ SetStage(s) /\ stage[top.mod] = s - 1 /\ pc = "loading"
        /\ UNCHANGED <<program, pc, table, bound, stack, null>>
    BY <1>4, <2>1, StageFacts DEF PreverifyModule, TryStage
  <2> QED BY <2>1, <2>2, AdvancePreserves
<1>5. CASE VerifyModule
  <2>1. PICK s \in 1 .. 5 : s = 5
    OBVIOUS
  <2>2. /\ SetStage(s) /\ stage[top.mod] = s - 1 /\ pc = "loading"
        /\ UNCHANGED <<program, pc, table, bound, stack, null>>
    BY <1>5, <2>1, StageFacts DEF VerifyModule, TryStage
  <2> QED BY <2>1, <2>2, AdvancePreserves
<1>6. CASE SkipEntry
  <2>1. /\ AtEntry(top.pass) /\ ~OfThisPass /\ Bind(bound[top.mod][top.index])
    BY <1>6 DEF SkipEntry
  <2>2. bound[top.mod] \in [1 .. Len(pool) -> Values] /\ top.index \in 1 .. Len(pool)
    BY <2>1, EntryFacts, TopFacts DEF IInv, PoolsTyped, pool
  <2>3. PICK v \in Values : v = bound[top.mod][top.index]
    BY <2>2
  <2> QED BY <2>1, <2>3, BindPreserves
<1>7. CASE BindOwn
  <2>1. /\ AtEntry(top.pass) /\ OfThisPass /\ entry.mod = top.mod
        /\ Bind(IF entry.found THEN "bound" ELSE "unset")
    BY <1>7, ThisPass DEF BindOwn, LooksUp, Waits, Own
  <2>2. PICK v \in Values : v = IF entry.found THEN "bound" ELSE "unset"
    BY DEF Values
  <2> QED BY <2>1, <2>2, BindPreserves
<1>8. CASE LoadImport
  <2>1. /\ AtEntry(top.pass) /\ LoadModule(entry.mod)
    BY <1>8, ThisPass DEF LoadImport, LooksUp
  <2>2. PICK m \in Module : m = entry.mod
    BY <2>1, EntryFacts
  <2> QED BY <2>1, <2>2, EntryFacts, LoadModulePreserves
<1>9. CASE NullImport
  <2>1. AtEntry(top.pass) /\ OfThisPass /\ LooksUp /\ pc = "loading"
    BY <1>9, ThisPass, EntryFacts DEF NullImport, LooksUp
  <2>2. CASE Waits
    <3>1. pc' = "fault" /\ UNCHANGED <<program, table, stage, bound, stack, null>>
      BY <1>9, <2>2 DEF NullImport
    <3> QED BY <2>1, <3>1, HaltPreserves
  <2>3. CASE ~Waits
    <3>1. Bind("bogus") /\ entry.tag = "MODULE_INFO" /\ "bogus" \in Values
      BY <1>9, <2>1, <2>3 DEF NullImport, LooksUp, Values
    <3> QED BY <2>1, <3>1, BindPreserves
  <2> QED BY <2>2, <2>3
<1>10. CASE BindModule
  <2>1. /\ AtEntry(top.pass) /\ OfThisPass /\ entry.tag = "MODULE_INFO"
        /\ Bind("bound") /\ "bound" \in Values
    BY <1>10, ThisPass DEF BindModule, LooksUp, Values
  <2> QED BY <2>1, BindPreserves
<1>11. CASE Stall
  BY <1>11, StallPreserves
<1>12. CASE BindImport
  <2>1. AtEntry(top.pass) /\ OfThisPass /\ stage[entry.mod] = Ready /\ pc = "loading"
    BY <1>12, ThisPass, EntryFacts DEF BindImport, LooksUp
  <2>2. CASE entry.tag \in {"FIELD_INFO", "METHOD_INFO"} /\ ~entry.found
    <3>1. pc' = "fault" /\ UNCHANGED <<program, table, stage, bound, stack, null>>
      BY <1>12, <2>2 DEF BindImport
    <3> QED BY <2>1, <3>1, HaltPreserves
  <2>3. CASE ~(entry.tag \in {"FIELD_INFO", "METHOD_INFO"} /\ ~entry.found)
    <3>1. Bind(IF entry.found THEN "bound" ELSE "null")
      BY <1>12, <2>3 DEF BindImport
    <3>2. PICK v \in Values : v = IF entry.found THEN "bound" ELSE "null"
      BY DEF Values
    <3> QED BY <2>1, <3>1, <3>2, BindPreserves
  <2> QED BY <2>2, <2>3
<1>13. CASE EndPass
  BY <1>13, SecondPassPreserves, LinkedPreserves
<1>14. CASE ReturnReady
  <2>1. /\ pc = "loading" /\ stage[top.mod] = Verified /\ SetStage(Ready)
        /\ ReturnWith(FALSE) /\ UNCHANGED <<program, table, bound>>
    BY <1>14 DEF ReturnReady
  <2> QED BY <2>1, ReturnPreserves
<1>15. CASE UNCHANGED vars
  <2>1. TypeOK' /\ PoolsTyped' /\ TableAgrees'
    BY <1>15 DEF vars, IInv, TypeOK, PoolsTyped, TableAgrees, OnStack
  <2>2. StackAgrees'
    BY <1>15, ReachesSame DEF vars, IInv, StackAgrees, top
  <2>3. PassesAgree'
    BY <1>15 DEF vars, IInv, PassesAgree, Passed, Done, Tag
  <2>4. entry' = entry /\ top' = top
    BY <1>15 DEF vars, entry, top, pool
  <2>5. StallMeansCycle'
    BY <1>15, <2>4, ReachesSame DEF vars, IInv, StallMeansCycle, Failed
  <2> QED BY <2>1, <2>2, <2>3, <2>5 DEF IInv
<1>16. (\E m \in Module : Request(m)) \/ Load \/ UNCHANGED vars
  BY DEF Next, Stopped
<1> QED BY <1>1, <1>2, <1>3, <1>4, <1>5, <1>6, <1>7, <1>8, <1>9, <1>10, <1>11, <1>12, <1>13,
           <1>14, <1>15, <1>16 DEF Load

(* Every state of a load, of any modules, has the inductive invariant.     *)
THEOREM Invariance == Spec => []IInv
BY Initially, StepPreserves, PTL DEF Spec

(* Modules, their stages and their constant pools keep their types.        *)
THEOREM TypeCorrect == Spec => []TypeOK
BY Invariance, PTL DEF IInv

(* A ready module can be run: all it imports by name is bound, to modules  *)
(* that are ready, whatever they import in turn.                           *)
THEOREM ReadyModulesComplete == Spec => []ReadyIsComplete
<1>1. IInv => ReadyIsComplete
  <2> SUFFICES ASSUME IInv, NEW m \in Module, stage[m] = Ready,
                      NEW i \in 1 .. Len(program[m].pool), Tag(m, i) # "MODULE_INFO"
               PROVE  /\ program[m].pool[i].found => bound[m][i] = "bound"
                      /\ stage[program[m].pool[i].mod] = Ready
    BY DEF ReadyIsComplete, Tag
  <2>1. Done(m, i)
    BY StageFacts DEF IInv, PassesAgree
  <2> QED BY <2>1 DEF Done
<1> QED BY <1>1, Invariance, PTL

(* waitForStage() blocks for ever only on a module that failed, or that    *)
(* reaches the one that waits through its imports.                         *)
THEOREM StallsAreCycles == Spec => []StallMeansCycle
BY Invariance, PTL DEF IInv
==============================================================================
