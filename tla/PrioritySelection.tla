-------------------------- MODULE PrioritySelection --------------------------
(***************************************************************************)
(* The table mLevelSelection from which the scheduler draws the level of   *)
(* the next task: how the constructor fills it from scheduler.priority     *)
(* (executor/scheduler.cpp), and the level each TaskPriority is given      *)
(* (executor/task.cpp).  Scheduler.tla takes the table as a constant.      *)
(***************************************************************************)
EXTENDS Naturals, Sequences, FiniteSets

CONSTANTS
    ConfigLevels,  \* bound: the values of priority.levels looked at
    Boosts,        \* bound: the values of priority.boost looked at
    WeightRange    \* number of values of a weight (2^32: uint32_t)

ASSUME ConfigAssumption == /\ ConfigLevels \subseteq 0 .. 255
                           /\ Boosts \subseteq 0 .. 255
                           /\ WeightRange \in Nat \ {0}

VARIABLES
    configLevels,  \* priority.levels
    boost,         \* priority.boost
    exponential,   \* priority.useExponentialWeights
    selection,     \* mLevelSelection
    next           \* the level the last loop is at; Levels when it has ended

vars == <<configLevels, boost, exponential, selection, next>>

(* An operator named M... is a mutant of a definition below it, a bug the  *)
(* code could have had; no specification uses it.                          *)

(* The number of queues made.                                              *)
Levels == IF configLevels = 0 THEN 1 ELSE configLevels
Level  == 0 .. (Levels - 1)

(* PowI(): a power that wraps at the width of uint32_t.                    *)
PowI(base) ==
    LET power[n \in Nat] == IF n = 0 THEN 1 % WeightRange
                            ELSE (power[n - 1] * base) % WeightRange
    IN  power

MFromZeroWeight(l) ==
    IF exponential THEN PowI(boost)[Levels - 1 - l] ELSE Levels - 1 - l

(* The number of slots of a level: it falls as the level's number grows.   *)
Weight(l) == IF exponential THEN PowI(boost)[Levels - 1 - l] ELSE Levels - l

(* One level, or a boost that changes nothing: the table is <<0>>.         *)
TopOnly == Levels = 1 \/ boost <= 1

(* The constructor up to its last loop.                                    *)
Init == /\ configLevels \in ConfigLevels /\ boost \in Boosts /\ exponential \in BOOLEAN
        /\ selection = IF TopOnly THEN <<0>> ELSE <<>>
        /\ next = IF TopOnly THEN Levels ELSE 0

(* One iteration of the last loop: the slots of one level.                 *)
AppendLevel == /\ next < Levels
               /\ selection' = selection \o [i \in 1 .. Weight(next) |-> next]
               /\ next' = next + 1
               /\ UNCHANGED <<configLevels, boost, exponential>>

Done == next = Levels /\ UNCHANGED vars

Next == AppendLevel \/ Done

Spec == Init /\ [][Next]_vars

-----------------------------------------------------------------------------
TaskPriority == <<"Critical", "Normal", "Low", "Background", "System">>

(* MapPriorityToLevel(): uint8_t arithmetic on the configured levels.      *)
MapPriorityToLevel(p) ==
    CASE p = "Critical"   -> 0
      [] p = "Normal"     -> configLevels \div 3
      [] p = "Low"        -> (2 * configLevels) \div 3
      [] p = "Background" -> (configLevels + 254) % 256
      [] p = "System"     -> (configLevels + 255) % 256

(* The queue enqueue() then puts a task of priority p in.                  *)
QueueOf(p) == IF MapPriorityToLevel(p) < Levels THEN MapPriorityToLevel(p)
              ELSE Levels - 1

-----------------------------------------------------------------------------
Built    == next = Levels
Slots(l) == Cardinality({i \in 1 .. Len(selection) : selection[i] = l})

(* A task of a higher priority has its level drawn at least as often.      *)
HigherServedMore ==
    \A i \in 1 .. 4 : Slots(QueueOf(TaskPriority[i])) >= Slots(QueueOf(TaskPriority[i + 1]))

(* The table is never empty once built: pickLevel() indexes it without a   *)
(* bound, and Scheduler.tla assumes this of it.  Unless it has the top     *)
(* level only, every level has a slot in it, or the level's tasks would    *)
(* run only when no other level has any, and MapPriorityToLevel() and the  *)
(* weights together serve the named priorities in their order.  (Not with  *)
(* two or three levels, where Background is mapped above Low.)             *)
EveryLevelServed == Built => /\ selection # <<>>
                             /\ ~TopOnly => \A l \in Level : Slots(l) > 0
                             /\ ~TopOnly /\ Levels \notin {2, 3} => HigherServedMore
=============================================================================
