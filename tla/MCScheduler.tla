----------------------------- MODULE MCScheduler -----------------------------
(* Small instances of the scheduler for TLC.                               *)
EXTENDS Scheduler, TLC

CONSTANTS t1, t2, t3, f1, f2, f3

(* mLevelSelection of levels = 2, boost = 2, linear weights.               *)
LinearTwoLevels == <<0, 0, 1>>

(* mLevelSelection of levels = 2, boost = 3, exponential weights.          *)
ExponentialTwoLevels == <<0, 0, 0, 1>>

(* mLevelSelection of one level, or of any number with boost <= 1.         *)
TopLevelOnly == <<0>>

Symmetry == Permutations(Task) \cup Permutations(Future)
=============================================================================
