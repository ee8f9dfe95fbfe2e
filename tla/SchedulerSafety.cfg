CONSTANTS
    t1 = t1
    t2 = t2
    t3 = t3
    f1 = f1
    f2 = f2
    f3 = f3
    Task = {t1, t2, t3}
    Future = {f1, f2, f3}
    NoTask = NoTask
    NoFuture = NoFuture
    Levels = 2
    LevelSelection <- LinearTwoLevels
    CursorRange = 256
    Priority = {0, 2}
    MainPriority = 0
    MaxTasks = 3
    AutoYield = FALSE
    YieldThreshold = 1
    MaxDepth = 1
    HeapMayFail = FALSE
SPECIFICATION Spec
SYMMETRY Symmetry
INVARIANTS
    TypeOK
    ExactlyOnePlace
    NoLostWakeup
    ExitMeansStuck
PROPERTIES
    AppendOnlyDuringGC
    FreedOnlyWhenDone
    WokenByCompletion
