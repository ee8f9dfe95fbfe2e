CONSTANTS
    t1 = t1
    t2 = t2
    t3 = t3
    f1 = f1
    f2 = f2
    f3 = f3
    Task = {t1, t2}
    Future = {f1, f2}
    NoTask = NoTask
    NoFuture = NoFuture
    Levels = 1
    LevelSelection <- TopLevelOnly
    CursorRange = 256
    Priority = {0}
    MainPriority = 0
    MaxTasks = 2
    AutoYield = TRUE
    YieldThreshold = 2
    MaxDepth = 1
    HeapMayFail = FALSE
SPECIFICATION Spec
PROPERTY
    OthersRun
