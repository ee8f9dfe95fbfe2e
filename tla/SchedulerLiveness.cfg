CONSTANTS
    t1 = t1
    t2 = t2
    t3 = t3
    f1 = f1
    f2 = f2
    f3 = f3
    Task = {t1, t2}
    Future = {f1, f2}
    NoTask = NoTask
    NoFuture = NoFuture
    Levels = 2
    LevelSelection <- ExponentialTwoLevels
    CursorRange = 3
    Priority = {0, 1}
    MainPriority = 0
    MaxTasks = 2
    AutoYield = TRUE
    YieldThreshold = 2
    MaxDepth = 2
    HeapMayFail = FALSE
SPECIFICATION Spec
PROPERTIES
    ImplementsTaskLife
    NoStarvation
    AwaitResumes
