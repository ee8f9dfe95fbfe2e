CONSTANTS
    f1 = f1
    f2 = f2
    s1 = s1
    s2 = s2
    w1 = w1
    w2 = w2
    Fn = {f1, f2}
    Kinds <- Programs
    NoFn = NoFn
    Worker = {w1, w2}
    Frame = {s1, s2}
    NoFrame = NoFrame
    Modes <- AotOnly
    HotThreshold = 65535
    CountRange = 65536
    MaxCalls = 3
    Throws = FALSE
SPECIFICATION Spec
INVARIANT
    FailureFallsBack
