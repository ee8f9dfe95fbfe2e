CONSTANTS
    a = a
    b = b
    c = c
    Module = {a, b, c}
    Programs <- MixedPrograms
SPECIFICATION Spec
INVARIANTS
    ReadyIsComplete
    StallMeansCycle
PROPERTIES
    LoadEnds
