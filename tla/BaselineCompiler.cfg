CONSTANTS
    ByteBits = 1
    GPRegisters <- MCGPRegisters
    Volatile <- MCVolatile
    ReturnRegister = 0
    ArgumentRegister = 7
    VRegs <- MCVRegs
    Programs <- MCPrograms
    Inputs <- MCFrames
    CallResults <- MCCallResults
    Heap <- MCHeap
    Memory = Memory
    Junk = 77

SPECIFICATION Spec
INVARIANTS
    CompiledAgrees
    RootsTagged
CHECK_DEADLOCK FALSE
