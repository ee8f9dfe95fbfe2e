-------------------------- MODULE BaselineCompiler --------------------------
(***************************************************************************)
(* The baseline compiler (compiler/compiler.cpp) and the code it emits,    *)
(* run in lock-step with the interpreter on the same function: every step  *)
(* interprets one instruction (Instructions.tla) and executes the machine  *)
(* code emitted for it, from its label to the next.                        *)
(*                                                                         *)
(* The compiler keeps, for every bytecode register it has met, whether its *)
(* value lives in the frame or in a machine register; the tag isObject is  *)
(* always in the frame.  (A third place, a vector register, is never       *)
(* chosen by the instruction compilers and is left out, as are vector      *)
(* temporaries, the text of errors, and alignment of the stack.)           *)
(*                                                                         *)
(* A compiler is made for one function and used once.  unsound collects    *)
(* the weaknesses of the register allocator that a compilation meets; the  *)
(* properties say what the code does when it meets none.                   *)
(***************************************************************************)
EXTENDS Instructions, SequencesExt

CONSTANTS
    GPRegisters,     \* sequence: abi::GP_REGISTERS, or a shorter one
    Volatile,        \* PLATFORM_ABI_VOLATILE_REGISTERS
    ReturnRegister,  \* PLATFORM_ABI_RETURN_REGISTER
    ArgumentRegister,\* PLATFORM_ABI_ARGUMENT_REGISTERS[0]
    VRegs,           \* the registers of the function's frame
    Programs,        \* bound: the functions compiled, sequences of instructions
    Inputs,          \* bound: the registers a function is entered with
    CallResults,     \* bound: the values a callee returns
    Heap,            \* the objects; the compiled instructions write none
    Memory,          \* the place of a register that lives in the frame
    Junk             \* a word left in a machine register nobody set

ASSUME CompilerAssumption ==
    /\ Range(GPRegisters) \subseteq Nat /\ Len(GPRegisters) >= 4
    /\ Volatile \subseteq Nat /\ ReturnRegister \in Volatile /\ ArgumentRegister \in Volatile
    /\ Memory \notin Nat /\ Junk \in Word

VARIABLES
    program,   \* the function's instructions
    unit,      \* the compiled code, NoUnit when the compiler gave up
    pc,        \* the interpreter's next instruction
    regs,      \* the frame the interpreter works on
    native,    \* the processor: machine registers, the frame compiled code works on
    at,        \* the label the compiled code has reached
    phase      \* "running", or what both executions stopped with

vars == <<program, unit, pc, regs, native, at, phase>>

(* An operator named M... is a mutant of a definition below it, a bug the  *)
(* code could have had; no specification uses it.                          *)

Machine == Range(GPRegisters) \union Volatile

-----------------------------------------------------------------------------
(* The compiler's state while it compiles.  leftFirst: the order in which  *)
(* the C++ compiler had two arguments of one call evaluated.               *)

Fresh(leftFirst) ==
    [order |-> <<>>,                          \* mVRegs: ids, as first met
     place |-> [v \in VRegs |-> Memory],      \* location, untaggedPhysical
     alloc |-> {},                            \* mAllocatedRegisters
     got |-> 0,                               \* the register last returned
     temps |-> <<>>,                          \* the TempRegisters in scope
     operands |-> <<>>,                       \* the registers of two operands
     blocks |-> <<>>,                         \* the code, by instruction
     starts |-> <<>>,                         \* place when a label is bound
     jumps |-> {},                            \* [to, place] of every branch
     labels |-> 0,                            \* labels inside blocks
     checkpoints |-> <<1>>,                   \* the block of each; 0 is the entry
     leftFirst |-> leftFirst,
     unsound |-> {}]

Emit(c, op) == [c EXCEPT !.blocks[Len(c.blocks)] = Append(@, op)]
Emits(c, ops) == [c EXCEPT !.blocks[Len(c.blocks)] = @ \o ops]
Weak(c, condition, name) == IF condition THEN [c EXCEPT !.unsound = @ \union {name}] ELSE c

InRegister(c, v) == c.place[v] # Memory

GetVReg(c, v) == IF v \in Range(c.order) THEN c ELSE [c EXCEPT !.order = Append(@, v)]
Two(c, ins)   == GetVReg(GetVReg(c, ins.a), ins.b)
Three(c, ins) == GetVReg(Two(c, ins), ins.c)

(* spillVReg() of each; the tag is in the frame already.                   *)
Spill(c, vs) ==
    [Emits(c, [k \in DOMAIN vs |-> <<"store", vs[k], c.place[vs[k]]>>]) EXCEPT
        !.place = [v \in VRegs |-> IF v \in Range(vs) THEN Memory ELSE c.place[v]],
        !.alloc = @ \ {c.place[v] : v \in Range(vs)}]

(* A register taken that some vreg still lives in: possible once a         *)
(* checkpoint has cleared alloc and put the vregs back in their registers. *)
Take(c, r) == [Weak(c, \E v \in VRegs : c.place[v] = r, "clobber") EXCEPT
                  !.alloc = @ \union {r}, !.got = r]

(* allocateRegister(): the first free one, else that of the first vreg in  *)
(* a register, which is spilled; no vreg is safe from it.                  *)
Allocate(c) ==
    LET free == SelectSeq(GPRegisters, LAMBDA r : r \notin c.alloc)
        held == SelectSeq(c.order, LAMBDA v : InRegister(c, v))
    IN  IF free # <<>> THEN Take(c, Head(free))
        ELSE IF held = <<>> THEN Weak(c, TRUE, "exhausted")
        ELSE Take(Spill(c, <<Head(held)>>), c.place[Head(held)])

(* A TempRegister and the end of its scope.                                *)
PushTemp(c) == [c EXCEPT !.temps = Append(@, c.got)]
Temp(c)     == PushTemp(Allocate(c))
T(c, k)     == c.temps[k]
EndTemp(c)  == [c EXCEPT !.alloc = @ \ {Last(c.temps)}, !.temps = Front(@)]
EndTemps(c) == [c EXCEPT !.alloc = @ \ Range(c.temps), !.temps = <<>>]

(* A vreg goes to live in the register just allocated.  (Here and below,   *)
(* TLC cannot apply a nested EXCEPT to a function it has not evaluated     *)
(* yet: hence @@.)                                                         *)
Bind(c, v) == [Emit(c, <<"load", c.got, v>>) EXCEPT !.place = (v :> c.got) @@ @]

(* assignPhysRegUntagged()                                                 *)
Assign(c, v) == IF InRegister(c, v) THEN [c EXCEPT !.got = c.place[v]]
                ELSE Bind(Allocate(c), v)

(* Two vregs assigned as arguments of one call, in the order the C++       *)
(* compiler chose: the second may steal the register of the first.         *)
Note(c)       == [c EXCEPT !.operands = Append(@, c.got)]
Operand(c, v) == Note(Assign(c, v))
Paired(c, distinct) ==
    [Weak(c, distinct /\ c.operands[1] = c.operands[2], "stolen") EXCEPT
        !.operands = IF c.leftFirst THEN @ ELSE Reverse(@)]
AssignBoth(c, v, w) ==
    Paired(Operand(Operand([c EXCEPT !.operands = <<>>], IF c.leftFirst THEN v ELSE w),
                   IF c.leftFirst THEN w ELSE v),
           v # w)
Left(c)  == c.operands[1]
Right(c) == c.operands[2]

-----------------------------------------------------------------------------
(* Operations on vregs                                                     *)

SetTag(c, v, tag)  == Emit(c, <<"tag", v, tag>>)
GetValue(c, v, r)  == Emit(c, IF InRegister(c, v) THEN <<"mov", r, c.place[v]>>
                              ELSE <<"load", r, v>>)
SetValue(c, v, r)  == Emit(c, IF InRegister(c, v) THEN <<"mov", c.place[v], r>>
                              ELSE <<"store", v, r>>)

(* An immediate that fits 32 bits is stored by an instruction that extends *)
(* its sign: wrong from 2^31 on.                                           *)
StoreWide(c, v, imm) == EndTemp(Emits(c, <<<<"movImm", T(c, 1), imm>>, <<"store", v, T(c, 1)>>>>))
SetImmediate(c, v, imm) ==
    IF InRegister(c, v) THEN Emit(c, <<"movImm", c.place[v], imm>>)
    ELSE IF imm >= 2^IntBits THEN StoreWide(Temp(c), v, imm)
    ELSE Weak(Emit(c, <<"storeImm", v, imm>>), imm >= 2^(IntBits - 1), "immediate")

MMoveForgetsTag(c, dst, src) ==
    IF InRegister(c, dst) THEN GetValue(c, src, c.place[dst])
    ELSE IF InRegister(c, src) THEN SetValue(c, dst, c.place[src])
    ELSE Emit(c, <<"copy", dst, src>>)

(* moveVReg(): the tag through memory, by way of the destination's own     *)
(* register or a temporary, whose allocation may spill the source.         *)
StoreMoved(c, dst, src, from) ==
    EndTemp(Emits(Weak(c, ~InRegister(c, src), "stolen"),
                  <<<<"store", dst, from>>, <<"loadTag", T(c, 1), src>>,
                    <<"storeTag", dst, T(c, 1)>>>>))

MoveVReg(c, dst, src) ==
    IF dst = src THEN c
    ELSE IF InRegister(c, dst)
    THEN GetValue(Emits(c, <<<<"loadTag", c.place[dst], src>>, <<"storeTag", dst, c.place[dst]>>>>),
                  src, c.place[dst])
    ELSE IF InRegister(c, src) THEN StoreMoved(Temp(c), dst, src, c.place[src])
    ELSE Emit(c, <<"copy", dst, src>>)

CompareZero(c, v) == Emit(c, IF InRegister(c, v) THEN <<"cmpImm", c.place[v], 0>>
                             ELSE <<"cmpMem", v>>)

-----------------------------------------------------------------------------
(* Leaving compiled code                                                   *)

Held(c) == SelectSeq(c.order, LAMBDA v : InRegister(c, v))

ResetRegAlloc(c) == [Spill(c, Held(c)) EXCEPT !.alloc = {}]

MNoReload(c, before) == [c EXCEPT !.place = before.place]

(* After a checkpoint every vreg is back where it was, but alloc does not  *)
(* know the registers.                                                     *)
Reload(c, before) ==
    [Emits(c, LET held == Held(before)
              IN  [k \in DOMAIN held |-> <<"load", before.place[held[k]], held[k]>>])
        EXCEPT !.place = before.place]

CreateCheckpoint(c) == [c EXCEPT !.checkpoints = Append(@, Len(c.blocks))]

(* createLeave(): without a checkpoint the code after it is compiled as if *)
(* the registers had not been spilled.                                     *)
LeaveAndReturn(c, reason, detail, id) ==
    Emits(CreateCheckpoint(c), <<<<"leave", reason, detail, id>>, <<"checkpoint", id>>>>)
LeaveForGood(c, reason, detail) ==
    [Emit(ResetRegAlloc(c), <<"leave", reason, detail, 0>>) EXCEPT
        !.place = c.place, !.alloc = c.alloc]
Leave(c, reason, detail, generateCheckpoint) ==
    IF generateCheckpoint
    THEN Reload(LeaveAndReturn(ResetRegAlloc(c), reason, detail, Len(c.checkpoints)), c)
    ELSE LeaveForGood(c, reason, detail)

CreateError(c, type) == LeaveForGood(c, type, 0)

NewLabels(c, n) == [c EXCEPT !.labels = @ + n]

(* withArrayGuard(), before and after what it guards: the errors are       *)
(* compiled last, and with the places the body has left.  l is the first   *)
(* of its three labels.                                                    *)
TestNull(c, l) == Emits(c, <<<<"cmpImm", c.got, 0>>, <<"skip", "JEQ", l>>>>)
TestKind(c, l) == Emits(c, <<<<"kind", c.got>>, <<"skip", "JNE", l + 1>>>>)
GuardArray(c, object, l) ==
    TestKind(Assign(TestNull(Assign(NewLabels(c, 3), object), l), object), l)
EndGuard(c, l) ==
    Emit(CreateError(Emit(CreateError(Emits(c, <<<<"skip", "JMP", l + 2>>, <<"bind", l>>>>),
                                      "NULL_REFERENCE"),
                          <<"bind", l + 1>>),
                     "INVALID_OBJECT_KIND"),
         <<"bind", l + 2>>)

(* createPlatformCall(), of the one function it is used for, the size of   *)
(* an array's elements; the result goes to the last temporary.  Registers  *)
(* saved around it are restored after the result is in one of them.        *)
Saved(c) == SelectSeq(GPRegisters, LAMBDA r : r \in c.alloc \intersect Volatile)
PushAll(c) == Emits(c, LET saved == Saved(c) IN [k \in DOMAIN saved |-> <<"push", saved[k]>>])
Call(c, object) == EndTemp(Emits(GetValue(c, object, Last(c.temps)),
                                 <<<<"type", ArgumentRegister, Last(c.temps)>>, <<"call">>>>))
PopAll(c, saved, result) ==
    Emits(Weak(c, result \in Range(saved), "popped"),
          <<<<"mov", result, ReturnRegister>>>>
             \o [k \in DOMAIN saved |-> <<"pop", Reverse(saved)[k]>>])
CallAround(c, object, result) == PopAll(Call(Temp(PushAll(c)), object), Saved(c), result)
ElementSize(c, object) ==
    CallAround(Spill(c, SelectSeq(c.order, LAMBDA v : c.place[v] \in Volatile)),
               object, Last(c.temps))

(* createArrayLoad(): assigning the operands emits loads on the first of   *)
(* four paths only.                                                        *)
TestSize(c, size, l) ==
    Emits(c, <<<<"cmpImm", size, 1>>, <<"skip", "JEQ", l>>,
               <<"cmpImm", size, 2>>, <<"skip", "JEQ", l + 1>>,
               <<"cmpImm", size, 4>>, <<"skip", "JEQ", l + 2>>>>)
LoadBySize(c, dst, l) ==
    LET Path(n) == <<"element", dst, Left(c), Right(c), n>>
    IN  Emits(c, <<Path(8), <<"skip", "JMP", l + 3>>,
                   <<"bind", l>>, Path(1), <<"skip", "JMP", l + 3>>,
                   <<"bind", l + 1>>, Path(2), <<"skip", "JMP", l + 3>>,
                   <<"bind", l + 2>>, Path(4), <<"bind", l + 3>>>>)
ArrayLoad(c, object, index, size, dst) ==
    LET missed == ~InRegister(c, object) \/ ~InRegister(c, index)
        tested == TestSize(NewLabels(c, 4), size, c.labels)
    IN  LoadBySize(AssignBoth(Weak(tested, missed, "unloaded"), object, index), dst, c.labels)

-----------------------------------------------------------------------------
(* The instruction compilers.  i is the instruction's index, from 1.       *)

Cancelled == {"MOV_RANGE", "SWAP", "LOAD_CONST", "SUB", "MUL", "SDIV", "UDIV", "SMOD", "UMOD",
    "NEG", "ABS", "AND", "OR", "XOR", "NOT", "SHL", "SHR", "SAR", "TR8", "TR16", "TR32",
    "SEX8", "SEX16", "SEX32", "ZEX8", "ZEX16", "ZEX32", "UCMP", "DEC", "OBJKIND", "ISKIND",
    "ARRAYSET", "STRLENGTH", "STRGET", "STR2ARRAY", "ISFUTUREREADY", "POLL"}

CompileLoad(c, ins) ==
    LET null == ins.op = "LOAD_NULL"
    IN  SetImmediate(SetTag(GetVReg(c, ins.a), ins.a, null), ins.a, IF null THEN 0 ELSE ins.imm)

(* The sum is made in a temporary.                                         *)
AddTo(c, r, v) == Emit(c, IF InRegister(c, v) THEN <<"add", r, c.place[v]>> ELSE <<"addMem", r, v>>)
AddVRegs(c, ins) == EndTemp(SetValue(AddTo(GetValue(c, ins.b, T(c, 1)), T(c, 1), ins.c),
                                     ins.a, T(c, 1)))
CompileADD(c, ins) == AddVRegs(Temp(Three(c, ins)), ins)

(* compareVReg() takes both operands into registers; the temporaries may   *)
(* spill them, after the comparison.                                       *)
Choose3(c) == Emits(c, <<<<"movImm", T(c, 1), 0>>, <<"movImm", T(c, 2), Wrap(-1)>>,
                         <<"movImm", T(c, 3), 1>>, <<"cmov", "JLT", T(c, 1), T(c, 2)>>,
                         <<"cmov", "JGT", T(c, 1), T(c, 3)>>>>)
CompareVReg(c, v, w) == LET Cmp(d) == Emit(d, <<"cmp", Left(d), Right(d)>>)
                        IN  Cmp(AssignBoth(c, v, w))
SetTaggedResult(c, v) == EndTemps(SetValue(SetTag(c, v, FALSE), v, T(c, 1)))
CompileICMP(c, ins) ==
    SetTaggedResult(Choose3(Temp(Temp(Temp(CompareVReg(Three(c, ins), ins.b, ins.c))))), ins.a)

StepVReg(c, ins) == Emit(c, IF InRegister(c, ins.a) THEN <<"addImm", c.place[ins.a], ins.imm>>
                            ELSE <<"addToMem", ins.a, ins.imm>>)
CompileINC(c, ins) == StepVReg(GetVReg(c, ins.a), ins)

(* A branch goes to a label; the places there are those the instruction    *)
(* before the label left, whatever they are at the branch.                 *)
Branch(c, ins, i) ==
    [Emit(c, <<"jump", ins.op, i + ins.imm>>) EXCEPT
        !.jumps = @ \union {[to |-> i + ins.imm, place |-> c.place]}]

CompileJump(c, ins, i) ==
    Branch(IF ins.op = "JMP" THEN c ELSE CompareZero(GetVReg(c, ins.a), ins.a), ins, i)

GetLength(c, dst) == EndTemp(SetValue(Emit(c, <<"length", T(c, 1), c.got>>), dst, T(c, 1)))
CompileARRAYLENGTH(c, ins) ==
    EndGuard(GetLength(Assign(Temp(GuardArray(Two(c, ins), ins.b, c.labels)), ins.b), ins.a),
             c.labels)

(* Three temporaries: the size of an element, the element, its tag.        *)
LoadElement(c, ins)  == Temp(ArrayLoad(c, ins.b, ins.c, T(c, 1), T(c, 2)))
FindIsRef(c, object) == Assign(Emit(c, <<"movImm", T(c, 3), 0>>), object)
SetElement(c, dst)   ==
    EndTemps(SetValue(Emits(c, <<<<"isReference", T(c, 3), c.got>>, <<"storeTag", dst, T(c, 3)>>>>),
                      dst, T(c, 2)))
GetElement(c, ins) ==
    SetElement(FindIsRef(LoadElement(Temp(ElementSize(Temp(c), ins.b)), ins), ins.b), ins.a)
CompileARRAYGET(c, ins) ==
    EndGuard(GetElement(GuardArray(Three(c, ins), ins.b, c.labels), ins), c.labels)

CompileInstruction(c, ins, i) ==
    CASE ins.op = "NOP"                        -> c
      [] ins.op = "MOV"                        -> MoveVReg(Two(c, ins), ins.a, ins.b)
      [] ins.op \in {"LOAD_IMM", "LOAD_NULL"}  -> CompileLoad(c, ins)
      [] ins.op = "ADD"                        -> CompileADD(c, ins)
      [] ins.op = "ICMP"                       -> CompileICMP(c, ins)
      [] ins.op = "INC"                        -> CompileINC(c, ins)
      [] ins.op \in Jumps                      -> CompileJump(c, ins, i)
      [] ins.op = "ARRAYLENGTH"                -> CompileARRAYLENGTH(c, ins)
      [] ins.op = "ARRAYGET"                   -> CompileARRAYGET(c, ins)
      [] ins.op = "CALL"                       -> Leave(c, "Call", ins.a, TRUE)
      [] ins.op = "RETURN"                     -> Leave(c, "Return", ins.a, FALSE)
      [] ins.op = "YIELD"                      -> Leave(c, "Yield", 0, TRUE)

NoUnit == [blocks |-> <<>>, starts |-> <<>>, checkpoints |-> <<>>, unsound |-> {}]

(* compile(): the blocks in order, each behind its label; nothing when an  *)
(* instruction cannot be compiled.  A jump whose label expects another     *)
(* placement than the jump has joins two that disagree.                    *)
Joins(c) == \E j \in c.jumps : c.starts[j.to] # j.place
Unit(c)  == [blocks |-> c.blocks, starts |-> c.starts, checkpoints |-> c.checkpoints,
             unsound |-> Weak(c, Joins(c), "join").unsound]
Compile(instructions, leftFirst) ==
    LET begin(c) == [c EXCEPT !.blocks = Append(@, <<>>), !.starts = Append(@, c.place)]
        after[i \in 0 .. Len(instructions)] ==
            IF i = 0 THEN Fresh(leftFirst)
            ELSE CompileInstruction(begin(after[i - 1]), instructions[i], i)
    IN  IF \E i \in DOMAIN instructions : instructions[i].op \in Cancelled THEN NoUnit
        ELSE Unit(after[Len(instructions)])

-----------------------------------------------------------------------------
(* The processor: the machine registers, the frame, the last comparison,   *)
(* the stack, the label a jump inside a block goes to, and what ended the  *)
(* execution of a block.                                                   *)

Enter(frame, checkpoint) ==
    [gp |-> [r \in Machine |-> Junk], frame |-> frame, sign |-> 0, stack |-> <<>>,
     goto |-> checkpoint, jumped |-> 0, left |-> <<>>]

(* What an immediate of 32 bits becomes in 64.                             *)
Immediate(w) == Wrap(SignedAs(w, IntBits))

SetGP(m, r, w)    == [m EXCEPT !.gp = (r :> w) @@ @]
SetFrame(m, v, w) == [m EXCEPT !.frame[v].ul = w]
Holds(m, cond)    == Taken(cond, Wrap(m.sign))

(* What an address that is no object's leads to: nothing that is modelled. *)
NoObject == [kind |-> "Newborn", type |-> "Handle", length |-> Junk, bytes |-> <<>>]
ObjectAt(m, r) == IF m.gp[r] \in DOMAIN Heap THEN Heap[m.gp[r]] ELSE NoObject

TypeCode(t) == CHOOSE k \in DOMAIN Types : Types[k] = t
SizeOfCode(code) == IF code \in DOMAIN Types THEN GetPrimitiveSizeForType(Types[code]) ELSE 0

ReadElement(bytes, index, size) ==
    IF (index + 1) * size <= Len(bytes) THEN BytesAt(bytes, index * size, size) ELSE Junk

Execute(m, o) ==
    CASE o[1] = "load"     -> SetGP(m, o[2], m.frame[o[3]].ul)
      [] o[1] = "store"    -> SetFrame(m, o[2], m.gp[o[3]])
      [] o[1] = "storeImm" -> SetFrame(m, o[2], Immediate(o[3]))
      [] o[1] = "copy"     -> [m EXCEPT !.frame[o[2]] = m.frame[o[3]]]
      [] o[1] = "tag"      -> [m EXCEPT !.frame[o[2]].isObject = o[3]]
      [] o[1] = "loadTag"  -> SetGP(m, o[2], IF m.frame[o[3]].isObject THEN 1 ELSE 0)
      [] o[1] = "storeTag" -> [m EXCEPT !.frame[o[2]].isObject = m.gp[o[3]] # 0]
      [] o[1] = "mov"      -> SetGP(m, o[2], m.gp[o[3]])
      [] o[1] = "movImm"   -> SetGP(m, o[2], o[3])
      [] o[1] = "cmov"     -> IF Holds(m, o[2]) THEN SetGP(m, o[3], m.gp[o[4]]) ELSE m
      [] o[1] = "add"      -> SetGP(m, o[2], Wrap(m.gp[o[2]] + m.gp[o[3]]))
      [] o[1] = "addMem"   -> SetGP(m, o[2], Wrap(m.gp[o[2]] + m.frame[o[3]].ul))
      [] o[1] = "addImm"   -> SetGP(m, o[2], Wrap(m.gp[o[2]] + Immediate(o[3])))
      [] o[1] = "addToMem" -> SetFrame(m, o[2], Wrap(m.frame[o[2]].ul + Immediate(o[3])))
      [] o[1] = "cmp"      -> [m EXCEPT !.sign = Sign(Signed(m.gp[o[2]]) - Signed(m.gp[o[3]]))]
      [] o[1] = "cmpImm"   -> [m EXCEPT !.sign = Sign(Signed(m.gp[o[2]]) - o[3])]
      [] o[1] = "cmpMem"   -> [m EXCEPT !.sign = Sign(Signed(m.frame[o[2]].ul))]
      [] o[1] = "kind"     -> [m EXCEPT !.sign =
                                 IF ObjectAt(m, o[2]).kind = "Array" THEN 0 ELSE 1]
      [] o[1] = "length"   -> SetGP(m, o[2], ObjectAt(m, o[3]).length)
      [] o[1] = "type"     -> SetGP(m, o[2], TypeCode(ObjectAt(m, o[3]).type))
      [] o[1] = "call"     -> [m EXCEPT !.gp = [r \in Machine |->
                                 IF r = ReturnRegister THEN SizeOfCode(m.gp[ArgumentRegister])
                                 ELSE IF r \in Volatile THEN Junk ELSE m.gp[r]]]
      [] o[1] = "element"  -> SetGP(m, o[2], ReadElement(ObjectAt(m, o[3]).bytes, m.gp[o[4]], o[5]))
      [] o[1] = "isReference" ->
             SetGP(m, o[2], IF ObjectAt(m, o[3]).type = "Reference" THEN 1 ELSE 0)
      [] o[1] = "push"     -> [m EXCEPT !.stack = <<m.gp[o[2]]>> \o @]
      [] o[1] = "pop"      -> [SetGP(m, o[2], Head(m.stack)) EXCEPT !.stack = Tail(@)]
      [] o[1] = "skip"     -> IF Holds(m, o[2]) THEN [m EXCEPT !.goto = <<"bind", o[3]>>] ELSE m
      [] o[1] = "jump"     -> IF Holds(m, o[2]) THEN [m EXCEPT !.jumped = o[3]] ELSE m
      [] o[1] = "leave"    -> [m EXCEPT !.left = Tail(o)]
      [] o[1] \in {"bind", "checkpoint"} -> m

(* A block, from its label or from a checkpoint in it, up to a jump, a     *)
(* leave or its end.                                                       *)
RunBlock(block, m) ==
    LET Do(n, o) == IF n.left # <<>> \/ n.jumped # 0 THEN n
                       ELSE IF n.goto = <<>> THEN Execute(n, o)
                       ELSE IF o[1] \in {"bind", "checkpoint"} /\ n.goto = o
                       THEN [n EXCEPT !.goto = <<>>] ELSE n
        after[k \in 0 .. Len(block)] ==
            IF k = 0 THEN m ELSE Do(after[k - 1], block[k])
    IN  after[Len(block)]

-----------------------------------------------------------------------------
(* The lock-step run                                                       *)

(* Trampoline(): what the scheduler is told; the register a call answers   *)
(* to, the word returned.                                                  *)
Trampoline(m) ==
    CASE m.left[1] = "Return" -> <<"Return", m.frame[m.left[2]].ul>>
      [] m.left[1] = "Call"   -> <<"Call", m.left[2]>>
      [] OTHER                -> <<m.left[1], 0>>

(* The same of the interpreter.                                            *)
Message(message, ins, frame) ==
    CASE message = "Return" -> <<"Return", frame[ins.a].ul>>
      [] message = "Call"   -> <<"Call", ins.a>>
      [] OTHER              -> <<message, 0>>

(* The word of a register when compiled code has reached a label.          *)
View(v) == LET place == unit.starts[at][v]
           IN  IF place = Memory THEN native.frame[v].ul ELSE native.gp[place]

Agrees ==
    CASE phase = "cold"                              -> TRUE
      [] phase \in {"interpreted", "Undefined"}      -> TRUE
      [] phase = "running" -> /\ native.left = <<>>
                              /\ at = pc
                              /\ \A v \in VRegs : View(v) = regs[v].ul
      [] OTHER -> /\ native.left # <<>>
                  /\ Trampoline(native) = Message(phase, program[pc], regs)
                  /\ phase \in {"Call", "Yield"} =>
                        \A v \in VRegs : native.frame[v].ul = regs[v].ul

Init == /\ program \in Programs /\ unit = NoUnit /\ pc = 1 /\ at = 1 /\ phase = "cold"
        /\ regs \in Inputs /\ native = Enter(regs, <<>>)

(* A compiler that gives up leaves the function to the interpreter.        *)
CompileFunction ==
    /\ phase = "cold"
    /\ \E leftFirst \in BOOLEAN : unit' = Compile(program, leftFirst)
    /\ phase' = IF unit' = NoUnit THEN "interpreted" ELSE "running"
    /\ UNCHANGED <<program, pc, regs, native, at>>

(* One instruction of both.  Past a disagreement there is nothing to       *)
(* follow.  (pc stays at the instruction that stops.)                      *)
Run ==
    /\ phase = "running" /\ Agrees
    /\ \E out \in {Interpret(program[pc], regs, Heap, <<>>, 0)} :
          /\ regs' = out.regs
          /\ phase' = IF out.message \in {"Continue", "Branch"} THEN "running" ELSE out.message
          /\ pc' = CASE out.message = "Continue" -> pc + 1
                     [] out.message = "Branch"   -> pc + program[pc].imm
                     [] OTHER                    -> pc
    /\ \E done \in {RunBlock(unit.blocks[at], native)} :
          /\ at' = IF done.jumped # 0 THEN done.jumped
                   ELSE IF done.left # <<>> THEN at ELSE at + 1
          /\ native' = [done EXCEPT !.jumped = 0]
    /\ UNCHANGED <<program, unit>>

(* The task goes on after a call or a yield: the scheduler has written the *)
(* callee's value to the frame, and the code is entered at its checkpoint. *)
Resume ==
    /\ phase \in {"Call", "Yield"} /\ Agrees
    /\ \E value \in IF phase = "Call" THEN CallResults ELSE {regs[program[pc].a]} :
          LET id    == native.left[3]
              block == unit.checkpoints[id + 1]
              frame == [native.frame EXCEPT
                          ![native.left[2]] = IF phase = "Call" THEN value ELSE @]
          IN  /\ regs' = [regs EXCEPT ![program[pc].a] = value]
              /\ native' = RunBlock(unit.blocks[block], Enter(frame, <<"checkpoint", id>>))
              /\ at' = block + 1
    /\ pc' = pc + 1 /\ phase' = "running"
    /\ UNCHANGED <<program, unit>>

Next == CompileFunction \/ Run \/ Resume

Spec == Init /\ [][Next]_vars

-----------------------------------------------------------------------------
(* Compiled code does what the interpreter does: the same branches, the    *)
(* same words in the registers wherever they live, the same messages to    *)
(* the scheduler, and a frame that is up to date whenever it leaves - so   *)
(* that a call may read its arguments there, and a resumption finds them   *)
(* again.  It holds for every compilation that met no known weakness.      *)
CompiledAgrees == unit.unsound = {} => Agrees

(* The collector finds every object through the frame of compiled code     *)
(* that it finds through the interpreter's, and takes no word for a        *)
(* reference that the interpreter does not tag: the tags in the frame are  *)
(* written at once, though the words may still be in machine registers.    *)
RootsTagged ==
    (unit.unsound = {} /\ phase \in {"running", "Call", "Yield"}) =>
        \A v \in VRegs :
            /\ native.frame[v].isObject => regs[v].isObject
            /\ regs[v].isObject /\ regs[v].ul \in DOMAIN Heap => native.frame[v].isObject
=============================================================================
