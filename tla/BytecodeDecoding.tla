-------------------------- MODULE BytecodeDecoding --------------------------
(***************************************************************************)
(* How the linker turns the bytecode of a function into an array of        *)
(* instructions: FetchInstruction() and DecodeInstructionCount() of        *)
(* module/instruction.cpp, DecodeArgs(), DecodeInstructions() and          *)
(* LinkFunctions() of linker.cpp.                                          *)
(*                                                                         *)
(* A function's bytecode is a sequence of bytes of CodeBits bits (source:  *)
(* 8) at positions from 1; an instruction's position is an index from 1.   *)
(***************************************************************************)
EXTENDS Instructions

CONSTANTS
    CodeBits,   \* bits of a byte of code
    Meaning,    \* the instruction or prefix of a byte, "none" for neither
    Missing     \* the instructions the table of interpreters has no entry for

ASSUME CodeAssumption == /\ CodeBits \in Nat \ {0}
                         /\ DOMAIN Meaning = 0 .. (2^CodeBits - 1)

(* An operator named M... is a mutant of a definition below it, a bug the  *)
(* code could have had; no specification uses it.                          *)

PrefixCodes == {"WIDE_OPERAND0", "WIDE_OPERAND1", "WIDE_OPERAND2", "WIDE_OPERAND3",
                "HUGE_IMMEDIATE", "GIGANTIC_IMMEDIATE"}

-----------------------------------------------------------------------------
(* The operands DecodeArgs() reads, in order: the field they go to, whether *)
(* they are a number with a sign, the prefix that widens them to two bytes, *)
(* and whether the prefixes for long immediates apply.                      *)

Operand0(field, signed, wide, long) ==
    [field |-> field, signed |-> signed, wide |-> wide, long |-> long]
Plain(field, wide)  == Operand0(field, FALSE, wide, FALSE)
Byte(signed)        == Operand0("imm", signed, "none", FALSE)
Number(signed, wide) == Operand0("imm", signed, wide, TRUE)

First  == Plain("a", "WIDE_OPERAND0")
Second == Plain("b", "WIDE_OPERAND1")
Third  == Plain("c", "WIDE_OPERAND2")
Fourth == Plain("imm", "WIDE_OPERAND3")

MoveOperands(op) ==
    CASE op \in {"MOV", "SWAP", "LOAD_CONST"} -> <<First, Second>>
      [] op = "MOV_RANGE" -> <<First, Second, Plain("imm", "WIDE_OPERAND2")>>
      [] op = "LOAD_IMM"  -> <<First, Number(FALSE, "WIDE_OPERAND1")>>
      [] op = "LOAD_NULL" -> <<First>>

(* NOT has a third operand, which its handler does not use.                *)
ComputeOperands(op) ==
    IF op \in {"NEG", "ABS"} \union Truncations \union Extensions THEN <<First, Second>>
    ELSE <<First, Second, Third>>

(* Of the instructions on floats and the comparison of strings.            *)
FloatConversions == {"I2F", "U2F", "I2D", "U2D", "F2I", "F2U", "D2I", "D2U", "F2D", "D2F"}
FloatUnaries     == {"FNEG", "FABS"} \union FloatConversions
FloatBinaries    == {"FADD", "FSUB", "FMUL", "FDIV", "FCMP", "STRCMP"}

FloatOperands(op) == IF op \in FloatUnaries THEN <<First, Second>>
                     ELSE <<First, Second, Third>>

StepOperands == <<First, Number(TRUE, "WIDE_OPERAND1")>>

JumpOperands(op) == IF op = "JMP" THEN <<Number(TRUE, "WIDE_OPERAND0")>>
                    ELSE <<First, Number(TRUE, "WIDE_OPERAND1")>>

ObjectOperands(op) ==
    CASE op \in {"NEWARRAY", "ISKIND"} -> <<First, Second, Byte(FALSE)>>
      [] op = "NEWFUTURE" -> <<First>>
      [] op \in {"INSTANCEOF", "GETFIELD", "SETFIELD", "DISPATCHMETHOD", "ARRAYGET", "ARRAYSET",
                 "STRGET", "POLL"} -> <<First, Second, Third>>
      [] OTHER -> <<First, Second>>

Objects == {"NEWINSTANCE", "NEWARRAY", "NEWSTRING", "NEWFUTURE", "OBJKIND", "ISKIND",
            "INSTANCEOF", "GETFIELD", "SETFIELD", "DISPATCHMETHOD", "GETCLASS", "ARRAYLENGTH",
            "ARRAYGET", "ARRAYSET", "STRLENGTH", "STRGET", "STR2ARRAY", "RESOLVE", "CANCEL",
            "ISFUTUREREADY", "POLL", "AWAIT"}

CallOperands(op) ==
    CASE op \in {"TAIL_CALL", "TAIL_CALL_DYN"} -> <<First, Second>>
      [] op \in {"CALLAP", "CALLAP_DYN"}   -> <<First, Second, Third, Fourth>>
      [] op \in {"CALLARP", "CALLARP_DYN"} -> <<First, Byte(TRUE), Second, Third>>
      [] OTHER -> <<First, Second, Third>>

Calls == {"CALL", "TAIL_CALL", "CALLA", "CALLAP", "CALLARP",
          "CALL_DYN", "TAIL_CALL_DYN", "CALLA_DYN", "CALLAP_DYN", "CALLARP_DYN"}

(* NOP, YIELD, what is reserved for a switch and what is not an            *)
(* instruction have no operands.                                           *)
Operands(op) ==
    CASE op = "RETURN"           -> <<First>>
      [] op \in Moves            -> MoveOperands(op)
      [] op \in Computations     -> ComputeOperands(op)
      [] op \in Steps            -> StepOperands
      [] op \in Jumps            -> JumpOperands(op)
      [] op \in Calls            -> CallOperands(op)
      [] op \in Objects          -> ObjectOperands(op)
      [] op \in FloatUnaries \union FloatBinaries -> FloatOperands(op)
      [] OTHER                   -> <<>>

(* readRegister() and its kin: the bytes of an operand.                    *)
Width(operand, prefixes) ==
    CASE operand.long /\ "GIGANTIC_IMMEDIATE" \in prefixes -> 8
      [] operand.long /\ "GIGANTIC_IMMEDIATE" \notin prefixes /\ "HUGE_IMMEDIATE" \in prefixes -> 4
      [] OTHER -> IF operand.wide \in prefixes THEN 2 ELSE 1

(* The bytes of the operands before the k-th.                              *)
WidthBefore(operands, prefixes, k) ==
    MapThenSumSet(LAMBDA j : Width(operands[j], prefixes), 1 .. (k - 1))

(* opcodeutils::GetFixedLength(): all of the instruction, or 0 for what is *)
(* none or has no fixed length.                                            *)
GetFixedLength(op, prefixes) ==
    IF op \in PrefixCodes \union {"none"} THEN 0
    ELSE Cardinality(prefixes) + 1 + WidthBefore(Operands(op), prefixes, Len(Operands(op)) + 1)

-----------------------------------------------------------------------------
(* FetchInstruction(): prefixes are taken until another byte or the last.  *)
OpcodeAt(code, at) ==
    Min({k \in at .. Len(code) : Meaning[code[k]] \notin PrefixCodes \/ k = Len(code)})

PrefixesOf(code, at) == {Meaning[code[k]] : k \in at .. (OpcodeAt(code, at) - 1)}

FixedLength(code, at) == GetFixedLength(Meaning[code[OpcodeAt(code, at)]], PrefixesOf(code, at))

CanFetch(code, at) == /\ at <= Len(code)
                      /\ FixedLength(code, at) \in 1 .. (Len(code) - at + 1)

(* DecodeInstructionCount() and the second walk through the code: where    *)
(* instructions start.  The walk ends at the first that cannot be fetched. *)
InstStart(code) ==
    LET walk[n \in 0 .. Len(code)] ==
            IF n = 0 THEN <<1>>
            ELSE LET last == walk[n - 1][Len(walk[n - 1])]
                 IN  IF CanFetch(code, last) THEN Append(walk[n - 1], last + FixedLength(code, last))
                     ELSE walk[n - 1]
    IN  SubSeq(walk[Len(code)], 1, Len(walk[Len(code)]) - 1)

InstEnd(code, start) == start + FixedLength(code, start)

(* readLE(), of bytes from position at.                                    *)
ReadLE(code, at, width) ==
    MapThenSumSet(LAMBDA k : (IF at + k <= Len(code) THEN code[at + k] ELSE 0) * 2^(CodeBits * k),
                  0 .. (width - 1))

ReadOperand(code, operand, at, width) ==
    IF operand.signed THEN SignedAs(ReadLE(code, at, width), CodeBits * width)
    ELSE ReadLE(code, at, width)

(* DecodeArgs(): the fields not read are 0.                                *)
DecodeArgs(code, start) ==
    LET op       == Meaning[code[OpcodeAt(code, start)]]
        prefixes == PrefixesOf(code, start)
        from     == OpcodeAt(code, start) + 1
        read(f)  == {k \in DOMAIN Operands(op) : Operands(op)[k].field = f}
        value(k) == ReadOperand(code, Operands(op)[k],
                                from + WidthBefore(Operands(op), prefixes, k),
                                Width(Operands(op)[k], prefixes))
    IN  [f \in {"a", "b", "c", "imm"} |->
            IF read(f) = {} THEN 0 ELSE value(CHOOSE k \in read(f) : TRUE)]

(* Its failure: an operand that does not fit in front of the end.  A prefix *)
(* given more than once counts once in the length.  Once the arguments      *)
(* begin behind their end, has() subtracts below zero and refuses nothing.  *)
ArgsFit(code, start) ==
    LET op   == Meaning[code[OpcodeAt(code, start)]]
        room == InstEnd(code, start) - (OpcodeAt(code, start) + 1)
    IN  \/ room < 0
        \/ WidthBefore(Operands(op), PrefixesOf(code, start), Len(Operands(op)) + 1) <= room

Accepted(code, start) == /\ Meaning[code[OpcodeAt(code, start)]] \notin Missing
                         /\ ArgsFit(code, start)

(* The last loop of DecodeInstructions(): the offset of a branch, in bytes *)
(* from its end, becomes a distance in instructions.                       *)
MTargetFromStart(code, starts, i) ==
    {t \in DOMAIN starts : starts[t] = starts[i] + DecodeArgs(code, starts[i]).imm}

TargetsOf(code, starts, i) ==
    {t \in DOMAIN starts : starts[t] = InstEnd(code, starts[i]) + DecodeArgs(code, starts[i]).imm}

OpOf(code, start) == Meaning[code[OpcodeAt(code, start)]]

(* The code is given up, and nullptr returned.                             *)
Rejected(code, starts) ==
    \E i \in DOMAIN starts :
        \/ ~Accepted(code, starts[i])
        \/ OpOf(code, starts[i]) \in Jumps /\ TargetsOf(code, starts, i) = {}

Patched(code, starts, i) ==
    IF OpOf(code, starts[i]) \in Jumps
    THEN [DecodeArgs(code, starts[i]) EXCEPT !.imm = CHOOSE n \in -Len(starts) .. Len(starts) :
                                                i + n \in TargetsOf(code, starts, i)]
    ELSE DecodeArgs(code, starts[i])

Instruction(code, starts, i) ==
    [op |-> OpOf(code, starts[i]), args |-> Patched(code, starts, i)]

DecodeInstructions(code) ==
    LET decode(starts) == IF Rejected(code, starts) THEN <<>>
                          ELSE [i \in DOMAIN starts |-> Instruction(code, starts, i)]
    IN  decode(InstStart(code))

-----------------------------------------------------------------------------
(* LinkFunctions(), one function: code that was rejected is not an error.  *)
FunctionKind(intrinsic, native) ==
    IF intrinsic THEN "Intrinsic" ELSE IF native THEN "Native" ELSE "Normal"

EntryPoint(kind, aot, autoYielding, implemented) ==
    CASE kind = "Normal" -> IF aot THEN "AOTCompileTrap"
                            ELSE IF autoYielding THEN "AutoYieldingBytecodeInterpreter"
                            ELSE "BytecodeInterpreter"
      [] kind = "Native" -> IF implemented THEN "FunctionTrampoline" ELSE "none"
      [] OTHER           -> "intrinsic"

LinkFunction(code, kind, aot, autoYielding, implemented) ==
    [entry |-> EntryPoint(kind, aot, autoYielding, implemented),
     instructions |-> IF kind = "Native" THEN <<>> ELSE DecodeInstructions(code)]

(* The interpreters' loops: what a branch adds to the instruction pointer. *)
Landing(entry, i, imm) == IF entry = "BytecodeInterpreter" THEN i + imm + 1 ELSE i + imm
=============================================================================
