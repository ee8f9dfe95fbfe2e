---------------------------- MODULE Instructions ----------------------------
(***************************************************************************)
(* What the bytecode instructions do to the registers of a frame and to    *)
(* the objects they name: the handlers of executor/interpreter.cpp with    *)
(* the arithmetic of util/safe_math.h and the typed accesses of fields and *)
(* array elements.  Instructions that schedule, await or allocate are in   *)
(* Scheduler.tla and Nursery.tla; floating-point arithmetic is left out,   *)
(* but for its conversion to integers, which the code writes out itself.   *)
(*                                                                         *)
(* A word has 8 bytes of ByteBits bits.  Source: 8; TLC also runs with 1,  *)
(* where a byte is a bit and every width keeps its ratio to the others.    *)
(***************************************************************************)
EXTENDS Integers, Sequences, FiniteSetsExt

CONSTANT ByteBits    \* bits of a byte

ASSUME ByteBitsAssumption == ByteBits \in Nat \ {0}

LongBits  == 8 * ByteBits
IntBits   == 4 * ByteBits
ShortBits == 2 * ByteBits

(* An operator named M... is a mutant of a definition below it, a bug the  *)
(* code could have had; no specification uses it.                          *)

Word == 0 .. (2^LongBits - 1)

(* The union in Value is read at a narrower type: its low bits.            *)
Low(w, bits) == w % 2^bits

(* A write through a narrower member of the union leaves the rest alone.   *)
WithLow(old, w, bits) == (old - Low(old, bits)) + Low(w, bits)

(* The bits of w read as a signed integer of that width.                   *)
SignedAs(w, bits) == IF Low(w, bits) < 2^(bits - 1) THEN Low(w, bits)
                     ELSE Low(w, bits) - 2^bits
Signed(w) == SignedAs(w, LongBits)
Wrap(n)   == n % 2^LongBits

Bit(w, i)  == (w \div 2^i) % 2
Position  == 0 .. (LongBits - 1)
Bits(set) == MapThenSumSet(LAMBDA i : 2^i, set)

-----------------------------------------------------------------------------
(* safe_math.h                                                             *)

LogicalShiftLeft(w, shift)  == Wrap(w * 2^(shift % LongBits))
LogicalShiftRight(w, shift) == w \div 2^(shift % LongBits)

MWholeShift(w, shift) == w \div 2^(shift % LongBits)

(* ArithmeticShiftRight(): the sign is moved to the top bit and down by    *)
(* shift - 1, so that it fills one bit and not all the bits shifted in.  A *)
(* shift of 0 shifts by 2^32 - 1: undefined, and on x86 a shift by 63.     *)
ArithmeticShiftRight(w, shift) ==
    LET by      == shift % LongBits
        shifted == w \div 2^by
        extend  == LET down == IF by = 0 THEN LongBits - 1 ELSE by - 1
                   IN  (Bit(w, LongBits - 1) * 2^(LongBits - 1)) \div 2^down
    IN  Bits({i \in Position : Bit(shifted, i) = 1 \/ Bit(extend, i) = 1})

(* A floating-point number: sign, exponent and fraction fields.            *)
Format(expBits, fracBits) == [exp |-> expBits, frac |-> fracBits]
Bias(format) == 2^(format.exp - 1) - 1

MinInt(signed) == IF signed THEN -(2^(LongBits - 1)) ELSE 0
MaxInt(signed) == IF signed THEN 2^(LongBits - 1) - 1 ELSE 2^LongBits - 1

(* FPToInt(): a mantissa shifted left drops its high bits before the test  *)
(* for saturation; infinities saturate, NaN and subnormals give 0.         *)
FPToInt(format, fp, signed) ==
    LET saturated == IF fp.sign = 1 THEN MinInt(signed) ELSE MaxInt(signed)
        mant      == 2^format.frac + fp.frac
        shift     == fp.exp - Bias(format) - format.frac
        absValue  == IF shift >= 0 THEN Wrap(mant * 2^shift) ELSE mant \div 2^(-shift)
        clamped   == IF fp.sign = 1
                     THEN IF absValue > -MinInt(signed) THEN MinInt(signed) ELSE -absValue
                     ELSE IF absValue > MaxInt(signed) THEN MaxInt(signed) ELSE absValue
    IN  CASE fp.exp = 2^format.exp - 1 -> IF fp.frac # 0 THEN 0 ELSE saturated
          [] fp.exp = 0                -> 0
          [] shift > LongBits - 1      -> saturated
          [] shift < -(LongBits - 1)   -> 0
          [] OTHER                     -> clamped

-----------------------------------------------------------------------------
(* The instructions that compute: from the old destination and two         *)
(* operands, the new bits of the destination.                              *)

(* C++ division truncates; its remainder has the sign of the dividend.     *)
Magnitude(n) == IF n < 0 THEN -n ELSE n
Quotient(n, d)  == LET q == Magnitude(n) \div Magnitude(d)
                   IN  IF (n < 0) = (d < 0) THEN q ELSE -q
Remainder(n, d) == n - d * Quotient(n, d)

Divisions == {"SDIV", "UDIV", "SMOD", "UMOD"}

(* The code divides unchecked: by zero, or the least integer by -1, the    *)
(* program is stopped by the processor.                                    *)
Traps(op, x, y) ==
    /\ op \in Divisions
    /\ \/ y = 0
       \/ op \in {"SDIV", "SMOD"} /\ Signed(x) = MinInt(TRUE) /\ Signed(y) = -1

Arithmetic(op, x, y) ==
    CASE op = "ADD"  -> Wrap(x + y)
      [] op = "SUB"  -> Wrap(x - y)
      [] op = "MUL"  -> Wrap(x * y)
      [] op = "SDIV" -> Wrap(Quotient(Signed(x), Signed(y)))
      [] op = "UDIV" -> x \div y
      [] op = "SMOD" -> Wrap(Remainder(Signed(x), Signed(y)))
      [] op = "UMOD" -> x % y
      [] op = "NEG"  -> Wrap(-x)
      [] op = "ABS"  -> Wrap(Magnitude(Signed(x)))

Bitwise(op, x, y) ==
    CASE op = "AND" -> Bits({i \in Position : Bit(x, i) = 1 /\ Bit(y, i) = 1})
      [] op = "OR"  -> Bits({i \in Position : Bit(x, i) = 1 \/ Bit(y, i) = 1})
      [] op = "XOR" -> Bits({i \in Position : Bit(x, i) # Bit(y, i)})
      [] op = "NOT" -> (2^LongBits - 1) - x

(* The shift is the low 32 bits of the second operand.                     *)
Shift(op, x, y) ==
    CASE op = "SHL" -> LogicalShiftLeft(x, Low(y, IntBits))
      [] op = "SHR" -> LogicalShiftRight(x, Low(y, IntBits))
      [] op = "SAR" -> ArithmeticShiftRight(x, Low(y, IntBits))

(* Only the low bytes of the destination are written.                      *)
Truncate(op, old, x) ==
    CASE op = "TR8"  -> WithLow(old, x, ByteBits)
      [] op = "TR16" -> WithLow(old, x, ShortBits)
      [] op = "TR32" -> WithLow(old, x, IntBits)

Extend(op, x) ==
    CASE op = "SEX8"  -> Wrap(SignedAs(x, ByteBits))
      [] op = "SEX16" -> Wrap(SignedAs(x, ShortBits))
      [] op = "SEX32" -> Wrap(SignedAs(x, IntBits))
      [] op = "ZEX8"  -> Low(x, ByteBits)
      [] op = "ZEX16" -> Low(x, ShortBits)
      [] op = "ZEX32" -> Low(x, IntBits)

Sign(n) == IF n < 0 THEN -1 ELSE IF n > 0 THEN 1 ELSE 0

Compare(op, x, y) ==
    CASE op = "ICMP" -> Wrap(Sign(Signed(x) - Signed(y)))
      [] op = "UCMP" -> Wrap(Sign(x - y))

(* Whether a jump on a register is taken.                                  *)
Taken(op, x) ==
    CASE op = "JMP" -> TRUE
      [] op = "JEQ" -> Signed(x) = 0
      [] op = "JNE" -> Signed(x) # 0
      [] op = "JLT" -> Signed(x) < 0
      [] op = "JLE" -> Signed(x) <= 0
      [] op = "JGT" -> Signed(x) > 0
      [] op = "JGE" -> Signed(x) >= 0

Arithmetics == {"ADD", "SUB", "MUL", "NEG", "ABS"} \union Divisions
Bitwises    == {"AND", "OR", "XOR", "NOT"}
Shifts      == {"SHL", "SHR", "SAR"}
Truncations == {"TR8", "TR16", "TR32"}
Extensions  == {"SEX8", "SEX16", "SEX32", "ZEX8", "ZEX16", "ZEX32"}
Comparisons == {"ICMP", "UCMP"}
Jumps       == {"JMP", "JEQ", "JNE", "JLT", "JLE", "JGT", "JGE"}
Steps       == {"INC", "DEC"}

Computations == UNION {Arithmetics, Bitwises, Shifts, Truncations, Extensions, Comparisons}

Compute(op, old, x, y) ==
    CASE op \in Arithmetics -> Arithmetic(op, x, y)
      [] op \in Bitwises    -> Bitwise(op, x, y)
      [] op \in Shifts      -> Shift(op, x, y)
      [] op \in Truncations -> Truncate(op, old, x)
      [] op \in Extensions  -> Extend(op, x)
      [] op \in Comparisons -> Compare(op, x, y)

-----------------------------------------------------------------------------
(* Typed memory: the fields of an instance, the elements of an array.      *)

Types == <<"Byte", "UByte", "Short", "UShort", "Int", "UInt", "Long", "ULong",
           "Float", "Double", "Handle", "Reference", "ModuleRef", "ClassRef",
           "FieldRef", "MethodRef", "FunctionRef">>
Type  == {Types[k] : k \in DOMAIN Types}

GetPrimitiveSizeForType(t) ==
    CASE t \in {"Byte", "UByte"}        -> 1
      [] t \in {"Short", "UShort"}      -> 2
      [] t \in {"Int", "UInt", "Float"} -> 4
      [] OTHER                          -> 8

(* Little-endian bytes of memory, addressed from 0.                        *)
BytesAt(bytes, at, size) ==
    MapThenSumSet(LAMBDA k : bytes[at + k + 1] * 2^(ByteBits * k), 0 .. (size - 1))

WriteBytes(bytes, at, size, w) ==
    [k \in DOMAIN bytes |-> IF k - 1 \in at .. (at + size - 1)
                            THEN Low(w \div 2^(ByteBits * (k - 1 - at)), ByteBits)
                            ELSE bytes[k]]

(* A register: the tag isObject the collector goes by, and the word.       *)
Value == [isObject : BOOLEAN, ul : Word]

(* Class::readField() and ARRAYGET copy into a Value that was zeroed.      *)
LoadAs(t, bytes, at) == [isObject |-> t = "Reference",
                         ul |-> BytesAt(bytes, at, GetPrimitiveSizeForType(t))]

(* Class::writeField() and ARRAYSET copy the low bytes out.  (Their write  *)
(* barrier is in Nursery.tla.)                                             *)
StoreAs(t, bytes, at, value) ==
    WriteBytes(bytes, at, GetPrimitiveSizeForType(t), value.ul)

-----------------------------------------------------------------------------
(* One instruction: [op, a, b, c, imm], as the linker decodes it.  An      *)
(* object is a record of its kind and what that kind holds; heap maps the  *)
(* addresses of objects to them, and 0 is null.  A handler returns a       *)
(* message for the interpreter's loop, the registers and the heap.         *)

NONZERO == 69 % 2^LongBits

Outcome(message, regs, heap) == [message |-> message, regs |-> regs, heap |-> heap]

(* Every handler that sets .ul alone leaves isObject as it was.            *)
SetBits(regs, r, w) == [regs EXCEPT ![r].ul = w]

Reference(w) == [isObject |-> TRUE, ul |-> w]

(* The two checks in front of the handlers that use an object.             *)
Guarded(w, kind, regs, heap, body) ==
    IF w = 0 THEN Outcome("NULL_REFERENCE", regs, heap)
    ELSE IF w \notin DOMAIN heap THEN Outcome("Undefined", regs, heap)
    ELSE IF heap[w].kind # kind THEN Outcome("INVALID_OBJECT_KIND", regs, heap)
    ELSE body

(* MOV_RANGE is a memmove(): the source as it was, whatever the overlap.   *)
MoveRange(ins, regs) ==
    [r \in DOMAIN regs |-> IF r \in ins.a .. (ins.a + ins.imm - 1)
                           THEN regs[ins.b + (r - ins.a)] ELSE regs[r]]

Move(ins, regs, pool) ==
    CASE ins.op = "MOV"        -> [regs EXCEPT ![ins.a] = regs[ins.b]]
      [] ins.op = "MOV_RANGE"  -> MoveRange(ins, regs)
      [] ins.op = "SWAP"       -> [regs EXCEPT ![ins.a] = regs[ins.b], ![ins.b] = regs[ins.a]]
      [] ins.op = "LOAD_CONST" -> [regs EXCEPT ![ins.a] = pool[ins.b]]
      [] ins.op = "LOAD_IMM"   -> SetBits(regs, ins.a, ins.imm)
      [] ins.op = "LOAD_NULL"  -> [regs EXCEPT ![ins.a] = Reference(0)]

Moves == {"MOV", "MOV_RANGE", "SWAP", "LOAD_CONST", "LOAD_IMM", "LOAD_NULL"}

Step(ins, regs) ==
    SetBits(regs, ins.a, IF ins.op = "INC" THEN Wrap(regs[ins.a].ul + ins.imm)
                         ELSE Wrap(regs[ins.a].ul - ins.imm))

(* An index is not compared with the length: outside the array the access  *)
(* is undefined, and the model stops there.                                *)
Element(array, index) == index * GetPrimitiveSizeForType(array.type)
Inside(array, index)  == index < array.length

ArrayGet(ins, regs, heap) ==
    LET w == regs[ins.b].ul
        i == regs[ins.c].ul
    IN  Guarded(w, "Array", regs, heap,
            IF Inside(heap[w], i)
            THEN Outcome("Continue",
                         [regs EXCEPT ![ins.a] =
                            LoadAs(heap[w].type, heap[w].bytes, Element(heap[w], i))],
                         heap)
            ELSE Outcome("Undefined", regs, heap))

ArraySet(ins, regs, heap) ==
    LET w == regs[ins.a].ul
        i == regs[ins.b].ul
    IN  Guarded(w, "Array", regs, heap,
            IF Inside(heap[w], i)
            THEN Outcome("Continue", regs,
                         [heap EXCEPT ![w].bytes =
                            StoreAs(heap[w].type, @, Element(heap[w], i), regs[ins.c])])
            ELSE Outcome("Undefined", regs, heap))

(* Sizes, of arrays and strings.                                           *)
Length(ins, kind, regs, heap) ==
    LET w == regs[ins.b].ul
    IN  Guarded(w, kind, regs, heap,
                Outcome("Continue", SetBits(regs, ins.a, heap[w].length), heap))

(* STRGET converts a char, which is signed: a byte from the upper half is  *)
(* extended with ones.                                                     *)
StringGet(ins, regs, heap) ==
    LET w == regs[ins.b].ul
        i == regs[ins.c].ul
    IN  Guarded(w, "String", regs, heap,
            IF i < heap[w].length
            THEN Outcome("Continue",
                         SetBits(regs, ins.a, Wrap(SignedAs(heap[w].bytes[i + 1], ByteBits))),
                         heap)
            ELSE Outcome("Undefined", regs, heap))

(* STR2ARRAY, the new array being at address fresh, or 0 when there is no  *)
(* memory for it; the register's tag is left as it was.                    *)
StringToArray(ins, regs, heap, fresh) ==
    LET w == regs[ins.b].ul
    IN  Guarded(w, "String", regs, heap,
            IF fresh = 0 THEN Outcome("Continue", regs, heap)
            ELSE Outcome("Continue", SetBits(regs, ins.a, fresh),
                         [o \in DOMAIN heap \union {fresh} |->
                             IF o = fresh THEN [heap[w] EXCEPT !.kind = "Array"] ELSE heap[o]]))

(* ISKIND answers 0 for no, ISFUTUREREADY 0 for yes.                       *)
Kinds == <<"Instance", "Array", "String", "Future">>
KindCode(object) == CHOOSE k \in 1 .. 4 : Kinds[k] = object.kind

Inspect(ins, regs, heap) ==
    LET w == regs[ins.b].ul
    IN  IF w = 0 THEN Outcome("NULL_REFERENCE", regs, heap)
        ELSE IF w \notin DOMAIN heap THEN Outcome("Undefined", regs, heap)
        ELSE Outcome("Continue",
                     SetBits(regs, ins.a,
                             IF ins.op = "OBJKIND" THEN KindCode(heap[w])
                             ELSE IF KindCode(heap[w]) # ins.imm THEN 0 ELSE NONZERO),
                     heap)

(* POLL replaces the future by its value; of a cancelled one it reads the  *)
(* error through the same union.                                           *)
Poll(ins, regs, heap) ==
    LET w       == regs[ins.b].ul
        future  == heap[w]
        give(n) == SetBits([regs EXCEPT ![ins.b] = future.value], ins.a, n)
    IN  Guarded(w, "Future", regs, heap,
            Outcome("Continue",
                    CASE ins.op = "ISFUTUREREADY" ->
                           SetBits(regs, ins.a, IF future.ready THEN 0 ELSE NONZERO)
                      [] ins.op = "POLL" /\ future.ready -> give(0)
                      [] ins.op = "POLL" /\ ~future.ready /\ future.cancelled -> give(1)
                      [] OTHER -> SetBits(regs, ins.a, Wrap(-1)),
                    heap))

(* The table of handlers: the effect of one instruction, with the module's *)
(* constants and the address of an object it may allocate.                 *)
Interpret(ins, regs, heap, pool, fresh) ==
    CASE ins.op = "NOP"            -> Outcome("Continue", regs, heap)
      [] ins.op \in Moves          -> Outcome("Continue", Move(ins, regs, pool), heap)
      [] ins.op \in Computations   ->
            LET x == regs[ins.b].ul
                y == regs[ins.c].ul
            IN  IF Traps(ins.op, x, y) THEN Outcome("Undefined", regs, heap)
                ELSE Outcome("Continue",
                             SetBits(regs, ins.a, Compute(ins.op, regs[ins.a].ul, x, y)), heap)
      [] ins.op \in Steps          -> Outcome("Continue", Step(ins, regs), heap)
      [] ins.op \in Jumps          ->
            Outcome(IF Taken(ins.op, regs[ins.a].ul) THEN "Branch" ELSE "Continue", regs, heap)
      [] ins.op = "ARRAYLENGTH"    -> Length(ins, "Array", regs, heap)
      [] ins.op = "ARRAYGET"       -> ArrayGet(ins, regs, heap)
      [] ins.op = "ARRAYSET"       -> ArraySet(ins, regs, heap)
      [] ins.op = "STRLENGTH"      -> Length(ins, "String", regs, heap)
      [] ins.op = "STRGET"         -> StringGet(ins, regs, heap)
      [] ins.op = "STR2ARRAY"      -> StringToArray(ins, regs, heap, fresh)
      [] ins.op \in {"OBJKIND", "ISKIND"}     -> Inspect(ins, regs, heap)
      [] ins.op \in {"ISFUTUREREADY", "POLL"} -> Poll(ins, regs, heap)
      [] ins.op = "CALL"           -> Outcome("Call", regs, heap)
      [] ins.op = "RETURN"         -> Outcome("Return", regs, heap)
      [] ins.op = "YIELD"          -> Outcome("Yield", regs, heap)
=============================================================================
