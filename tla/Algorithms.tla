----------------------------- MODULE Algorithms -----------------------------
(***************************************************************************)
(* The parts of the program that compute something and are done: the       *)
(* scheduler's table of levels, the arithmetic of the interpreter, the     *)
(* decoding of bytecode, the layout of classes, the command line, and the  *)
(* arena the others allocate from.  A behaviour is one of these with one   *)
(* input; the properties compare what the code computes with what it is    *)
(* meant to, said in another way.                                          *)
(***************************************************************************)
EXTENDS PrioritySelection, BytecodeDecoding, ClassLayout, Arena, CommandLine

CONSTANTS
    Words,        \* bound: the words computed with
    Floats,       \* bound: the floating-point numbers converted
    Codes,        \* bound: the bytecode of functions
    Modules,      \* bound: the classes modules declare
    CommandLines, \* bound: the arguments of the program
    Requests,     \* bound: the sizes asked of the arena
    MaxRegions,   \* bound: the regions an arena ever reserves
    MaxSnapshots  \* bound: the frames that hold a snapshot at once

ASSUME RequestsAssumption == Requests \subseteq Nat
ASSUME ModulesAssumption == \A declared \in Modules : declared \in Declarations(Len(declared))
ASSUME CommandLinesAssumption == CommandLines \subseteq Seq(Argument)
ASSUME WordsAssumption == Words \subseteq Word
ASSUME FloatsAssumption ==
    \A float \in Floats :
        /\ float.format.exp \in Nat \ {0} /\ float.format.frac \in 0 .. (LongBits - 1)
        /\ float.fp.sign \in 0 .. 1 /\ float.fp.frac \in 0 .. (2^float.format.frac - 1)
ASSUME CodesAssumption == Codes \subseteq Seq(0 .. (2^CodeBits - 1))

VARIABLES
    problem,  \* which computation this is, and its input
    arena     \* the arena, in a behaviour about arenas

(* Not about the table of levels: the table of one level.                  *)
NoTable == configLevels = 0 /\ boost = 0 /\ exponential = FALSE /\ selection = <<0>> /\ next = 1

Problem == [kind : {"word"}, word : Words]
           \union [kind : {"float"}, float : Floats]
           \union [kind : {"code"}, code : Codes]
           \union [kind : {"module"}, declared : Modules]
           \union [kind : {"command"}, argv : CommandLines]

AllInit == \/ Init /\ problem = [kind |-> "levels"] /\ arena = <<>>
           \/ NoTable /\ problem \in Problem /\ arena = <<>>
           \/ NoTable /\ problem = [kind |-> "arena"]
              /\ arena \in {NewArena(preCommit) : preCommit \in BOOLEAN}

(* The program and its frames use an arena.                                *)
AllocateSome ==
    /\ arena.next <= MaxRegions
    /\ \E size \in Requests, commits, reserves \in BOOLEAN :
           arena' = Allocate(arena, size, commits, reserves)
PushSnapshot == Len(arena.snapshots) < MaxSnapshots /\ arena' = TakeSnapshot(arena)
PopSnapshot  == arena.snapshots # <<>> /\ arena' = Restore(arena)

ArenaNext == /\ problem.kind = "arena"
             /\ AllocateSome \/ PushSnapshot \/ PopSnapshot
             /\ UNCHANGED <<vars, problem>>

AllNext == \/ Next /\ UNCHANGED <<problem, arena>>
           \/ ArenaNext

AllSpec == AllInit /\ [][AllNext]_<<vars, problem, arena>>

-----------------------------------------------------------------------------
(* Arithmetic                                                              *)

(* The code or-s the sign into the wrong places: it is right where there   *)
(* is none, and for one place.                                             *)
SignMisplaced(w, shift) == Signed(w) < 0 /\ shift # 1

(* A right shift of a number rounds down.                                  *)
ShiftsExactly(w) ==
    \A shift \in 0 .. (LongBits - 1) :
        ~SignMisplaced(w, shift) =>
            Signed(ArithmeticShiftRight(w, shift)) = Signed(w) \div 2^shift

(* What stays of a number when it is cut and extended again.               *)
ExtendsBack(w) ==
    \A k \in 1 .. 3 :
        LET bits == <<ByteBits, ShortBits, IntBits>>[k]
            cut  == <<"TR8", "TR16", "TR32">>[k]
            sign == <<"SEX8", "SEX16", "SEX32">>[k]
            zero == <<"ZEX8", "ZEX16", "ZEX32">>[k]
        IN  \A old \in {0, w, 2^LongBits - 1} :
                /\ Signed(Extend(sign, Truncate(cut, old, w))) \in -(2^(bits - 1)) .. (2^(bits - 1) - 1)
                /\ (Signed(Extend(sign, Truncate(cut, old, w))) - Signed(w)) % 2^bits = 0
                /\ Extend(zero, Truncate(cut, old, w)) = w % 2^bits

(* The integer between a number and 0, or the end of the range.            *)
Rounded(format, fp, signed) ==
    LET e == fp.exp - Bias(format) - format.frac
        m == 2^format.frac + fp.frac
        whole == IF e >= 0 THEN m * 2^e ELSE m \div 2^(-e)
        n == IF fp.sign = 1 THEN -whole ELSE whole
    IN  IF n < MinInt(signed) THEN MinInt(signed)
        ELSE IF n > MaxInt(signed) THEN MaxInt(signed) ELSE n

(* Not a number with digits that the shift to the left drops.              *)
KeepsDigits(format, fp) ==
    LET e == fp.exp - Bias(format) - format.frac
    IN  e < 0 \/ e >= LongBits \/ (2^format.frac + fp.frac) * 2^e < 2^LongBits

ConvertsExactly(format, fp) ==
    fp.exp \in 1 .. (2^format.exp - 2) /\ KeepsDigits(format, fp) =>
        \A signed \in BOOLEAN : FPToInt(format, fp, signed) = Rounded(format, fp, signed)

Ins(op, a, b, c, imm) == [op |-> op, a |-> a, b |-> b, c |-> c, imm |-> imm]

(* The registers and the heap after some instructions, of which one may    *)
(* allocate an object at address 2.                                        *)
After(program, regs, heap) ==
    LET state[k \in 0 .. Len(program)] ==
            IF k = 0 THEN Outcome("Continue", regs, heap)
            ELSE Interpret(program[k], state[k - 1].regs, state[k - 1].heap, <<>>, 2)
    IN  state[Len(program)]

Bare(w)        == [isObject |-> FALSE, ul |-> w]
Registers(w)   == [r \in 0 .. 3 |-> <<Reference(1), Bare(0), Bare(w), Reference(0)>>[r + 1]]
HeapOf(object) == [address \in {1} |-> object]
SomeArray(t)   == [kind |-> "Array", type |-> t, length |-> 2,
                   bytes |-> [k \in 1 .. (2 * GetPrimitiveSizeForType(t)) |-> 0]]
SomeString(w)  == [kind |-> "String", type |-> "UByte", length |-> 2,
                   bytes |-> <<0, Low(w, ByteBits)>>]
SomeFuture(w, ready, cancelled) ==
    [kind |-> "Future", ready |-> ready, cancelled |-> cancelled, value |-> Bare(w)]

(* A word put into an array of each type comes out cut to its width, tagged *)
(* if it is a reference, and its neighbour stays.                          *)
ArraysKeep(w) ==
    \A t \in Type :
        \E regs \in {After(<<Ins("ARRAYSET", 0, 1, 2, 0), Ins("ARRAYGET", 3, 0, 1, 0),
                            Ins("INC", 1, 0, 0, 1), Ins("ARRAYGET", 2, 0, 1, 0)>>,
                          Registers(w), HeapOf(SomeArray(t))).regs} :
            /\ regs[3] = [isObject |-> t = "Reference",
                          ul |-> w % 2^(ByteBits * GetPrimitiveSizeForType(t))]
            /\ regs[2].ul = 0

(* A string and the array made of it have the same bytes, once STRGET's    *)
(* sign is taken off, and the same length.                                 *)
StringsKeep(w) ==
    \E s \in {After(<<Ins("INC", 1, 0, 0, 1), Ins("STRGET", 2, 0, 1, 0), Ins("ZEX8", 2, 2, 0, 0),
                     Ins("STR2ARRAY", 3, 0, 0, 0), Ins("ARRAYGET", 1, 3, 1, 0),
                     Ins("STRLENGTH", 0, 0, 0, 0), Ins("ARRAYLENGTH", 3, 3, 0, 0)>>,
                   Registers(w), HeapOf(SomeString(w)))} :
        s.regs[1].ul = s.regs[2].ul /\ s.regs[0].ul = s.regs[3].ul

(* Moving registers up one by one is what MOV_RANGE does to a range that   *)
(* overlaps itself, if the last is moved first; SWAP undoes itself.        *)
MovesKeep(w) ==
    /\ After(<<Ins("MOV_RANGE", 1, 0, 0, 3)>>, Registers(w), <<>>)
         = After(<<Ins("MOV", 3, 2, 0, 0), Ins("MOV", 2, 1, 0, 0), Ins("MOV", 1, 0, 0, 0)>>,
                 Registers(w), <<>>)
    /\ After(<<Ins("SWAP", 0, 2, 0, 0), Ins("SWAP", 2, 0, 0, 0)>>, Registers(w), <<>>).regs
         = Registers(w)

(* A branch on the answer of POLL or ISFUTUREREADY goes where the future   *)
(* says, and POLL gives the value if there is one.                         *)
FuturesAnswer(w) ==
    \A ready, cancelled \in BOOLEAN :
        \E heap \in {HeapOf(SomeFuture(w, ready, cancelled))} :
        \E poll \in {After(<<Ins("POLL", 1, 0, 0, 0)>>, Registers(w), heap).regs},
           look \in {After(<<Ins("ISFUTUREREADY", 1, 0, 0, 0)>>, Registers(w), heap).regs} :
            /\ Taken("JEQ", poll[1].ul) = ready /\ Taken("JEQ", look[1].ul) = ready
            /\ Taken("JGT", poll[1].ul) = (~ready /\ cancelled)
            /\ poll[0] = IF ready \/ cancelled THEN Bare(w) ELSE Reference(1)

(* The instructions are what they are named for, although safe_math.h and  *)
(* the handlers compute with bits and unions: shifts and conversions give  *)
(* the integer nearest below or nearest to zero, what was cut comes back   *)
(* by extension, and a value that goes through arrays, strings, futures    *)
(* and moves comes out as it went in.  Two cases are left out, which the   *)
(* code gets wrong: the right shifts of a negative number by any number of *)
(* places but one, 0 included (SignMisplaced), and the numbers whose top   *)
(* digits FPToInt() shifts out (not KeepsDigits).                          *)
InstructionsExact ==
    /\ problem.kind = "word" =>
           /\ ShiftsExactly(problem.word) /\ ExtendsBack(problem.word)
           /\ ArraysKeep(problem.word) /\ StringsKeep(problem.word)
           /\ MovesKeep(problem.word) /\ FuturesAnswer(problem.word)
    /\ problem.kind = "float" => ConvertsExactly(problem.float.format, problem.float.fp)

-----------------------------------------------------------------------------
(* Bytecode                                                                *)

RepeatsPrefix(code) ==
    \E k, m \in DOMAIN code :
        k < m /\ Meaning[code[k]] = Meaning[code[m]]
        /\ \A j \in k .. m : Meaning[code[j]] \in PrefixCodes

(* A branch ends with its offset: the number its last bytes say, the       *)
(* highest bit of the last one being the sign.                             *)
OffsetEndingAt(code, width, end) ==
    ReadLE(code, end - width, width)
    - (IF code[end - 1] >= 2^(CodeBits - 1) THEN 2^(CodeBits * width) ELSE 0)

LastOf(s) == s[Len(s)]

OffsetWidth(code, start) == Width(LastOf(Operands(OpOf(code, start))), PrefixesOf(code, start))

(* The function that bytecode is linked to, without ahead-of-time code.    *)
Linked(code) == LinkFunction(code, FunctionKind(FALSE, FALSE), FALSE, TRUE, FALSE)

BranchLands(code, starts, linked, i) ==
    \E t \in DOMAIN linked.instructions :
        /\ t = Landing(linked.entry, i, linked.instructions[i].args.imm)
        /\ starts[t] = InstEnd(code, starts[i])
               + OffsetEndingAt(code, OffsetWidth(code, starts[i]), InstEnd(code, starts[i]))

(* DecodeInstructions() turns offsets in bytes to distances between        *)
(* instructions of different lengths: a branch of the decoded function     *)
(* leads the auto-yielding interpreter, and the compiler, to the           *)
(* instruction that begins at the branch's end plus its offset, or the     *)
(* function is rejected.  (Not if a prefix is repeated: the length is then *)
(* too small.)                                                             *)
BranchesLand ==
    problem.kind = "code" /\ ~RepeatsPrefix(problem.code) =>
        \E linked \in {Linked(problem.code)}, starts \in {InstStart(problem.code)} :
            \A i \in DOMAIN linked.instructions :
                linked.instructions[i].op \in Jumps => BranchLands(problem.code, starts, linked, i)

-----------------------------------------------------------------------------
(* Classes                                                                 *)

(* The superclasses were linked before their subclasses.                   *)
InOrder(declared, i) ==
    \A d \in Range(Chain(declared, i)) : declared[d].super < d

TypeOf(declared, f)  == declared[f[1]].fields[f[2]]
OffsetOf(l, f)       == l.classes[f[1]].offsets[f[2]]
Zeroed(size)         == [k \in 1 .. size |-> 0]
Written(declared, l, i, f) ==
    StoreAs(TypeOf(declared, f), Zeroed(l.classes[i].size), OffsetOf(l, f),
            [isObject |-> FALSE, ul |-> 2^LongBits - 1])

(* A write to one field is read there, and nowhere else.                   *)
FieldsIndependent(declared, l, i) ==
    \A f \in FieldsOf(declared, i) :
        /\ OffsetOf(l, f) % Size(TypeOf(declared, f)) = 0
        /\ OffsetOf(l, f) + Size(TypeOf(declared, f)) <= l.classes[i].size
        /\ \E bytes \in {Written(declared, l, i, f)} :
             \A g \in FieldsOf(declared, i) :
                LoadAs(TypeOf(declared, g), bytes, OffsetOf(l, g)).ul =
                    IF g = f THEN 2^(ByteBits * Size(TypeOf(declared, f))) - 1 ELSE 0

(* The constructor writes the list of runs of a subclass with references   *)
(* of its own outside the memory it allocated for the list.                *)
RunsMisplaced(declared, i) ==
    \E d \in Range(Chain(declared, i)) :
        declared[d].super # 0 /\ References(declared[d]) # {}

(* The collector visits the references and nothing else.                   *)
ReferencesVisited(declared, l, i) ==
    ~RunsMisplaced(declared, i) =>
        Visited(l, i) = {OffsetOf(l, f) : f \in {g \in FieldsOf(declared, i) :
                                                    TypeOf(declared, g) = "Reference"}}

(* The fields of an instance, with those of all its superclasses, lie      *)
(* apart, aligned and inside the object, and the runs the collector        *)
(* follows are the references among them: the runs where no list of them   *)
(* was misplaced, and the rest where the superclasses were linked first,   *)
(* which the order of the module's classes decides.                        *)
LayoutSound ==
    problem.kind = "module" =>
        \E l \in {LinkClasses(problem.declared)} :
            ~l.crashed => \A i \in DOMAIN problem.declared :
                InOrder(problem.declared, i) =>
                    /\ FieldsIndependent(problem.declared, l, i)
                    /\ ReferencesVisited(problem.declared, l, i)

Declares(declared, d, name) == name \in Range(declared[d].methods)

(* The class of the chain, from i up, that declares the method first.      *)
Nearest(declared, i, name) ==
    LET chain == Chain(declared, i)
    IN  chain[Min({k \in DOMAIN chain : Declares(declared, chain[k], name)})]

DispatchesRight(declared, l, i, d, j) ==
    \E entry \in {DispatchMethod(l, i, d, j)} :
        /\ NameOf(declared, entry) = declared[d].methods[j]
        /\ entry.class = Nearest(declared, i, declared[d].methods[j])

(* The constructor gives a method of a class without a superclass no index *)
(* of its own: all but the first are called as the first.                  *)
IndexNotSet(declared, d, j) == declared[d].super = 0 /\ j # 1

(* A method called on an instance is that of the nearest class, from the   *)
(* instance's up, that declares one of the name, whichever class the call  *)
(* names: of the modules whose linking ends, which one with a subclass     *)
(* that adds a method of a new name does not, and but for the methods      *)
(* without an index.                                                       *)
DispatchFindsOverride ==
    problem.kind = "module" =>
        \E l \in {LinkClasses(problem.declared)} :
            ~l.crashed => \A i \in DOMAIN problem.declared :
                InOrder(problem.declared, i) =>
                    \A d \in {k \in 1 .. i : IsAssignableTo(problem.declared, i, k)} :
                        \A j \in DOMAIN problem.declared[d].methods :
                            ~IndexNotSet(problem.declared, d, j) =>
                                DispatchesRight(problem.declared, l, i, d, j)

-----------------------------------------------------------------------------
(* The command line                                                        *)

(* An argument that takes the next one along, if it is read as an option.  *)
Hungry(arg) == \/ arg.form = "key" /\ arg.key \in Key /\ arg.value = NoValue
                  /\ OptionTypes[arg.key] # "Bool"
               \/ arg.form = "flag" /\ arg.name \in FlagsWithValue

(* The k-th argument is a value: the hungry ones in front of it pair off,  *)
(* and one is left.                                                        *)
IsValue(argv, k) ==
    \E n \in 1 .. (k - 1) :
        /\ n % 2 = 1
        /\ \A j \in (k - n) .. (k - 1) : Hungry(argv[j])
        /\ k - n = 1 \/ ~Hungry(argv[k - n - 1])

Separators(argv) == {k \in DOMAIN argv : argv[k] = Separator /\ ~IsValue(argv, k)}
EndOfOptions(argv) == IF Separators(argv) = {} THEN Len(argv) + 1 ELSE Min(Separators(argv))
OptionsOf(argv)    == {k \in 1 .. (EndOfOptions(argv) - 1) : ~IsValue(argv, k)}

ValueOf(argv, k) == IF ~Hungry(argv[k]) THEN argv[k].value ELSE argv[k + 1]
Settings(argv, key) == {k \in OptionsOf(argv) :
                           argv[k].form = "key" /\ argv[k].key = key
                           /\ (Hungry(argv[k]) => k < Len(argv))}

OptionsRead(argv, o) ==
    /\ o.programArgs = SubSeq(argv, EndOfOptions(argv) + 1, Len(argv))
    /\ \A key \in Key :
         IF Settings(argv, key) = {} THEN key \notin DOMAIN o.config
         ELSE key \in DOMAIN o.config
              /\ o.config[key] = ParseValue(key, ValueOf(argv, Max(Settings(argv, key))))
    /\ {argv[k] : k \in {j \in OptionsOf(argv) : argv[j].form = "word"}} =
         {o.module} \ {NoValue}

World == [files |-> TRUE, module |-> TRUE, main |-> TRUE, parameters |-> 1,
          ready |-> TRUE, value |-> 7]

(* ParseCommandLine() reads arguments one after the other, some of which   *)
(* take the next one along.  Whenever it succeeds, each option has the     *)
(* value it was given last, and only then a value of its own; all that     *)
(* follows a -- that is no value goes to the program; the module is the    *)
(* one word that is none of these.  The program runs only with a module.   *)
OptionsReachConfig ==
    problem.kind = "command" =>
        \E o \in {ParseCommandLine(problem.argv)} :
            /\ o.status = "ok" => OptionsRead(problem.argv, o)
            /\ Main(problem.argv, World).ran =>
                   o.status = "ok" /\ \E k \in OptionsOf(problem.argv) : problem.argv[k] = o.module

-----------------------------------------------------------------------------
(* The arena                                                               *)

(* Memory handed out lies in pages that can be used, behind the region's   *)
(* header and apart from all other memory in use, although the region      *)
(* never takes note of the pages it commits.  Memory is refused only when  *)
(* the system refuses it, or when a region as large as the request has no  *)
(* room for its own header.                                                *)
ArenaSound ==
    problem.kind = "arena" =>
        /\ ~arena.refused =>
             \A b \in arena.blocks : \E k \in DOMAIN arena.regions : LiesIn(b, arena.regions[k])
        /\ \A b, c \in arena.blocks : b = c \/ Apart(b, c)
        /\ \A size \in arena.null :
             RoundUp(size, Granule) + HeaderSize > RoundUp(Larger(size, MinRegionSize), PageSize)

(* When a frame is popped the arena is as it was when it was pushed: the   *)
(* same regions, filled as far.  (A refused region takes the others along.)*)
RestoreUndoes ==
    [][problem.kind = "arena" /\ ~arena.refused /\ Len(arena'.snapshots) < Len(arena.snapshots) =>
          [k \in DOMAIN arena'.regions |-> <<arena'.regions[k].id, arena'.regions[k].used>>]
              = LastOf(arena.snapshots).chain]_<<vars, problem, arena>>
=============================================================================
