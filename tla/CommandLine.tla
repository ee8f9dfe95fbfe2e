----------------------------- MODULE CommandLine -----------------------------
(***************************************************************************)
(* The command line of the bibble program (main/src/main.cpp): the table   *)
(* of configuration options, how arguments are told apart and numbers      *)
(* read, and what main() makes of the outcome.                             *)
(*                                                                         *)
(* An argument is a record of its form: "separator" (--), "key" (--key or  *)
(* --key=value), "flag" (the options that are not configuration) or "word" *)
(* (anything else), a number and a unit when it is read as a value.        *)
(***************************************************************************)
EXTENDS Integers, Sequences, TLC

CONSTANTS
    Thousand,    \* from one unit of time to the next.  Source: 1000
    Kilo,        \* from one unit of size to the next.  Source: 1024
    ByteRange,   \* number of values of a uint8_t
    ShortRange,  \* number of values of a uint16_t
    LongRange    \* number of values of a uint64_t

ASSUME UnitAssumption == {Thousand, Kilo, ByteRange, ShortRange, LongRange} \subseteq Nat \ {0}

(* An operator named M... is a mutant of a definition below it, a bug the  *)
(* code could have had; no specification uses it.                          *)

NoValue == [form |-> "none"]

TextArg(number, unit) == [form |-> "word", number |-> number, unit |-> unit]
KeyArg(key, value) == [form |-> "key", key |-> key, value |-> value]
Flag(name)         == [form |-> "flag", name |-> name]
Separator          == [form |-> "separator"]

Text     == [form : {"word"}, number : Int, unit : STRING]
Argument == Text \union [form : {"key"}, key : STRING, value : Text \union {NoValue}]
                 \union [form : {"flag"}, name : STRING] \union {Separator}

-----------------------------------------------------------------------------
(* BuildConfigOptionTable()                                                *)

MemoryOptions ==
    [k \in {"memory.nursery-space-min", "memory.nursery-space-max", "memory.old-gen-min",
            "memory.old-gen-max", "memory.old-gen-region-size",
            "memory.large-object-threshold"} |-> "Size"]
    @@ [k \in {"memory.nursery-growth-factor", "memory.nursery-growth-threshold",
               "memory.old-gen-growth-factor"} |-> "Float"]
    @@ [k \in {"memory.implicit-intern-strings", "memory.enable-large-heap"} |-> "Bool"]

GcOptions ==
    ("gc.pause-budget" :> "Duration")
    @@ [k \in {"gc.remembered-set-reserve", "gc.promotion-age"} |-> "Integer"]
    @@ [k \in {"gc.nursery-collect-threshold", "gc.old-gen-collect-threshold",
               "gc.old-gen-compact-threshold"} |-> "Float"]
    @@ [k \in {"gc.disable-finalizers", "gc.enable-concurrent-gc"} |-> "Bool"]

SchedulerOptions ==
    ("scheduler.max-stack-size" :> "Size")
    @@ [k \in {"scheduler.max-tasks", "scheduler.auto-yielding.threshold",
               "scheduler.priority.levels", "scheduler.priority.boost"} |-> "Integer"]
    @@ [k \in {"scheduler.auto-yielding.enabled",
               "scheduler.priority.use-exponential-weights"} |-> "Bool"]

OtherOptions ==
    ("compiler.jit.hot-threshold" :> "Integer")
    @@ [k \in {"compiler.aot.enabled", "compiler.jit.enabled", "debug.enable-debug-logging",
               "debug.verify-heap-after-gc", "debug.poison-freed-memory", "debug.log-promotions",
               "debug.log-safepoints", "debug.verbose-scheduler-logging"} |-> "Bool"]

OptionTypes == MemoryOptions @@ GcOptions @@ SchedulerOptions @@ OtherOptions
Key         == DOMAIN OptionTypes

(* The narrower fields of Config.                                          *)
FieldRange(key) ==
    CASE key \in {"gc.promotion-age", "scheduler.priority.levels", "scheduler.priority.boost"}
            -> ByteRange
      [] key = "compiler.jit.hot-threshold" -> ShortRange
      [] OTHER -> LongRange

-----------------------------------------------------------------------------
(* The values                                                              *)

ParseBool(text) == \/ text.form = "none"
                   \/ text.form = "word" /\ text.unit \in {"true", "yes", "on"}
                   \/ text.form = "word" /\ text.number = 1 /\ text.unit = ""

(* std::stoull() reads the digits in front and throws when there are none. *)
Throws(type, text) == type # "Bool" /\ (text.form # "word" \/ text.number < 0)

SizeUnit(unit) == CASE unit = "k" -> Kilo
                    [] unit = "m" -> Kilo * Kilo
                    [] unit = "g" -> Kilo * Kilo * Kilo
                    [] OTHER      -> 1

(* ParseDuration() looks at the end of the text: a unit it does not know   *)
(* but that ends in s, such as ns, is seconds.                             *)
TimeUnit(unit) == CASE unit = "us"        -> Thousand
                    [] unit = "ms"        -> Thousand * Thousand
                    [] unit \in {"s", "ns"} -> Thousand * Thousand * Thousand
                    [] OTHER              -> 1

ParseValue(key, text) ==
    CASE OptionTypes[key] = "Bool"     -> ParseBool(text)
      [] OptionTypes[key] = "Float"    -> text.number
      [] OptionTypes[key] = "Integer"  -> (text.number % LongRange) % FieldRange(key)
      [] OptionTypes[key] = "Size"     -> (text.number * SizeUnit(text.unit)) % LongRange
      [] OptionTypes[key] = "Duration" -> (text.number * TimeUnit(text.unit)) % LongRange

-----------------------------------------------------------------------------
(* ParseCommandLine(): the options so far, and where the loop is.  status  *)
(* is "failed" when it returns nothing, "thrown" when a number does not    *)
(* parse, which nobody catches.                                            *)
NoOptions ==
    [config |-> <<>>, module |-> NoValue, taken |-> <<>>, programArgs |-> <<>>,
     flags |-> {}, programArgsMode |-> FALSE, at |-> 1, status |-> "ok"]

Skip(o, n)       == [o EXCEPT !.at = @ + n]
Failed(o)        == [o EXCEPT !.status = "failed"]
HasNext(argv, o) == o.at < Len(argv)

(* ApplyConfigOption(), of a known key: it takes the place of an earlier   *)
(* value.                                                                  *)
With(config, key, value) ==
    [k \in DOMAIN config \union {key} |-> IF k = key THEN value ELSE config[k]]

ApplyConfigOption(o, key, text) ==
    IF Throws(OptionTypes[key], text) THEN [o EXCEPT !.status = "thrown"]
    ELSE [o EXCEPT !.config = With(o.config, key, ParseValue(key, text))]

MEveryKeyTakesNext(key) == TRUE

(* An option whose value is not optional takes the next argument for it.   *)
TakesNext(key) == OptionTypes[key] # "Bool"

(* --key=value, and --key.  An unknown key is passed over, and so is a key *)
(* that ends the command line without its value.                           *)
ParseAssigned(argv, o, arg) == Skip(ApplyConfigOption(o, arg.key, arg.value), 1)

ParseKey(argv, o, arg) ==
    CASE arg.key \notin Key -> Skip(o, 1)
      [] arg.key \in Key /\ arg.value # NoValue -> ParseAssigned(argv, o, arg)
      [] arg.key \in Key /\ arg.value = NoValue /\ ~TakesNext(arg.key) ->
            Skip(ApplyConfigOption(o, arg.key, NoValue), 1)
      [] OTHER -> IF HasNext(argv, o)
                  THEN Skip(ApplyConfigOption(o, arg.key, argv[o.at + 1]), 2)
                  ELSE Skip(o, 1)

FlagsWithValue == {"-mp", "--redirect-stdin", "--redirect-stdout", "--redirect-stderr",
                   "--config-profile"}

(* taken: the values of these flags, in order.                             *)
ParseFlag(argv, o, arg) ==
    CASE arg.name \notin FlagsWithValue -> Skip([o EXCEPT !.flags = @ \union {arg.name}], 1)
      [] arg.name \in FlagsWithValue /\ ~HasNext(argv, o) -> Failed(o)
      [] OTHER -> Skip([o EXCEPT !.taken = Append(@, <<arg.name, argv[o.at + 1]>>)], 2)

ParseArgument(argv, o) ==
    LET arg == argv[o.at]
    IN  CASE o.programArgsMode -> Skip([o EXCEPT !.programArgs = Append(@, arg)], 1)
          [] ~o.programArgsMode /\ arg.form = "separator" ->
                Skip([o EXCEPT !.programArgsMode = TRUE], 1)
          [] ~o.programArgsMode /\ arg.form = "key"  -> ParseKey(argv, o, arg)
          [] ~o.programArgsMode /\ arg.form = "flag" -> ParseFlag(argv, o, arg)
          [] ~o.programArgsMode /\ arg.form = "word" ->
                IF o.module # NoValue THEN Failed(o) ELSE Skip([o EXCEPT !.module = arg], 1)

ParseCommandLine(argv) ==
    LET parse[n \in 0 .. Len(argv)] ==
            IF n = 0 THEN NoOptions
            ELSE LET o == parse[n - 1]
                 IN  IF o.status # "ok" \/ o.at > Len(argv) THEN o ELSE ParseArgument(argv, o)
    IN  parse[Len(argv)]

-----------------------------------------------------------------------------
(* main(): the exit code, and whether tasks were run.  world says which of *)
(* the things the program then looks for exist: the files to redirect to,  *)
(* the module, its function .main with so many parameters, and whether     *)
(* that function's future is completed, with what.                         *)
Aborted == -1

Redirects(o) == \E k \in DOMAIN o.taken : o.taken[k][1] \notin {"-mp", "--config-profile"}

Exit(code, ran) == [code |-> code, ran |-> ran]

RunModule(world) ==
    CASE ~world.module                                -> Exit(2, FALSE)
      [] world.module /\ ~world.main                  -> Exit(3, FALSE)
      [] world.module /\ world.main /\ world.parameters > 1 -> Exit(4, FALSE)
      [] OTHER -> Exit(IF world.ready THEN world.value ELSE 4, TRUE)

Finish(o, world) ==
    CASE o.status = "failed"            -> Exit(1, FALSE)
      [] o.status = "thrown"            -> Exit(Aborted, FALSE)
      [] o.status = "ok" /\ o.flags # {} -> Exit(0, FALSE)
      [] OTHER -> IF o.module = NoValue \/ (Redirects(o) /\ ~world.files)
                  THEN Exit(1, FALSE) ELSE RunModule(world)

Main(argv, world) == IF argv = <<>> THEN Exit(0, FALSE)
                     ELSE Finish(ParseCommandLine(argv), world)
=============================================================================
