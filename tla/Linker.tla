-------------------------------- MODULE Linker --------------------------------
(***************************************************************************)
(* How BibbleVM loads modules (linker/linker.cpp): loadModule() takes a    *)
(* module through its stages, and linking its constant pool loads the      *)
(* modules it imports, from within, on the same and only thread.           *)
(*                                                                         *)
(* The import of a function, class, field or method waits until its module *)
(* is ready, the import of a module does not.  Nothing else runs while a   *)
(* load waits, so a wait that does not end at once never ends.             *)
(***************************************************************************)
EXTENDS Integers, Sequences

CONSTANTS
    Module,    \* bound: the names of modules
    Programs   \* what the modules may be, as below

Tags == {"MODULE_INFO", "CLASS_INFO", "FUNCTION_INFO", "FIELD_INFO", "METHOD_INFO"}

(* An entry of a constant pool: what it names, in which module, and whether*)
(* that module has such a class or function.                               *)
Entry == [tag : Tags, mod : Module, found : BOOLEAN]

(* A module's file is on the module path or not, and can be parsed or not. *)
Source == [file : {"missing", "malformed", "good"}, pool : Seq(Entry)]

ASSUME ProgramAssumption == Programs \subseteq [Module -> Source]

VARIABLES
    program,   \* the one of Programs that is loaded
    pc,        \* "idle", "loading", "stalled" or "fault"
    table,     \* the names of mModules
    stage,     \* mStage of each module
    bound,     \* the linked constant pool of each module
    stack,     \* the calls of loadModule() under way, innermost first
    null       \* whether the last of them returned nullptr to the next

vars == <<program, pc, table, stage, bound, stack, null>>

(* enum Stage                                                              *)
None == 0
FileLoaded == 1
Parsed == 2
Preverified == 3
Linked == 4
Verified == 5
Ready == 6

top   == Head(stack)
pool  == program[top.mod].pool
entry == pool[top.index]

-----------------------------------------------------------------------------
Init == /\ program \in Programs
        /\ pc = "idle"
        /\ table = {}
        /\ stage = [m \in Module |-> None]
        /\ bound = [m \in Module |-> [i \in 1 .. Len(program[m].pool) |-> "unset"]]
        /\ stack = <<>>
        /\ null = FALSE

(* An operator named M... is a mutant of a definition below it, a bug the  *)
(* code could have had; no specification uses it.                          *)

(* loadModule() on a name it does not know: the module joins the table     *)
(* before anything is known of it.                                         *)
LoadModule(m) ==
    /\ m \notin table
    /\ table' = table \cup {m}
    /\ stack' = <<[mod |-> m, pass |-> "link", index |-> 1]>> \o stack
    /\ pc' = "loading" /\ null' = FALSE
    /\ UNCHANGED <<program, stage, bound>>

(* getModule() called by main() or by a plugin; a known module is returned *)
(* as it is, whatever its stage.                                           *)
Request(m) == pc = "idle" /\ LoadModule(m)

(* loadModule() returns to the caller, with a module or a null.            *)
ReturnWith(isNull) ==
    /\ stack' = Tail(stack)
    /\ pc' = IF Tail(stack) = <<>> THEN "idle" ELSE "loading"
    /\ null' = (isNull /\ Tail(stack) # <<>>)

SetStage(s) == stage' = [stage EXCEPT ![top.mod] = s]

(* A stage that can fail leaves the module behind, in the table.           *)
TryStage(from, to, succeeds) ==
    /\ pc = "loading" /\ stage[top.mod] = from
    /\ IF succeeds THEN SetStage(to) /\ UNCHANGED <<pc, stack, null>>
       ELSE ReturnWith(TRUE) /\ UNCHANGED stage
    /\ UNCHANGED <<program, table, bound>>

ReadModule  == TryStage(None, FileLoaded, program[top.mod].file # "missing")
ParseModule == TryStage(FileLoaded, Parsed, program[top.mod].file # "malformed")

(* PreverifyModule() and VerifyModule() look at nothing.                   *)
PreverifyModule == TryStage(Parsed, Preverified, TRUE)
VerifyModule    == TryStage(Linked, Verified, TRUE)

-----------------------------------------------------------------------------
(* LinkModule(): two passes over the constant pool.                        *)

Linking == pc = "loading" /\ stage[top.mod] = Preverified

AtEntry(pass) == Linking /\ top.pass = pass /\ top.index <= Len(pool)

Own == entry.mod = top.mod

(* LinkConstPool() takes modules, classes and functions, PostLinkConstPool *)
(* fields and methods.                                                     *)
OfThisPass ==
    \/ AtEntry("link") /\ entry.tag \in {"MODULE_INFO", "CLASS_INFO", "FUNCTION_INFO"}
    \/ AtEntry("postlink") /\ entry.tag \in {"FIELD_INFO", "METHOD_INFO"}

(* The module itself is looked up too, but never waited for.               *)
Waits == ~Own /\ entry.tag # "MODULE_INFO"

LooksUp == OfThisPass /\ (Waits \/ entry.tag = "MODULE_INFO")

Bind(value) ==
    /\ bound' = [bound EXCEPT ![top.mod][top.index] = value]
    /\ stack' = [stack EXCEPT ![1].index = @ + 1]
    /\ null' = FALSE
    /\ UNCHANGED <<program, pc, table, stage>>

(* An entry of the other pass, or of the module's own classes.             *)
SkipEntry ==
    /\ AtEntry(top.pass)
    /\ ~OfThisPass
    /\ Bind(bound[top.mod][top.index])

BindOwn ==
    /\ OfThisPass /\ ~LooksUp
    /\ Bind(IF entry.found THEN "bound" ELSE "unset")

LoadImport ==
    /\ LooksUp /\ ~null
    /\ LoadModule(entry.mod)

(* getModule() returned nullptr: an address is computed from it, or it is  *)
(* waited for.                                                             *)
NullImport ==
    /\ LooksUp /\ null
    /\ IF Waits
       THEN pc' = "fault" /\ UNCHANGED <<program, table, stage, bound, stack, null>>
       ELSE Bind("bogus")

BindModule ==
    /\ LooksUp /\ ~null /\ ~Waits
    /\ entry.mod \in table
    /\ Bind("bound")

(* waitForStage(Ready) blocks the thread that would have to end it.        *)
Stall ==
    /\ LooksUp /\ Waits /\ ~null
    /\ entry.mod \in table /\ stage[entry.mod] # Ready
    /\ pc' = "stalled"
    /\ UNCHANGED <<program, table, stage, bound, stack, null>>

MBindUnwaited ==
    /\ LooksUp /\ Waits /\ ~null
    /\ entry.mod \in table
    /\ Bind(IF entry.found THEN "bound" ELSE "null")

(* A missing function or class is a null entry; a field or method of a     *)
(* missing class reads through the null.                                   *)
BindImport ==
    /\ LooksUp /\ Waits /\ ~null
    /\ entry.mod \in table /\ stage[entry.mod] = Ready
    /\ IF entry.tag \in {"FIELD_INFO", "METHOD_INFO"} /\ ~entry.found
       THEN pc' = "fault" /\ UNCHANGED <<program, table, stage, bound, stack, null>>
       ELSE Bind(IF entry.found THEN "bound" ELSE "null")

MLinkAgain ==
    /\ Linking /\ top.index > Len(pool)
    /\ stack' = [stack EXCEPT ![1].pass = "postlink", ![1].index = 1]
    /\ UNCHANGED <<program, pc, table, stage, bound, null>>

(* After the first pass classes and functions are linked, from what it     *)
(* bound; after the second the module is.                                  *)
EndPass ==
    /\ Linking /\ top.index > Len(pool)
    /\ IF top.pass = "link"
       THEN /\ stack' = [stack EXCEPT ![1].pass = "postlink", ![1].index = 1]
            /\ UNCHANGED stage
       ELSE SetStage(Linked) /\ UNCHANGED stack
    /\ UNCHANGED <<program, pc, table, bound, null>>

MReturnVerified ==
    /\ pc = "loading" /\ stage[top.mod] = Verified
    /\ ReturnWith(FALSE)
    /\ UNCHANGED <<program, table, stage, bound>>

ReturnReady ==
    /\ pc = "loading" /\ stage[top.mod] = Verified
    /\ SetStage(Ready)
    /\ ReturnWith(FALSE)
    /\ UNCHANGED <<program, table, bound>>

-----------------------------------------------------------------------------
Load == \/ ReadModule \/ ParseModule \/ PreverifyModule \/ VerifyModule
        \/ SkipEntry \/ BindOwn \/ LoadImport \/ NullImport \/ BindModule
        \/ Stall \/ BindImport \/ EndPass \/ ReturnReady

(* Nothing is left to load, or nothing can be loaded any more.             *)
Stopped == (pc = "idle" => table = Module) /\ pc # "loading" /\ UNCHANGED vars

Next == (\E m \in Module : Request(m)) \/ Load \/ Stopped

(* The one thread goes on as long as it can.                               *)
Spec == Init /\ [][Next]_vars /\ WF_vars(Load)

-----------------------------------------------------------------------------
(* Properties.                                                             *)

(* Modules, their stages and their constant pools keep their types.        *)
TypeOK ==
    /\ pc \in {"idle", "loading", "stalled", "fault"}
    /\ table \subseteq Module
    /\ stage \in [Module -> None .. Ready]
    /\ \A m \in Module :
           bound[m] \in [1 .. Len(program[m].pool) -> {"unset", "bound", "null", "bogus"}]
    /\ \A i \in DOMAIN stack : stack[i] \in [mod : Module, pass : {"link", "postlink"}, index : Nat]
    /\ null \in BOOLEAN
    /\ pc = "idle" <=> stack = <<>>

(* A ready module can be run: all it imports by name is bound, and belongs *)
(* to a module that is ready itself.                                       *)
ReadyIsComplete ==
    \A m \in Module : stage[m] = Ready =>
        \A i \in 1 .. Len(program[m].pool) :
            LET e == program[m].pool[i] IN
                /\ e.found /\ e.tag # "MODULE_INFO" => bound[m][i] = "bound"
                /\ e.tag # "MODULE_INFO" => stage[e.mod] = Ready

Imports(m, n) == \E i \in 1 .. Len(program[m].pool) : program[m].pool[i].mod = n

(* m imports n, directly or not: whatever has m and all that its modules   *)
(* import has n.                                                           *)
Reaches(m, n) ==
    \A S \in SUBSET Module :
        m \in S /\ (\A x \in S, y \in Module : Imports(x, y) => y \in S) => n \in S

Failed(m) == m \in table /\ stage[m] < Preverified

(* waitForStage() blocks for ever only on a module that imports the one    *)
(* that waits, directly or not, or that could not be loaded before.        *)
StallMeansCycle ==
    pc = "stalled" => \/ Failed(entry.mod)
                      \/ Reaches(entry.mod, top.mod)

(* A load comes to an end, unless it blocks or faults.                     *)
LoadEnds == pc = "loading" ~> pc # "loading"
=============================================================================
