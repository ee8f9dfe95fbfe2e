--------------------------- MODULE CodePublication ---------------------------
(***************************************************************************)
(* How a function of BibbleVM moves from the interpreter to compiled code  *)
(* while frames of it exist: the JIT compiler's threads and their queue    *)
(* (compiler/jit/compiler.cpp), the trap of ahead-of-time mode             *)
(* (compiler/aot_trap.cpp), the entry of compiled code                     *)
(* (compiler/trampoline.cpp), the construction of a frame                  *)
(* (executor/stack.cpp) and the counting of invocations                    *)
(* (executor/scheduler.cpp, native/interface.cpp).                         *)
(*                                                                         *)
(* The thread of the VM makes frames and enters them in any order; a step  *)
(* is one access to an atomic of the function, or one section under the    *)
(* compiler's mutex.  A frame stores an instruction pointer or a           *)
(* checkpoint in the same union, and which one only its maker knew.        *)
(***************************************************************************)
EXTENDS Naturals, SequencesExt

CONSTANTS
    Fn,            \* bound: the functions looked at
    Kinds,         \* what the functions may be, as below
    NoFn,          \* no function
    Worker,        \* the compiler's threads
    Frame,         \* bound: the frames that exist at a time
    NoFrame,       \* no frame
    Modes,         \* which of compiler.aot and compiler.jit are enabled
    HotThreshold,  \* compiler.jit.hotThreshold
    CountRange,    \* values of mInvocationCount (2^16)
    MaxCalls,      \* bound: invocations of one function
    Throws         \* whether compile() may throw something but Cancel

(* A function is implemented by a plugin, or the compiler accepts all its  *)
(* instructions, or it does not.                                           *)
ASSUME FnAssumption == /\ Kinds \subseteq [Fn -> {"native", "compilable", "refused"}]
                       /\ NoFn \notin Fn /\ NoFrame \notin Frame
ASSUME BoundAssumption == /\ HotThreshold \in Nat /\ CountRange \in Nat \ {0}
                          /\ MaxCalls \in Nat
                          /\ Modes \subseteq SUBSET {"aot", "jit"} /\ Throws \in BOOLEAN
(* Compiler() starts a thread.                                             *)
ASSUME WorkerAssumption == Worker # {}

VARIABLES
    mode,      \* the one of Modes the VM was started in
    kind,      \* the one of Kinds the program has
    entry,     \* mEntryPoint of each function
    units,     \* the CompilationUnits made for it; the last is the current one
    calls,     \* the invocations of it; mInvocationCount is its low bits
    frames,    \* the frames that exist: function, entry point, union
    pc,        \* where the VM's thread is
    current,   \* the frame it is at
    trapUnit,  \* the unit the trap it is in has made
    queue,     \* mCompileQueue
    stop,      \* mStop
    worker,    \* where each compiler thread is
    job        \* the function it compiles and the unit it made for it

machine == <<entry, units, calls>>
thread  == <<frames, pc, current, trapUnit>>
jit     == <<queue, stop, worker, job>>
vars    == <<mode, kind, machine, thread, jit>>

Entries == {"Interpreter", "AOTCompileTrap", "Trampoline", "FunctionTrampoline"}

fn == frames[current].fn

-----------------------------------------------------------------------------
(* An operator named M... is a mutant of a definition below it, a bug the  *)
(* code could have had; no specification uses it.                          *)

(* The linker gives a function its first entry point.                      *)
FirstEntry(f) == IF kind[f] = "native" THEN "FunctionTrampoline"
                 ELSE IF "aot" \in mode THEN "AOTCompileTrap" ELSE "Interpreter"

Init ==
    /\ mode \in Modes /\ kind \in Kinds
    /\ entry = [f \in Fn |-> FirstEntry(f)]
    /\ units = [f \in Fn |-> <<>>]
    /\ calls = [f \in Fn |-> 0]
    /\ frames = [s \in Frame |-> [fn |-> NoFn]]
    /\ pc = "idle" /\ current = NoFrame /\ trapUnit = 0
    /\ queue = <<>> /\ stop = FALSE
    /\ worker = [w \in Worker |-> IF "jit" \in mode THEN "loop" ELSE "gone"]
    /\ job = [w \in Worker |-> [fn |-> NoFn, unit |-> 0]]

(* setCompilationUnit(new CompilationUnit()).                              *)
PublishUnit(f) == units' = [units EXCEPT ![f] = Append(@, "Compiling")]

(* compile(): a native function has no instructions to refuse.             *)
Accepted(f) == kind[f] # "refused"

FinishUnit(f, u) ==
    units' = [units EXCEPT ![f][u] = IF Accepted(f) THEN "Compiled" ELSE "Failed"]

-----------------------------------------------------------------------------
(* The VM's thread.                                                        *)

(* Frame::Frame(): it copies the entry point, then looks whether there is  *)
(* a compilation unit to tell what the union holds.                        *)
PushFrame(s, f) ==
    /\ pc = "idle"
    /\ frames[s].fn = NoFn
    /\ frames' = [frames EXCEPT ![s] = [fn |-> f, entry |-> entry[f], resume |-> "unset"]]
    /\ pc' = "frame" /\ current' = s
    /\ UNCHANGED <<machine, trapUnit, jit>>

MFrameAlwaysIP ==
    /\ pc = "frame"
    /\ frames' = [frames EXCEPT ![current].resume = "ip"]
    /\ pc' = "idle" /\ current' = NoFrame
    /\ UNCHANGED <<machine, trapUnit, jit>>

FrameLooksForUnit ==
    /\ pc = "frame"
    /\ frames' = [frames EXCEPT ![current].resume = IF units[fn] = <<>> THEN "ip" ELSE "checkpoint"]
    /\ pc' = "idle" /\ current' = NoFrame
    /\ UNCHANGED <<machine, trapUnit, jit>>

MHotFromThresholdOn(s) ==
    /\ pc = "idle"
    /\ frames[s].fn # NoFn
    /\ calls[frames[s].fn] < MaxCalls
    /\ calls' = [calls EXCEPT ![frames[s].fn] = @ + 1]
    /\ pc' = IF calls'[frames[s].fn] % CountRange >= HotThreshold THEN "hot" ELSE "enter"
    /\ current' = s
    /\ UNCHANGED <<entry, units, frames, trapUnit, jit>>

(* InvokeFunction(): count; if the count is the threshold, look for a      *)
(* unit, and without one queue the function; then enter the frame's entry. *)
Invoke(s) ==
    /\ pc = "idle"
    /\ frames[s].fn # NoFn
    /\ calls[frames[s].fn] < MaxCalls
    /\ calls' = [calls EXCEPT ![frames[s].fn] = @ + 1]
    /\ pc' = IF calls'[frames[s].fn] % CountRange = HotThreshold THEN "hot" ELSE "enter"
    /\ current' = s
    /\ UNCHANGED <<entry, units, frames, trapUnit, jit>>

HotLooksForUnit ==
    /\ pc = "hot"
    /\ pc' = IF "jit" \in mode /\ units[fn] = <<>> THEN "enqueue" ELSE "enter"
    /\ UNCHANGED <<machine, frames, current, trapUnit, jit>>

(* notify_one(): one waiting thread, if there is one, goes on.             *)
NotifyOne == IF \E w \in Worker : worker[w] = "waiting"
             THEN \E w \in Worker : /\ worker[w] = "waiting"
                                    /\ worker' = [worker EXCEPT ![w] = "loop"]
             ELSE UNCHANGED worker

MEnqueueSilently ==
    /\ pc = "enqueue"
    /\ queue' = Append(queue, fn)
    /\ pc' = "enter"
    /\ UNCHANGED <<machine, frames, current, trapUnit, stop, worker, job>>

EnqueueForCompilation ==
    /\ pc = "enqueue"
    /\ queue' = Append(queue, fn)
    /\ NotifyOne
    /\ pc' = "enter"
    /\ UNCHANGED <<machine, frames, current, trapUnit, stop, job>>

(* What entering entry point e does with the current frame.  The           *)
(* interpreter needs the instruction pointer, compiled code a checkpoint,  *)
(* the baseline of the current unit, and instructions it was made from.    *)
CanRun(e) ==
    CASE e = "Interpreter"        -> frames[current].resume = "ip"
      [] e = "Trampoline"         -> /\ frames[current].resume = "checkpoint"
                                     /\ Last(units[fn]) = "Compiled"
                                     /\ kind[fn] # "native"
      [] e = "FunctionTrampoline" -> TRUE

(* The frame is left again, kept for later or popped.                      *)
EnterWith(e) ==
    IF CanRun(e)
    THEN /\ pc' = "idle" /\ current' = NoFrame
         /\ \E kept \in BOOLEAN :
                frames' = IF kept THEN frames ELSE [frames EXCEPT ![current] = [fn |-> NoFn]]
    ELSE pc' = "fault" /\ UNCHANGED <<current, frames>>

Enter ==
    /\ pc = "enter"
    /\ frames[current].entry # "AOTCompileTrap"
    /\ EnterWith(frames[current].entry)
    /\ UNCHANGED <<machine, trapUnit, jit>>

(* AOTCompileTrap(): a new unit, whatever unit there is already; then the  *)
(* compilation; then the entry point the function has by now.              *)
EnterTrap ==
    /\ pc = "enter"
    /\ frames[current].entry = "AOTCompileTrap"
    /\ PublishUnit(fn)
    /\ trapUnit' = Len(units[fn]) + 1
    /\ pc' = "trap"
    /\ UNCHANGED <<entry, calls, frames, current, jit>>

MTrapKeepsIP ==
    /\ pc = "trap"
    /\ FinishUnit(fn, trapUnit)
    /\ entry' = [entry EXCEPT ![fn] = IF Accepted(fn) THEN "Trampoline" ELSE "Interpreter"]
    /\ pc' = "jump"
    /\ UNCHANGED <<calls, frames, current, trapUnit, jit>>

TrapCompile ==
    /\ pc = "trap"
    /\ FinishUnit(fn, trapUnit)
    /\ IF Accepted(fn)
       THEN /\ entry' = [entry EXCEPT ![fn] = "Trampoline"]
            /\ frames' = [frames EXCEPT ![current].entry = "Trampoline",
                                        ![current].resume = "checkpoint"]
       ELSE /\ entry' = [entry EXCEPT ![fn] = "Interpreter"]
            /\ UNCHANGED frames
    /\ pc' = "jump"
    /\ UNCHANGED <<calls, current, trapUnit, jit>>

JumpToEntry ==
    /\ pc = "jump"
    /\ EnterWith(entry[fn])
    /\ UNCHANGED <<machine, trapUnit, jit>>

(* ~Compiler(): the flag is set under the mutex, everyone is notified, and *)
(* the threads are joined.                                                 *)
SetStop ==
    /\ pc = "idle"
    /\ stop' = TRUE
    /\ pc' = "notify"
    /\ UNCHANGED <<machine, frames, current, trapUnit, queue, worker, job>>

NotifyAll ==
    /\ pc = "notify"
    /\ worker' = [w \in Worker |-> IF worker[w] = "waiting" THEN "loop" ELSE worker[w]]
    /\ pc' = "join"
    /\ UNCHANGED <<machine, frames, current, trapUnit, queue, stop, job>>

Join ==
    /\ pc = "join"
    /\ \A w \in Worker : worker[w] = "gone"
    /\ pc' = "done"
    /\ UNCHANGED <<machine, frames, current, trapUnit, jit>>

-----------------------------------------------------------------------------
(* The compiler's threads.                                                 *)

Goes(w, from, to) == /\ worker[w] = from
                     /\ worker' = [worker EXCEPT ![w] = to]

(* workerLoop() under the mutex: wait, end, or take the oldest request.    *)
Wait(w) ==
    /\ ~stop /\ queue = <<>>
    /\ Goes(w, "loop", "waiting")
    /\ UNCHANGED <<machine, thread, queue, stop, job>>

End(w) ==
    /\ stop
    /\ Goes(w, "loop", "gone")
    /\ UNCHANGED <<machine, thread, queue, stop, job>>

Take(w) ==
    /\ ~stop /\ queue # <<>>
    /\ Goes(w, "loop", "publish")
    /\ job' = [job EXCEPT ![w] = [fn |-> Head(queue), unit |-> 0]]
    /\ queue' = Tail(queue)
    /\ UNCHANGED <<machine, thread, stop>>

MEntryFirst(w) ==
    /\ Goes(w, "publish", "compile")
    /\ PublishUnit(job[w].fn)
    /\ job' = [job EXCEPT ![w].unit = Len(units[job[w].fn]) + 1]
    /\ entry' = [entry EXCEPT ![job[w].fn] = "Trampoline"]
    /\ UNCHANGED <<calls, thread, queue, stop>>

(* compileOne(): the unit is published before there is code in it, and the *)
(* entry point once there is.                                              *)
Publish(w) ==
    /\ Goes(w, "publish", "compile")
    /\ PublishUnit(job[w].fn)
    /\ job' = [job EXCEPT ![w].unit = Len(units[job[w].fn]) + 1]
    /\ UNCHANGED <<entry, calls, thread, queue, stop>>

MRetryFailed(w) ==
    /\ Goes(w, "compile", IF Accepted(job[w].fn) THEN "entry" ELSE "compile")
    /\ FinishUnit(job[w].fn, job[w].unit)
    /\ UNCHANGED <<entry, calls, thread, queue, stop, job>>

Compile(w) ==
    /\ Goes(w, "compile", IF Accepted(job[w].fn) THEN "entry" ELSE "loop")
    /\ FinishUnit(job[w].fn, job[w].unit)
    /\ UNCHANGED <<entry, calls, thread, queue, stop, job>>

SwitchEntry(w) ==
    /\ Goes(w, "entry", "loop")
    /\ entry' = [entry EXCEPT ![job[w].fn] = "Trampoline"]
    /\ UNCHANGED <<units, calls, thread, queue, stop, job>>

(* catch (...): the thread puts its successor into mThreads, which the     *)
(* destructor may be walking through.                                      *)
Restart(w) ==
    /\ Throws
    /\ Goes(w, "compile", "loop")
    /\ pc' = IF pc = "join" THEN "fault" ELSE pc
    /\ UNCHANGED <<machine, frames, current, trapUnit, queue, stop, job>>

-----------------------------------------------------------------------------
Stopped == pc \in {"done", "fault"} /\ UNCHANGED vars

Mutator == /\ UNCHANGED <<mode, kind>>
           /\ \/ \E s \in Frame, f \in Fn : PushFrame(s, f)
              \/ \E s \in Frame : Invoke(s)
              \/ FrameLooksForUnit \/ HotLooksForUnit \/ EnqueueForCompilation
              \/ Enter \/ EnterTrap \/ TrapCompile \/ JumpToEntry
              \/ SetStop \/ NotifyAll \/ Join

Compiling(w) == /\ UNCHANGED <<mode, kind>>
                /\ \/ Wait(w) \/ End(w) \/ Take(w)
                   \/ Publish(w) \/ Compile(w) \/ SwitchEntry(w)

Next == \/ Mutator
        \/ \E w \in Worker : Compiling(w) \/ (Restart(w) /\ UNCHANGED <<mode, kind>>)
        \/ Stopped

(* Every thread goes on as long as it can; compile() returns in the end.   *)
Spec == /\ Init /\ [][Next]_vars
        /\ WF_vars(Mutator)
        /\ \A w \in Worker : WF_vars(Compiling(w))

-----------------------------------------------------------------------------
(* Properties.                                                             *)

(* Functions, frames and compiler threads keep their types.                *)
TypeOK ==
    /\ mode \in Modes /\ kind \in Kinds
    /\ entry \in [Fn -> Entries]
    /\ units \in [Fn -> Seq({"Compiling", "Compiled", "Failed"})]
    /\ calls \in [Fn -> 0 .. MaxCalls]
    /\ \A s \in Frame : frames[s].fn \in Fn => frames[s].entry \in Entries
    /\ current \in Frame \cup {NoFrame}
    /\ trapUnit \in Nat
    /\ pc \in {"idle", "frame", "hot", "enqueue", "enter", "trap", "jump", "notify", "join",
              "done", "fault"}
    /\ queue \in Seq(Fn) /\ stop \in BOOLEAN
    /\ worker \in [Worker -> {"loop", "waiting", "publish", "compile", "entry", "gone"}]
    /\ job \in [Worker -> [fn : Fn \cup {NoFn}, unit : Nat]]

(* AOTCompileTrap(): of all the frames that wait at the trap of a function,*)
(* and in whatever order they enter it, none is entered in a way its union *)
(* does not allow, once the function was compiled.                         *)
TrapFramesRun ==
    "aot" \in mode /\ pc = "fault" => Last(units[fn]) = "Failed"

(* Trampoline(): whoever holds the Trampoline as entry point finds code in *)
(* the current unit, and a checkpoint in the frame; no frame is entered    *)
(* while the trap is at work.                                              *)
TrampolineHasCode ==
    \A s \in Frame :
        pc # "trap" /\ frames[s].fn # NoFn /\ frames[s].entry = "Trampoline" =>
            /\ Last(units[frames[s].fn]) = "Compiled"
            /\ frames[s].resume # "ip"

(* A frame that got an instruction pointer can be run to its end, whatever *)
(* is compiled meanwhile: only a frame made between the publication of the *)
(* unit and that of the entry point, or after a failure, cannot.           *)
PointerFramesRun ==
    pc = "fault" /\ current # NoFrame => frames[current].resume = "checkpoint"

(* aot_trap.cpp on a failed compilation: "better to default to interpreter *)
(* than to take the whole program down with us".                           *)
FailureFallsBack ==
    pc = "fault" /\ current # NoFrame => Last(units[fn]) # "Failed"

(* The queue and the condition: a request is never left while every thread *)
(* sleeps, and none sleeps through the end.                                *)
NoMissedNotify ==
    /\ queue # <<>> => \E w \in Worker : worker[w] # "waiting"
    /\ pc = "join" => \A w \in Worker : worker[w] # "waiting"

(* The JIT compiler makes at most one unit for a function.                 *)
CompiledOnce == mode = {"jit"} => \A f \in Fn : Len(units[f]) <= 1

(* A hot function is compiled, or the program ends first.                  *)
HotGetsCompiled ==
    \A f \in Fn : f \in Range(queue) ~> (units[f] # <<>> \/ stop)

(* ~Compiler() joins its threads in the end, unless one of them dies while *)
(* it walks through them.                                                  *)
JoinReturns == pc = "notify" ~> pc \in {"done", "fault"}
=============================================================================
