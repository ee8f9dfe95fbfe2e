# BibbleVM in TLA+

BibbleVM is a register-based bytecode virtual machine in C++: a cooperative
scheduler of tasks and futures, a bytecode interpreter, a baseline compiler
used ahead of time or by background threads, a garbage collector with a
nursery and an incremental old generation, a linker for `.bmod` modules and an
interface for native plugins.  This directory models the parts of it whose
correctness depends on the order of events, and the computations whose edge
cases a test hardly reaches, checks the models with TLC on small instances, and
proves with TLAPS, for every instance, the safety of the scheduler, the
publication of code, the linker, both generations of the collector and the arena,
and that the table of levels, the command line, the layout of classes and their
virtual tables, the decoding of branches and the arithmetic of the instructions are
what they are meant to be, but for the cases that section 3 lists by name.

`framework/src/` is abbreviated `fs/` below and
`framework/include/BibbleVM/` is `fi/`.

## 1. The system

One thread, the *VM thread*, runs `main()`, the scheduler, the interpreter,
compiled code, the collector and the linker.  The only other threads are those
of the JIT compiler.  So most of the hard behaviour is not preemption but
*where in the middle of one thing another is called*: a safepoint between a
message and its handling, a module load inside a module load, a completion
inside an instruction.

| component | state | operations | calls and is called by | correct when |
|---|---|---|---|---|
| Scheduler (`fs/core/executor/scheduler.cpp`) | `mReadyQueues`, `mAllTasks`, `mExpiredTasks`, `mLevelSelection`, `mLevelCursor` | `schedule`, `run`, `RunTask`, `pickLevel`, `nextTask`, `deleteTask`, `safeDeleteExpiredTasks` | enters the interpreter, receives its `InterpreterMessage`, visits a safepoint, completes futures | no task lost, doubled or freed early; no ready task starves; `run()` returns only when nobody can go on |
| Futures (`fs/core/oop/future.cpp`, `fi/core/oop/array_view.h`) | `ready`, `cancelled`, `waiters` | `complete`, `cancel`, `addWaiter` | called by RESOLVE, CANCEL, AWAIT, by the scheduler and by plugins; put waiters back in the queues | a waiter is woken exactly once, after the completion; none waits on a completed future |
| Level selection (`scheduler.cpp`, `task.cpp`) | the table | constructor, `MapPriorityToLevel` | read by `pickLevel` | every level has a slot, a higher one more |
| Interpreter (`fs/core/executor/interpreter.cpp`) | frame registers, instruction pointer, executed instructions | one function per opcode, two interpreter loops | messages to the scheduler, allocations, safepoints | branches land where the linker put them; a task that runs long enough gives way |
| JIT threads (`fs/compiler/jit/compiler.cpp`) | `mCompileQueue`, `mStop`, the threads | `enqueueForCompilation`, `workerLoop`, `compileOne`, the destructor | publish units and entry points read by the VM thread | no request slept through; the destructor returns; nobody runs a unit without code |
| AOT trap, trampoline (`fs/compiler/aot_trap.cpp`, `trampoline.cpp`) | a function's entry point and unit | first entry of a function; entry of compiled code | from `InvokeFunction`; into the compiler | a frame is entered as what it was made for |
| Baseline compiler (`fs/compiler/compiler.cpp`) | an asmjit assembler | one translation per opcode | from the trap and the JIT threads | compiled code does what the interpreter does |
| Frames and stacks (`fs/core/executor/stack.cpp`) | frame list, registers in an arena | push, pop | scheduler, plugins, collector | a popped frame gives back what it took |
| Collector (`fs/core/gc/*.cpp`) | nursery, regions of the old generation, remembered set, mark stack, scan positions | allocate, write barrier, nursery collection, incremental mark and sweep | safepoint from the scheduler; scans tasks and stacks | nothing reachable is freed; no index is stale between two increments |
| Linker (`fs/linker/linker.cpp`) | `mModules`, each module's stage and constant pools | `loadModule`, read, parse, link, decode and patch instructions | calls itself through `VM::getModule` | each module loaded once; a ready one is complete; loads end |
| Object model (`fs/core/oop/class.cpp` and others) | field offsets, virtual tables | construction, lookup, assignability | linker, interpreter | a subclass keeps the layout of its superclass |
| Arenas, code allocator (`fs/allocator/*.cpp`) | block list, snapshots, code pages | allocate, snapshot, restore | frames, linker, compiler | a restored snapshot frees what came after it and nothing else |
| Safe arithmetic (`fi/util/safe_math.h`) | none | division, remainder, shift, conversion | interpreter, compiler | defined at the ends of every range |
| Native interface, plugins (`fs/native/*.cpp`) | local references, loaded libraries | nested `ExecuteFunction`, references, futures | plugins | a reference is valid in its frame; nested execution keeps the scheduler's messages |
| Command line (`main/src/main.cpp`) | the configuration | `ParseCommandLine`, `ApplyConfigOption`, exit codes | `main()` | each argument is read in one role; each option has the value given last |
| Values, errors, strings, start-up | plain data | construction, formatting | all of them | out of scope as behaviour over time |

The hazards this leads to, each at its line, are listed in `PROJECT.json` under
`hazards`.  The worst of them are of six kinds.

* *A look separated from the act.*  AWAIT looks whether a future is ready, a
  safepoint follows, and only then is the task added to the waiters.
* *An object in two lists.*  Ready queues, waiter arrays, `mAllTasks` and
  `mExpiredTasks` hold raw pointers to the same `Task` blocks, and the
  collector keeps an index into one of them from one safepoint to the next.
* *Publication without a lock.*  A unit is published before its code, and the
  entry point after it; frames are made at any moment in between, and store an
  instruction pointer or a checkpoint in one union according to what they saw.
* *Re-entrance.*  Linking a constant pool loads modules, which link constant
  pools; and waiting for another module's stage blocks the only thread that
  could advance it.
* *A default that turns a feature off.*  One level, a boost of 1 and a count
  kept in a local variable each undo what the configuration promises.
* *A place that is only known at compile time.*  The baseline compiler decides
  while it compiles where each register will live; every branch, call and error
  path must find it there when the code runs.

## 2. Modules

An operator `M...` in a module is a *mutant*: the definition that follows it
with a plausible bug.  No specification uses one; `PROJECT.json` names the
property that each of them breaks.

| module | models | extends or uses |
|---|---|---|
| `TaskLife` | the abstract specification: what a cooperative scheduler promises one task | - |
| `Scheduler` | scheduler, futures, the interpreter's messages, what the scheduler sees of a collection | refines `TaskLife` |
| `MCScheduler` | selection tables and symmetry for TLC | `Scheduler` |
| `DataLemmas` | facts the proof modules share: induction over the natural numbers as sets, sequences used as queues, sums, powers of two, quotients and digits | `SequencesExt`, `FiniteSetTheorems`, `FunctionTheorems`, `TLAPS` |
| `SchedulerProofs` | the proofs about `Scheduler`, and that it implements `TaskLife` | `Scheduler`, `DataLemmas`, `FiniteSetTheorems`, `TLAPS` |
| `PrioritySelection` | the construction of `mLevelSelection`, the named priorities | its result is what `Scheduler` assumes of `LevelSelection` |
| `PrioritySelectionProofs` | the proofs about `PrioritySelection` | `PrioritySelection`, `DataLemmas`, `FiniteSetTheorems`, `TLAPS` |
| `CodePublication` | JIT threads, AOT trap, trampoline, the making of a frame, the count of invocations | - |
| `CodePublicationProofs` | the proofs about `CodePublication` | `CodePublication`, `DataLemmas`, `TLAPS` |
| `MCCodePublication` | modes and kinds of functions for TLC | `CodePublication` |
| `Linker` | the stages of modules, their imports and recursive loading | - |
| `LinkerProofs` | the proofs about `Linker` | `Linker`, `DataLemmas`, `TLAPS` |
| `MCLinker` | the small programs TLC loads | `Linker` |
| `Nursery` | allocation, nursery collection, promotion, write barrier, growth | - |
| `NurseryProofs` | the proofs about `Nursery` | `Nursery`, `FiniteSetTheorems`, `TLAPS` |
| `OldGeneration` | regions, promotion into them, the incremental collection | - |
| `OldGenerationProofs` | the proofs about `OldGeneration` | `OldGeneration`, `TLAPS` |
| `Instructions` | what the bytecode instructions compute: arithmetic, moves, typed memory, arrays, strings, futures as data | - |
| `BaselineCompiler` | register allocation, the emitted operations and their execution, in lock-step with the interpreter | `Instructions` |
| `MCBaselineCompiler` | the functions, frames and objects TLC compiles | `BaselineCompiler` |
| `BytecodeDecoding` | fetching, decoding and patching of instructions, a function's entry point | `Instructions` |
| `ClassLayout` | field offsets, lists of references, virtual tables | `Instructions` |
| `Arena` | the growing arena and its snapshots | - |
| `AlgorithmsProofs` | the proofs about `Arena`, `CommandLine`, `ClassLayout`, `BytecodeDecoding` and `Instructions`, of the specification in `Algorithms` | `Algorithms`, `DataLemmas`, `TLAPS` |
| `CommandLine` | options, arguments, values, exit codes | - |
| `Algorithms` | one behaviour per computation and input, and the properties of the four above, of `Instructions` and of `PrioritySelection` | these |
| `MCAlgorithms` | the inputs TLC tries | `Algorithms` |

### Scheduler

`pc` is the place of the VM thread:

    boot -> pick -> exec -> safepoint -> message -> pick ...
                      |                     |
                      +------> wake <-------+          exit, fault

`boot` is `main()` before `run()`; `pick` the top of `run()`; `exec` the
interpreter between two instructions; `safepoint` the call of
`MemoryManager::safepoint()` in `RunTask()`; `message` the switch of `run()`;
`wake` the loop of `Future::complete()`, which RESOLVE and a returning task
share; `fault` a read through a null pointer.  The program is arbitrary: in
`exec` any instruction the model knows may come next, with any operand, so a
behaviour of the model is a behaviour of some bytecode program.

`readyQueues`, `allTasks`, `expired`, `cursor`, `waitingOn`, `waiters`,
`capacity`, `ready` and `cancelled` are the members of the same names.
`allTasks` is a set, because only the collector depends on the order.  Task
addresses are reused after `delete`, as `new` may.  A safepoint leaves the
collector running or idle, whichever it likes; that is all the scheduler can
observe of it in this model, which moves no objects.

`Schedule` makes the block and its future before it looks at `maxTasks`, as the
code does.  `AllocateFuture` allocates the future and its waiter array
separately, so either may fail.  `AddWaiter` doubles the array; when that
fails, the old array is gone and the count of waiters is not: those listed stay
listed, and whoever comes next is forgotten.  `PickLevel`
keeps the low byte of the cursor as the start of the round, `CursorRange`
values of it.

`TaskLife` has a state per task (`none`, `ready`, `running`, `waiting`) and a
set of open gates, and fairness of waking only.  `Life` in `Scheduler` is the
refinement mapping: a task's state is read off the one place it is in, gates
are futures, and a gate is open when the future is `ready`.

### PrioritySelection

The constructor's loops as one variable per local: it starts from each
configured number of levels, boost and weight rule and appends the slots of one
level per step.  `MapPriorityToLevel` is in `uint8_t` arithmetic, which wraps
for fewer than two levels and is clamped by `enqueue()`.

### CodePublication

Frames, functions and compiler threads.  A frame carries the entry point it
copied when it was made and whether its union holds an instruction pointer or a
checkpoint.  A step is one access to an atomic member of a function, or one
critical section of the compiler's mutex: that is where the JIT threads and the
VM thread can interleave.  `compile()` accepts a function or refuses it; a
native function, whose "instructions" are a union member away, is accepted as
garbage.  With `Throws`, `compile()` may raise what `workerLoop()` catches, and
the dying thread appends its successor to `mThreads`.

### Linker

`stack` is the C++ call stack of `loadModule()`, innermost first, each with the
pass over the constant pool it is in and its position.  `table` holds the names
in `mModules`, which a module joins before its file is looked for and never
leaves.  `LoadImport` is the recursive call, `null` its null result; `Stall` is
`waitForStage(Ready)` when the stage is not reached, which blocks the only
thread there is (`pc = "stalled"`), and `fault` is a read through a null module
or class.  Entries of the pool that name nothing in another module, the layout
of classes and the decoding of instructions are left out.

### Nursery

Spaces are counted in objects, an object has one reference field, and `heap`
maps each space to its sequence of objects; a pointer is a space and a position.
`means`, `holds` and `field` say which object the program put into a reference,
a register and a field; the properties compare them with what the pointers lead
to.  `pc` is `run` (the program), `collect` (inside `nurseryCollect()`), `fault`
(a copy that does not fit is made at address zero) or `stale`: the program has
used a pointer the collector left behind, in a register (`fresh` names the
registers that are up to date), in a promoted object's field, in the field of
a copy that a pause left unscanned, or it has read or written an object through a
reference that a pause left unforwarded, after the object was copied, or that a
growth left behind (`Outdated`).  Anything may follow such a use, so the model stops there.

`ScanRoot` forwards one root, and no register, as the inverted test of line 254
has it.  `unscanned` holds the roots still to come: the completion futures of the
tasks (`Completion`), which the loop over `allTasks` forwards first, and then the
strong references, in any order, as the code keeps them in a hash set.
A reference made in a pause of this phase joins them (`Insert`), as the loops start
from the vector and the set as they are.  `RootsScanned` ends the phase;
`ScanRemembered` and `ScanObject` are one iteration of their loops.  `Pause` may
come wherever the code asks, before a task, a remembered object or an object of
the Cheney scan (`Unfinished`), once the safepoint has done some work; the code
asks every 256 iterations, counted anew at each safepoint.  `Unfinished` lets a
pause come after the last completion future too, because other tasks, whose
futures nobody refers to, may be left.  `Copy` overwrites the heap
ID that `OldGenHeap::allocate()` had set, so `SetFieldValue`, which is the write
barrier too, remembers nothing, and the loop of `ScanRemembered` never has an
entry: the model keeps both, because that is what the code does.  `Finish` is
the swap (`Swap`), or the swap and `resizeNursery()` (`Grow`), which may find no
memory and then does nothing.  Growing moves the objects, the registers and the
strong references, and not the completion futures of the tasks: `Outgrown` names
those that lead into a nursery that was freed, and a use of one is a use of a stale
pointer.  The model gives each nursery addresses of its own, so an outgrown
reference never happens to lead into a later nursery.  Writing a field from bytecode and from a plugin
are the same function, so only the plugin's form is an action.

### OldGeneration

`regions` is the chain from `mHead` on, each with its live bytes, allocation
pointer and memory: the header of an object at its first granule, `Inside` at
the others.  `at` is `mState`, the place where the phase under way is, which the
code keeps from one safepoint to the next; one step is one round of a loop that
looks at the clock.  What a frame, a future or a field holds is left open
(`MarkAny`): the properties are about the walk over memory, not about which
object is reachable.  `Copied` is the header that `forward()` writes over the one
`allocate()` made, mark bit and heap ID included; as a consequence
`ContainsObject` is false of every promoted object, nothing is ever marked, and
each sweep deallocates all it finds, and again the next time, because
`deallocate()` only counts.  Counts are kept modulo `SizeRange`, so that they
wrap as the code's do.  `PromoteToNull` is a promotion that finds no memory.
Regions are taken to be aligned to their size, which `getObjectRegion()` relies on
and `Region::Create()` does not ask the system for.

### Instructions

Operators from a frame's registers, a heap and an instruction to a message, the
registers and the heap after it (`Interpret`).  A word has 8 bytes of `ByteBits`
bits, so that with one bit per byte all widths keep their ratio to each other and
all words can be enumerated.  Handlers that write one member of the `Value` union
leave the tag as it was (`SetBits`), or the other bytes (`WithLow`), as the code
does.  Where the code's outcome is undefined - a division trap, an index behind
the array, an address that is no object - the message is `Undefined` and a model
that runs instructions stops there.

### BaselineCompiler

`Compile` is the compiler: it goes through the instructions once, with the place
of each register (`place`), the registers taken (`alloc`) and the temporaries in
scope, and appends operations to the block of the instruction.  An operation is
one emitted machine instruction, or the two or three that belong together, and
`Execute` says what the processor makes of it.  The order in which a C++ compiler
evaluates the arguments of one call is open, so `leftFirst` is chosen freely.

A behaviour is one function, with one frame: `CompileFunction` compiles it; `Run`
interprets one instruction and executes the block emitted for it; `Resume` enters
the code again at its checkpoint, after a call or a yield, with machine registers
that hold junk, as a new entry by the trampoline leaves them.  `View` finds a
register where the compiler believed it to be when it bound the label.

The allocator has weaknesses that the code meets in ordinary functions.
`unsound` collects their names during a compilation, and the properties are about
those that meet none:

| name | where | what happens |
|---|---|---|
| `join` | `compiler.cpp:142` | a branch reaches a label with registers in other places than the fall-through left them |
| `clobber` | `:319`, `:337` | after a checkpoint the registers put back are free for the allocator |
| `stolen` | `:261` | the second of two operands, or a temporary, takes the register of the first |
| `unloaded` | `:667` | operands of an array access are loaded on the first of four paths only |
| `popped` | `:741`-`:744` | a saved register is restored over the result of the platform call |
| `immediate` | `:596` | an immediate from 2^31 on is stored with its sign extended |
| `exhausted` | `:273` | no register is left, and none to spill |

### BytecodeDecoding

`InstStart` is the walk that `DecodeInstructionCount()` and `DecodeInstructions()`
make through the bytes, `Operands` the table that `DecodeArgs()` is, `Width` the
prefixes' effect on an operand, and `Patched` the loop that turns the offset of a
branch, in bytes from its end, into a distance between instructions.  The lengths
of instructions come from the `bibblebytecode` library, which is not part of this
repository, and is taken to give prefixes, opcode and operands.  Code that is
rejected gives a function without instructions, which the linker accepts
(`linker.cpp:580`).

### ClassLayout

`LinkClasses` makes the classes of a module in the order of their declaration; a
superclass that stands behind its subclass is read before it is laid out
(`Garbage`).  The list of reference runs is kept in words of the arena, because
`sortFields()` allocates room for the superclass's runs only, moves one run ahead
and then writes one more: what it writes lands in the next allocation, and what
the next allocation holds becomes part of the list.  `crashed` is a method that a
subclass adds: `createVtable()` looks for its name in slots that are still null.
A class may declare a name twice: the first slot of the name is the one that is
found (`SlotOf`), and the last method of the name is left in it.

`Declarations` is what the model takes, not all that a module file could say.  A
superclass may be an imported class (`linker.cpp:117`, `:214`): its module is
ready then, and its classes stand in front of the module's own in the same
sequence, as if both shared one arena.  The type IDs of fields, which nothing
validates, are taken to be types; any other would index outside the buckets.

### Arena

A region is what it believes committed, and `open`, the pages that really are.
`committed` is never brought up to date, so the pages behind it are committed
again at each allocation.  The system may refuse pages or a region; after a
refused region `mHead` is null and the chain is lost (`Refuse`).  A snapshot
remembers region and fill, and, for the property, the chain it was taken of.

### CommandLine

Arguments are records of their form; a value is a number with a unit.
`ParseArgument` is one iteration of the loop, `Finish` and `RunModule` are what
`main()` makes of the outcome.  Numbers narrow to the field of `Config` they go
to.  The parser has ways of its own which no document forbids: `5ns` is read as
seconds, an unknown `--option` and a valued option at the end are ignored, a value
that is no number ends the program by an exception nobody catches.

### Algorithms

Chooses one problem - a table of levels, a word, a floating-point number, a piece
of bytecode, a module's classes, a command line, an arena - and leaves it there;
only the table of levels, built level by level, and the arena have steps.  The
properties are reference definitions in terms of what the result is for: integers
instead of bits, fields written and read instead of offsets, the nearest class
that declares a method instead of slots, roles of arguments instead of a loop.

## 3. Runs

| run | question | instance | result |
|---|---|---|---|
| `scheduler_safety` | Is a task ever lost, in two places, freed early or left waiting on a completed future? | 3 tasks, 3 futures, 2 levels, linear table, calls 1 deep | holds |
| `scheduler_liveness` | Does each ready task run, does each task go on whose future completed, and is `TaskLife` implemented? | 2 tasks, 2 futures, 2 levels, exponential table, auto-yield after 2, calls 2 deep, `CursorRange` 3 | holds |
| `scheduler_heap_failure` | What survives failing allocations and a task limit that is hit? | 3 tasks, 3 futures, 1 level, limit 2 | no task queued twice, no stale waiter listed, none forgotten but with its array, tasks refused only at the limit |
| `scheduler_lifo` | Does auto-yielding let others run? | 1 level | violated |
| `code_publication` | Can a frame be entered as what it is not; is a request or the end slept through? | 2 functions, 2 frames, 2 threads, 2 calls each, JIT or AOT, `Throws` | holds |
| `aot_fallback` | Does a failed AOT compilation fall back to the interpreter? | AOT only | violated |
| `linker_loads` | Is a module ready too early; what can a load wait for; does it end? | 3 modules, 2628 programs | holds |
| `nursery_collect` | Does a reference or field ever lead to the wrong object; is one copied twice, garbage kept, room short, a collection endless? | 3 objects, 1 strong reference and 1 completion future, 1 register, spaces of 2, one growth that may fail, promotion at age 1 | holds |
| `nursery_registers` | Does a register's object survive? | 2 objects | violated |
| `old_generation` | Does the sweep ever stand inside an object; does a collection end? | objects of 1 and 2 granules, 2 to 3 regions of 3, counts modulo 16, 1 task, frames 2 deep | holds |
| `baseline_compiler` | Does compiled code do what the interpreter does, and does the collector find the same roots in its frames? | functions of up to 3 instructions and a return, 3 registers, 5 machine registers, 10 frames, bytes of 1 bit | holds |
| `algorithms` | Do the computations give what they are for? | see below | holds |

### Why the bounds are enough

*Scheduler.*  Two tasks are needed for a wake-up and a third for a second
waiter behind the first, which also makes the waiter array grow from 1 to 2.
Three futures are two completion futures and one made by the program.  Two
levels make the FIFO case, the table and the search from level 0 all happen;
one level is the stack.  `MaxDepth` 2 is needed where calls matter (returning
from a callee does not end the task), 1 elsewhere.  `CursorRange` stands for
the 256 values of `uint8_t start`.  In the safety runs the table is far shorter
and it never bites; in `scheduler_liveness` it is 3 for a table of 4 slots, as if
a table had 257.  A round that begins at the last slot then ends behind it: it looks
at the lower level only, may find it empty while the upper one has tasks, and the
search from level 0 takes over.  (With a range of 2 every round would still see both
levels.)  Symmetry over tasks and futures is used in the safety
runs only.

*Publication.*  Two frames make the case "one frame made before, one after the
publication"; two compiler threads make `notify_one` choose.  The invocation
count crosses its threshold of 1 once; its wrap at 2^16 is not reached.

*Linker.*  The program set has imports of oneself, chains, cycles of two and of
three, a module that imports the same thing twice, missing names, and a module
whose file is absent or malformed, imported once and twice.

*Nursery.*  Two references share an object or hold a parent and its child.  Three
objects in spaces of two fill the nursery twice, so an object is copied, ages,
is promoted at the second collection, and one is allocated among the copies of a
paused collection.  One of the references is a completion future (`Completion =
{1}`), so the two loops over roots each have one, and a pause comes between them.
With two live objects the nursery grows once; with fewer it
does not.  The growth may also fail.  The thresholds are the defaults, 95 and 60
percent.

*Old generation.*  An object of 1 and one of 2 granules leave a rest in a region
of 3, so regions end in the middle of what a request needs; two regions make the
sweep move on, a third is the growth, and its refusal the null promotion.  Counts
wrap at 16, beyond the 9 granules there are, so a second deallocation reaches
the wrap.

*Compiler.*  Of the five machine registers three are kept by a callee, the fewest
with which ARRAYGET has both operands and the address of the element in registers
that its platform call saves: with two, every compilation of it meets `unloaded` or
`popped` (System V has four, Windows six).  Two more are volatile.  ICMP, with two
operands and three temporaries, takes all five, so they run out.  Two instructions are any pair of 20, three any of 11 that
move values between frame and registers most; with branches forward, back and to
the end, calls, yields, and objects of both element kinds, a wrong kind, null and
a number in the first register.  The callee returns a number or an object.

*Algorithms.*  All 256 words of 8 bits; two floating-point formats, one wider in
range than a word and one with more digits than range; bytecode of up to four
bytes over eight opcodes and prefixes, some of five and six that branch back;
modules of two classes with up to two and three fields of four widths, and of
three classes, in and out of order, with and without references and overridden
methods; 0 to 6 levels, boosts 0 to 3 and both weight rules; command lines of up
to four of 12 arguments; arenas of up to three regions with two snapshots, and
requests that fit, that exactly do not, and that are larger than a region.

`CHECK_DEADLOCK` is off for `baseline_compiler`, where a function returns or
gives an error and there is nothing after it, and for `old_generation`, where the
program has stopped once it has written through null.  It is on everywhere else;
where the system may stop, an action `Stopped` (or `Done`) says so.

### Fairness

`Scheduler` has weak fairness of the whole next-state relation: one thread that
goes on as long as it can.  It does not make the program give the thread back.
`NoStarvation` and `AwaitResumes` therefore assume `[]<>(pc = "pick")`, that
`run()` is reached again and again; auto-yielding alone does not ensure it, because
the count of executed instructions is a local of the interpreter, which is
entered anew after each call and return.  `CodePublication` has weak fairness of the VM thread
and of each compiler thread, and not of `Restart`: every thread is scheduled by
the operating system and `compile()` returns.  Fairness of the mutex is not
needed beyond that, because a critical section is one step.  `Linker` has weak
fairness of the load under way.  `Nursery` has weak fairness of the collector's
actions and none of `Pause` or the program: a program comes by safepoints, and
`shouldPause()` may say yes whenever it is asked.  `OldGeneration` has weak
fairness of `StepCollection`: safepoints come again and again, with a deadline
that leaves time for a step now and then (without a deadline the loop of
`stepCollection()` is not entered at all); a promotion is never fair.  `TaskLife!Spec` promises only that a woken
task becomes ready.

### Findings

* `scheduler_lifo`: with one level, the default, `enqueue()` is a stack, so a
  task that auto-yields is picked again at once, although `config.h:61` says
  yielding allows "the scheduler to run other tasks".
* `aot_fallback`: after a failed compilation the unit stays published, so the
  second frame of the function enters the interpreter with a checkpoint where
  the instruction pointer should be.
* `nursery_registers`: the test that begins the walk over a task's frames is
  inverted, so registers are not scanned, although the comment above the loop
  says that the stack root set is.

The passing properties also mark limits of the code, which the models have and
the properties except by name.

* `RefusedOnlyWhenFull` says when `schedule()` refuses a task.  It has then made
  a block and a future and returns a null that CALLA reads through: the block is
  lost and the program at its end (`config.h:55` speaks of an exception and a
  shutdown of the VM).  It also refuses below the limit, while a collection keeps
  ended tasks in `mAllTasks`.
* `WaitersAgree` excepts the waiters of a future whose array failed to grow: they
  wait for ever, also if the future completes.  `NoLostWakeup` is checked with a heap
  that suffices.
* `PointerFramesRun` says that a frame with an instruction pointer can always be
  run; a frame made between the publication of a unit and that of the entry point
  cannot.
* `StallMeansCycle` says that loads block only on cycles and on modules that failed
  before; on those they do, because `PreverifyModule()` looks at nothing, and the
  first import from a module that does not exist is a read through null.
* `EveryLevelServed` excludes a boost of 0 or 1, which cuts even the linear table to
  the top level, although `config.h:67` says the boost is used by exponential
  weights only, and orders no priorities with two and three levels, where
  Background is mapped above Low.
* `GraphIntact` excludes the young children of promoted objects, which nothing
  remembers, the completion futures of tasks once the nursery they lie in has been
  replaced by a larger one (`Outgrown`: `resizeNursery()` does not adjust them), and
  what follows the use of an outdated pointer: in particular, what
  the program writes to an object through a reference not yet forwarded, in a
  pause of the roots phase, is lost if the object has been copied already.
  `SpaceSuffices` excludes a collection during whose pauses the program
  allocated: then a copy may find no room.
* `SweepOnObjects` is about the walk; what is swept is everything, as nothing
  promoted carries the old generation's heap ID, and nothing is said of the counts.
* `CompiledAgrees` and `RootsTagged` exclude compilations that meet one of the
  seven weaknesses above.
* `InstructionsExact` excludes right shifts of negative numbers by any number of
  places but one (`SignMisplaced`): the sign is moved to one bit only, which is too
  few for two places and more, and the lowest bit for 0 places, where
  `safe_math.h:121` shifts by -1.  It also excludes conversions of numbers whose
  mantissa loses digits in the shift before the test for saturation (not
  `KeepsDigits`).
* `BranchesLand` is about the auto-yielding interpreter and compiled code; the
  plain interpreter adds one to the distance the linker made, and so runs the
  instruction behind the target.  A repeated prefix makes the length too small.
* `LayoutSound` and `DispatchFindsOverride` assume superclasses declared first and a
  linker that has not crashed, as it does on a subclass with a method of a new name.
  The runs of references are stated for classes whose chain adds none below its root:
  the list of the others is written outside its memory (`RunsMisplaced`), and no
  property says what the collector visits then.  The dispatch excepts the second and
  later methods of a class without a superclass, whose index stays 0 (`IndexNotSet`).
* `ArenaSound` excepts a request as large as a region of its own, which has no room
  for the region's header.

## 4. Proofs

Every theorem is about all values of the constants that meet the named
assumptions of its module; TLC evaluates these in the runs.  The table names the
results; "run" is the property that TLC checks on a small instance.

| module | theorem | states | run |
|---|---|---|---|
| `SchedulerProofs` | `TypeCorrect` | `Spec => []TypeOK` | yes |
| | `EveryTaskInOnePlace` | `Spec => []ExactlyOnePlace` | yes |
| | `NoTaskQueuedTwice` | `Spec => []QueuedOnce` | yes |
| | `WaitersKeepAgreeing` | `Spec => []WaitersAgree` | yes |
| | `AllTasksAppendOnly` | `Spec => AppendOnlyDuringGC` | yes |
| | `BlocksFreedWhenDone` | `Spec => FreedOnlyWhenDone` | yes |
| | `WokenOnlyByCompletion` | `Spec => WokenByCompletion` | yes |
| | `SchedulerIsTaskLife` | `Spec => Life!Safety` | with fairness |
| | `NoWakeupLost` | without heap failure, `[](WaitersListed /\ NoLostWakeup)` | yes |
| | `ReturnsOnlyWhenStuck` | without heap failure, `[]ExitMeansStuck` | yes |
| | `RefusalsHaveCause` | `Spec => []RefusedOnlyWhenFull` | yes |
| `CodePublicationProofs` | `RequestsFindAThread` | `Spec => []NoMissedNotify` | yes |
| | `PointersStayGood` | `Spec => []PointerFramesRun` | yes |
| | `TrapIsReentrant` | unless both compilers are on, `TrapFramesRun` | yes |
| | `OneUnitPerFunction` | as long as `CountsFresh`, `CompiledOnce` | yes |
| | `TrampolinesHaveCode` | unless both compilers are on, and for the JIT as long as `CountsFresh`, `TrampolineHasCode` | yes |
| `LinkerProofs` | `ReadyModulesComplete` | `Spec => []ReadyIsComplete` | yes |
| | `StallsAreCycles` | `Spec => []StallMeansCycle` | yes |
| `NurseryProofs` | `GraphStaysIntact` | `Spec => []GraphIntact` | yes |
| | `CopiesAreUnique` | `Spec => []CopiedOnce` | yes |
| | `RoomSufficesWithoutPause` | `Spec => []SpaceSuffices` | yes |
| | `CollectionsFreeGarbage` | `Spec => GarbageFreed` | yes |
| `OldGenerationProofs` | `SweepStaysOnObjects` | `Spec => []SweepOnObjects` | yes |
| `AlgorithmsProofs` | `ArenaIsSound` | `AllSpec => []ArenaSound` | yes |
| | `PopsRestore` | `AllSpec => RestoreUndoes` | yes |
| | `CommandLinesAreRead` | `AllSpec => []OptionsReachConfig` | yes |
| | `CallsFindOverride` | `AllSpec => []DispatchFindsOverride` | yes |
| | `LayoutIsSound` | `AllSpec => []LayoutSound` | yes |
| | `BranchesFindTargets` | `AllSpec => []BranchesLand` | yes |
| | `InstructionsAreExact` | `AllSpec => []InstructionsExact` | yes |
| `PrioritySelectionProofs` | `LinearTableServes` | with linear weights, `[]EveryLevelServed` | yes |
| | `FittingTableServes` | as long as `WeightsFit`, `[]EveryLevelServed` | yes |
| | `OrderedTableServes` | as long as `WeightsOrdered`, `[]EveryLevelServed` | yes |

Each module has the same plan: an inductive invariant `IInv`, a lemma that `Init`
has it, one lemma per action (or per kind of action) that a step keeps it, a
theorem `Invariance`, and from that the properties.  The statement and the proof
of a lemma about an operator come before the actions that use it, so that no
action's proof looks inside a sequence or a heap.

### Scheduler

*Assumptions.*  There is at least one level, the table is a nonempty sequence
of levels (`EveryLevelServed` checks that the constructor makes such a table), the
null values are no tasks or futures, and the numbers are natural.

*The first invariant.*  `ExactlyOnePlace` is not inductive: to see that a task
popped from a queue is nowhere else, one must know that queues hold no task
twice (`QueuedOnce`); to see that a woken waiter leaves its wait, that a listed
waiter waits on that future (`ListedWait`); and to see that the task a message
is about is the running one, that the control state and message fit together
(`ControlAgrees`).  `IInv` is the conjunction of these with the type invariant
and `ExpiredOnlyDuringGC`.  What an action does to the places of tasks goes
through the lemmas of `DataLemmas` on sequences without repetition
(`AppendElements`, `PushFrontElements`, `TailElements`) and two on queues
(`EnqueueEffect`, `PopEffect`).  None of it needs allocations to succeed.
On it rest two facts of the other direction: that a waiting task is listed as long
as its future has an array (`LostWithArray`), and that a block missing from
`mAllTasks` was refused with a cause (`RefusalCause`).

*The second invariant.*  That every waiter can be found again does depend on
the heap: when a waiter array fails to grow, its waiters are forgotten.  `HInv`
therefore holds under `~HeapMayFail`: arrays exist and are large enough
(`Heap`), queues are empty before the first and after the last task
(`Drained`), every waiting task is listed by its future (`WaitersListed`), and
nobody waits on a ready future outside of the loop that wakes it
(`NoLostWakeup`).  The race around AWAIT is decided by one conjunct of
`ControlAgrees`: a future that is awaited in a message under way is not ready,
because only an instruction of a running task completes futures and none runs
between the look and `addWaiter()`.

*The refinement.*  `Life!Safety` is the abstract `Init` and `[][Next]` without
its fairness.  Each action of the scheduler is shown to change the place of at
most one task: most leave all of them (`StaySteps`), `Pick` is the abstract
`Run`, the handlers of messages end a turn, `WakeOne` opens a wait.  `IInv` is
needed for each: without `ExactlyOnePlace` the state of a task that is read off
its place would not be one state.

### Publication of code

*Assumptions.*  There is at least one compiler thread; the threshold and the
range of the count are natural, the latter not 0.

*The invariant.*  `NoMissedNotify` and `PointerFramesRun` hold in every mode and
need only that the VM thread's place fits its frame (`ControlAgrees`) and that
frames and functions agree on entry points (`EntriesAgree`): the trampoline is
seen only after code was accepted, so a frame that copied it holds a checkpoint.
The other three properties are about one compiler at a time, because with both the
unit that a trap fills need not be the last one.  `TrapAgrees` says of the
ahead-of-time mode that the trap's unit is the current one and that each settled
function has the outcome of its compilation; `RequestedOnce` says of the JIT that a
function is counted hot, queued, taken by a thread, or compiled, one of these at a
time.  The latter holds as long as no invocation count has gone round its 2^16
values (`CountsFresh`): with the count back at the threshold the code asks for the
function again, and `CompiledOnce` is false.

### Linker

*Assumptions.*  Each program gives each module a pool of entries.

*The invariant.*  A stall is a cycle because the stack is a path: each module on it
reaches every module above it through imports (`StackAgrees`), and all but
the innermost are in the linking stage.  A module off the stack that is in the table
is ready or was given up before linking (`TableAgrees`).  That a ready module is
complete needs what each pass has been over (`PassesAgree`): entries of classes and
functions in the first, of fields and methods in the second, in the order of the
pool.  `Reaches` is membership in every set closed under imports, so its proofs need
no induction over paths.

### Nursery

*Assumptions.*  `SizeAssumption`: a space has room for an object, the percentages
are between 1 and 100, the other numbers natural.  Nothing is assumed of the number
of references, of the promotion age, or of the shape of the object graph.

*The invariant.*  `GraphIntact` says nothing of a safepoint under way and is far from
inductive.  `HeapOK` is about the spaces in use: only objects of the space copied
from have a copy, it is in another space and is the same object (`ForwardsIn`); of
the objects without a copy no two are the same (`UniqueIn`); their fields lead to
what the program put there (`ChildrenIn`).  It is stated of any heap, so that one
lemma, `ForwardOK`, says what `forward()` makes of it, and the roots, the scan and
the remembered set all use that one.  `RefsOK`, `RegistersOK` and `ScanOK` say how
far the collection has come: a root that was scanned, and a field behind the scan,
does not lead to the space copied from.  So at the end nothing does (`CopiesSettle`),
and the space can be left.  A growth moves all of these by one offset; a completion
future that it leaves behind is `Outgrown` from then on, because nurseries are
numbered upwards, and nothing more is said of it.  `Types` has the fact that `remembered` is empty, because
no object ever carries the heap ID of the old generation (`hazards`,
`memory_manager.cpp:470`).

*Room.*  Each copy in the other space is that of an object of its own in the first
one (`CopiesIn`); by the pigeonhole principle there are no more copies than
objects, and the spaces are of one size.  An allocation in a pause breaks `CopiesIn`,
which therefore is kept only while `~paused`.

*Garbage.*  `NoGarbage`: in a collection that has not paused, every copy is of an
object the program can reach.  A root leads to one, and a field of one to another.
`Reachable` is membership in every set closed under fields, again without
induction.  In a pause the program may drop what was copied, so the property and the
invariant are about collections without one.

### Old generation

*Assumptions.*  `HeapAssumption`: regions and objects have a size and an object fits
into a region; counts have a range beyond all the memory there is.

*The invariant.*  `SweepOnObjects` needs that whole objects fill each region from its
start to its allocation pointer, with no header inside of another object
(`Filled`), for regions the sweep has not come to as well.  A promotion writes
behind the last object (`FilledFurther`), also into the region the sweep
is in and at the very place where it stands; that is why `OnObject` counts the
allocation pointer as a place to stand.  `ChainOK` numbers the regions from the end
of the chain, so that the place of the sweep survives `grow()`, which puts regions in
front.

### Arena

*Assumptions.*  `ArenaAssumption`: a page is a multiple of the unit sizes are rounded
to and has room for a region's header, which is not empty; `RequestsAssumption`: sizes
are natural.

*Commitment.*  A region believes its first page committed, or all of it, and never
learns of more.  That the pages it commits for a block are nevertheless enough is
`CommitCovers`: if eight times the block is more than the rest it believes uncommitted,
it commits the length of that rest, but from the fill on, and because the header has
taken at least one byte this reaches into the last page.  Without a header it
would end one page short.

*The invariant.*  `ArenaInv` of one arena, kept by every operation whatever the system
refuses.  That blocks stay apart after a restore needs that each block a snapshot is
to keep ends below the snapshot's fill (`SnapshotsFit`), and that region numbers are
never used twice (`IdsGrow`): a snapshot of a lost chain restores nothing.  For
`RestoreUndoes` the chain of each snapshot is the beginning of the arena's, filled
as it was in all regions but its last (`Remembered`), and younger snapshots have
chains as long at least (`ChainKept`), which is so until the system refuses a region.

### Table of levels

*Assumptions.*  `ConfigAssumption`: levels and boost are bytes.  The theorems are about
`PrioritySelection!Spec`, of which the behaviours of `Algorithms` that build a table are
behaviours.

*The invariant.*  The levels behind `next` have as many slots as their weight, and
the others none yet (`TableInv`); one level more adds an interval of places that
is its own (`LevelAppended`).  The named priorities fall on levels in their order
from four levels on, through the bytes in which they are computed (`PrioritiesInOrder`).
The argument needs that each level has a weight and a lower one no larger
(`WeightsOrdered`).  The linear rule gives such weights.  The exponential rule gives
powers of the boost that wrap; as long as the largest of them is below 2^32
(`WeightsFit`) none does, and they fall from level to level
(`FittingTableServes`).  Beyond that they need not.

### Command line

*Assumptions.*  `CommandLinesAssumption`: a command line is a sequence of arguments,
each of one of the forms that `ParseCommandLine()` tells apart, as any `argv` is.
`UnitAssumption`: units and ranges are positive.

*The argument.*  The property gives each argument a role by looking at the whole line;
the code reads from left to right and lets an option consume what follows it.
`ReadRight` compares the two up to a place of the loop, and holds only at places
where the loop really stops: at arguments that are no option's value.  That the
loop reaches no others is `ValuesPairOff`.  Each turn then extends what was read by
one setting, one word, or nothing (`Passed...`), and the loop comes to the end
because every turn moves it on.

### Classes

*Assumptions.*  `ModulesAssumption`: the classes have a superclass among them or none,
fields of the seventeen types, and methods of any names, equal ones included; see
`ClassLayout` above for imported superclasses and type IDs.  `LayoutAssumption`: an
address is a word, and not null.

*Virtual tables.*  The linker is a recursion over the classes, of which the proof makes
the sequence of the module's states (`TraceExists`).  Once linked, a class keeps its
tables, and they are made from those of its superclass (`TablesLinked`).  The
superclasses up to the root are a line; going down that line, the first slot of each
name holds the method of the nearest class that declares it (`LineServed`).  A method
of a subclass is found in that slot, and the first method of the root is in it; the
root's other methods have no index, so nothing is claimed of calls that name them, nor
of modules on which the linker crashes.

*Fields.*  Offsets are sums of sizes over the fields in front, in the order of the
buckets that `sortFields()` fills.  In that order each size is a multiple of the
next, so that what stands in front of a field is a multiple of its size; and a class
begins behind the end of its superclass, so that fields of two classes of a line are
apart as well.  That a field keeps what was written, while all others are written, is
then a fact about bytes as digits.

*References.*  Words of the linker's arena below `used` never change again, so the list
of runs that a class was given is still there when the collector asks for it.  A
class whose line adds references at the root only has the root's one run, and the
ranks of its references are all the numbers below their count, with no gap.  Nothing is
proved of the runs of other classes, which the code gets wrong (`RunsMisplaced`).

### Branches

*Assumptions.*  `CodesAssumption`, `CodeAssumption`: code is a sequence of bytes, and each
byte has a meaning.

*The argument.*  The walk over the code keeps only places that can be fetched from, so
each instruction found has all its operands.  As long as no prefix is repeated, the set
of prefixes, by which the code computes the length, has as many members as there are
prefix bytes, so the length is right; the offset is the last operand
and so ends where the instruction ends.  `readLE()` puts its bytes together as
digits, and the sign of the result is the top bit of the last one.  Code in which the
offset names no instruction is rejected, so there is a distance to choose, and the
landing is the instruction that begins there.

### Instructions

*Assumptions.*  `ByteBitsAssumption`: a byte has bits; `WordsAssumption`: a register holds
a word.  `FloatsAssumption`: a format has bits for the exponent and fewer for the
fraction than a word has, as `float` and `double` do, and a number's parts are in their
range.  TLC tries all words with bytes of one bit; the theorem is about
bytes of any width, and so about the 8 bits of the code.

*The argument.*  A word is the sum of its bits (`BitsMakeUp`), so filling in or taking away
bits is adding or taking away powers of two; that gives conversions that keep their
digits, and the shifts whose sign goes to the right place: of words that are not
negative, and of all words by one place.
Narrower members of the union are remainders, and since each width is a
part of the next their signs agree (`CutFacts`).  Arrays and strings are words as
digits, one per byte (`WordStored`, `OneByteRead`).  What a short program does is its
instructions one after the other (`AfterTrace`), each of which has one outcome.

### Only model-checked

* Liveness (`NoStarvation`, `AwaitResumes`, `HotGetsCompiled`, `JoinReturns`,
  `LoadEnds`, `CollectionEnds` of both collectors) and the fairness part of
  `TaskLife`: the prover does no liveness under fairness.
* `CompiledAgrees` and `RootsTagged` of `BaselineCompiler`.  They say that compiled code
  and the interpreter go in step, for every function: their proof is that of a
  compiler, from the allocator's decisions for each of its instructions to the
  operations it emits, and has not been attempted.
* The violations, which are counterexamples and need no proof.

No induction theorem of the library is used, because these take an operator as a
parameter.  Where a definition of the model is recursive, as loops over arguments,
classes or bytes are, the proof forms the set of the numbers up to which the claim
holds and shows that it is all of them (`Induction`, `SetInduction` and
`DownInduction` in `DataLemmas`), or exhibits the sequence of states the recursion
goes through.

## 5. Plan

What would come next, in this order.

1. **Composition of scheduler and collector.**  The index into `mAllTasks`
   over pauses, `message.future` across a collection that moves the future,
   finalizers as tasks.
2. **Proofs.**  `CompiledAgrees` and `RootsTagged`, first for functions without
   branches.
3. **Loading from memory** in `Linker`: the module joins the table last, so its
   reference to itself is looked for on the module path.
4. **Native interface.**  Local references, nested execution of a function by
   a plugin and the messages it swallows.

## 6. Not modelled, and why

* Floating-point arithmetic and comparison: the processor's, one machine
  instruction each.  The instructions that resolve an entry of the constant pool
  (NEWINSTANCE, GETFIELD, INSTANCEOF, GETCLASS and the dynamic calls): a null test
  and a look-up each, of what `ClassLayout` and `Linker` model.
* Vector registers in the compiler: no translation of an instruction asks for
  one.  The encoding of machine instructions is asmjit's.
* Finalizers, which belong to the composition with the scheduler (plan, 1);
  `shrink()` of the old generation, which nothing calls; compaction and the
  large-object heap, which the configuration names and the code does not have.
* Native interface and plugins: what a plugin does is open; its nested
  execution of a function needs scheduler, interpreter and a stack of native
  frames in one model (plan, 4).
* Loading a module from memory (plan, 3), the interning of strings, the pages
  of machine code, `clear()` of an arena.
* The parser of the configuration file, which nothing calls; the texts of
  errors and of help; formatting of values.
* Platforms: the Win64 entry stub has the same protocol as the System V one.
