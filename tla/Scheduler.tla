------------------------------ MODULE Scheduler ------------------------------
(***************************************************************************)
(* The cooperative task scheduler of BibbleVM (executor/scheduler.cpp)     *)
(* with the futures tasks await (oop/future.cpp, oop/array_view.h) and the *)
(* part of the garbage collector's safepoint the scheduler sees.           *)
(*                                                                         *)
(* One thread runs everything: run() picks a task, RunTask() enters the    *)
(* interpreter, the interpreter returns a message, RunTask() visits a      *)
(* safepoint, run() acts on the message.  `pc` says which of these the     *)
(* thread is in; an instruction of the program is any instruction, chosen  *)
(* freely, so the model stands for every program within the bounds.        *)
(*                                                                         *)
(* Task is a set of addresses: an address freed by `delete task` may be    *)
(* returned again by `new Task()`.  The model does not move objects (no    *)
(* nursery collection) and runs no finalizers (gc.disableFinalizers).      *)
(***************************************************************************)
EXTENDS Naturals, Sequences, FiniteSets, Functions

CONSTANTS
    Task,            \* bound: the addresses `new Task()` chooses from
    Future,          \* bound: the future objects the program may allocate
    NoTask,          \* a null Task*
    NoFuture,        \* a null Future*
    Levels,          \* mReadyQueues.size()
    LevelSelection,  \* mLevelSelection, which the constructor fills
    CursorRange,     \* values of the uint8_t `start` of pickLevel (256)
    Priority,        \* the priorities the program passes to schedule()
    MainPriority,    \* the priority main() schedules the main task with
    MaxTasks,        \* scheduler.maxTasks
    AutoYield,       \* scheduler.autoYielding.enabled
    YieldThreshold,  \* scheduler.autoYielding.threshold, at least 1
    MaxDepth,        \* bound: frames on one task's stack
    HeapMayFail      \* whether an allocation may return nullptr

Level == 0 .. (Levels - 1)

ASSUME LevelsAssumption == Levels \in Nat \ {0}

(* What the constructor guarantees of the table, whatever the options.     *)
ASSUME SelectionAssumption ==
    /\ LevelSelection \in Seq(Level)
    /\ LevelSelection # <<>>

ASSUME NullAssumption == NoTask \notin Task /\ NoFuture \notin Future

ASSUME ParameterAssumption ==
    /\ CursorRange \in Nat \ {0}
    /\ Priority \subseteq Nat
    /\ MainPriority \in Nat
    /\ MaxTasks \in Nat
    /\ YieldThreshold \in Nat \ {0}
    /\ MaxDepth \in Nat \ {0}
    /\ AutoYield \in BOOLEAN
    /\ HeapMayFail \in BOOLEAN

VARIABLES
    pc,                \* where the thread is
    message,           \* type of the SchedulerMessage being handled
    awaited,           \* message.future of an Awaiting message
    running,           \* the task RunTask() was called with
    executed,          \* executedInstructions of the interpreter
    allocated,         \* the Task blocks not yet deleted
    allTasks,          \* mAllTasks (its order matters to the collector only)
    expired,           \* mExpiredTasks
    gcRunning,         \* mGCRunning
    readyQueues,       \* mReadyQueues
    cursor,            \* mLevelCursor
    depth,             \* frames on the task's stack
    priority,          \* Task::priority
    completionFuture,  \* Task::completionFuture
    waitingOn,         \* Task::waitingOn
    made,              \* the futures allocated so far
    ready,             \* futures with Future::ready set
    cancelled,         \* futures with Future::cancelled set
    waiters,           \* the waiters of each future, oldest first
    capacity,          \* length of the waiters array, 0 for a null array
    completing         \* the future whose complete() is running

control == <<pc, message, awaited, running, executed>>
blocks  == <<allocated, allTasks, expired>>
queues  == <<readyQueues, cursor>>
tasks   == <<depth, priority, completionFuture>>
states  == <<made, ready, cancelled>>
waits   == <<waitingOn, waiters, capacity>>
vars    == <<control, blocks, gcRunning, queues, tasks, states, waits, completing>>

MaybeFuture == Future \cup {NoFuture}

-----------------------------------------------------------------------------
(* Queue operations.  An operator named M... is a mutant of a definition   *)
(* below it, a bug the code could have had; no specification uses it.      *)

MUnclampedLevel(p) == p

LevelOf(p) == IF p < Levels THEN p ELSE Levels - 1

(* enqueue(): one level is a stack, several levels are FIFO queues.        *)
Enqueue(t, p) ==
    readyQueues' =
        IF Levels = 1
        THEN [readyQueues EXCEPT ![0] = <<t>> \o @]
        ELSE [readyQueues EXCEPT ![LevelOf(p)] = Append(@, t)]

(* The cursor after k slots of mLevelSelection have been looked at, and    *)
(* the level named by the k-th of them.                                    *)
Advance(k) == (cursor + k) % Len(LevelSelection)

Slot(k) == LevelSelection[Advance(k - 1) + 1]

(* pickLevel() stops at the first slot of a nonempty level, or when the    *)
(* cursor is back at `start`, which kept only the low byte of the cursor.  *)
SlotHit(k) == readyQueues[Slot(k)] # <<>>
LoopEnds(k) == SlotHit(k) \/ Advance(k) = cursor % CursorRange
PickLevel(k) == /\ LoopEnds(k)
                /\ \A j \in 1 .. (k - 1) : ~LoopEnds(j)

(* The search nextTask() falls back on, from level 0 upwards.              *)
Lowest(l) == /\ readyQueues[l] # <<>>
             /\ \A m \in Level : m < l => readyQueues[m] = <<>>

MStrictPriority(l) == Lowest(l) /\ UNCHANGED cursor

(* nextTask(): the level it pops from and the move of the cursor.          *)
(* pickLevel() returns 0 when it found nothing; the levels are searched.   *)
NextLevel(l) ==
    \/ /\ Levels = 1
       /\ readyQueues[l] # <<>>
       /\ UNCHANGED cursor
    \/ /\ Levels > 1
       /\ \E k \in 1 .. Len(LevelSelection) :
              /\ PickLevel(k)
              /\ IF SlotHit(k) THEN l = Slot(k) ELSE Lowest(l)
              /\ cursor' = Advance(k)

-----------------------------------------------------------------------------
(* Futures and task blocks.                                                *)

(* allocateFuture(): a future and, separately, a waiters array of length 1.*)
AllocateFuture(f) ==
    \/ /\ f \in Future \ made
       /\ made' = made \cup {f}
       /\ \E c \in {0, 1} : /\ c = 0 => HeapMayFail
                           /\ capacity' = [capacity EXCEPT ![f] = c]
    \/ /\ HeapMayFail /\ f = NoFuture
       /\ UNCHANGED <<made, capacity>>

MLimitOffByOne == Cardinality(allTasks) + 1 >= MaxTasks

Full == Cardinality(allTasks) + 1 > MaxTasks

(* schedule(): the limit is looked at last, so a refused task has its      *)
(* block and its future already.                                           *)
Schedule(t, f, p) ==
    /\ t \in Task \ allocated
    /\ allocated' = allocated \cup {t}
    /\ depth' = [depth EXCEPT ![t] = 1]
    /\ priority' = [priority EXCEPT ![t] = p]
    /\ AllocateFuture(f)
    /\ completionFuture' = [completionFuture EXCEPT ![t] = f]
    /\ IF Full
       THEN UNCHANGED <<allTasks, readyQueues>>
       ELSE allTasks' = allTasks \cup {t} /\ Enqueue(t, p)
    /\ UNCHANGED <<expired, gcRunning, cursor, ready, cancelled, waitingOn, waiters>>

MKeepInAllTasks(t) ==
    IF gcRunning
    THEN expired' = expired \cup {t} /\ UNCHANGED <<allocated, allTasks>>
    ELSE allocated' = allocated \ {t} /\ UNCHANGED <<expired, allTasks>>

MDeleteAtOnce(t) ==
    /\ allTasks' = allTasks \ {t}
    /\ allocated' = allocated \ {t}
    /\ UNCHANGED expired

(* deleteTask(): a block is kept while a collection may be scanning it.    *)
DeleteTask(t) ==
    IF gcRunning
    THEN /\ expired' = expired \cup {t}
         /\ UNCHANGED <<allocated, allTasks>>
    ELSE /\ allTasks' = allTasks \ {t}
         /\ allocated' = allocated \ {t}
         /\ UNCHANGED expired

MCompleteUnmarked(f) ==
    /\ UNCHANGED <<states>>
    /\ completing' = f
    /\ pc' = "wake"

(* complete() up to its loop; with a null array and waiters counted, or on *)
(* a null future, the loop reads through a null pointer.                   *)
BeginComplete(f) ==
    /\ UNCHANGED <<made, cancelled>>
    /\ IF f = NoFuture
       THEN pc' = "fault" /\ UNCHANGED <<ready, completing>>
       ELSE /\ ready' = ready \cup {f}
            /\ completing' = f
            /\ pc' = IF capacity[f] = 0 /\ waiters[f] # <<>> THEN "fault" ELSE "wake"

-----------------------------------------------------------------------------
Init ==
    /\ pc = "boot" /\ message = "None" /\ awaited = NoFuture
    /\ running = NoTask /\ executed = 0
    /\ allocated = {} /\ allTasks = {} /\ expired = {} /\ gcRunning = FALSE
    /\ readyQueues = [l \in Level |-> <<>>] /\ cursor = 0
    /\ depth = [t \in Task |-> 0]
    /\ priority = [t \in Task |-> 0]
    /\ completionFuture = [t \in Task |-> NoFuture]
    /\ waitingOn = [t \in Task |-> NoFuture]
    /\ made = {} /\ ready = {} /\ cancelled = {}
    /\ waiters = [f \in Future |-> <<>>]
    /\ capacity = [f \in Future |-> 0]
    /\ completing = NoFuture

(* main() schedules the main task, then calls run(); a refused main task   *)
(* ends the program with exit code 4.                                      *)
Boot(t, f) ==
    /\ pc = "boot"
    /\ Schedule(t, f, MainPriority)
    /\ pc' = IF Full THEN "exit" ELSE "pick"
    /\ UNCHANGED <<message, awaited, running, executed, completing>>

(* run(): take the next task and enter RunTask().                          *)
Pick ==
    /\ pc = "pick"
    /\ \E l \in Level :
           /\ NextLevel(l)
           /\ running' = Head(readyQueues[l])
           /\ readyQueues' = [readyQueues EXCEPT ![l] = Tail(@)]
    /\ pc' = "exec" /\ executed' = 0
    /\ UNCHANGED <<message, awaited, blocks, gcRunning, tasks, states, waits, completing>>

MExitOnEmptyTop ==
    /\ pc = "pick" /\ readyQueues[0] = <<>>
    /\ pc' = "exit"
    /\ UNCHANGED <<message, awaited, running, executed, blocks, gcRunning, queues,
                   tasks, states, waits, completing>>

(* run(): no task is ready, whoever may still be waiting.                  *)
Exit ==
    /\ pc = "pick"
    /\ \A l \in Level : readyQueues[l] = <<>>
    /\ IF Levels = 1 THEN UNCHANGED cursor
       ELSE \E k \in 1 .. Len(LevelSelection) : PickLevel(k) /\ cursor' = Advance(k)
    /\ pc' = "exit"
    /\ UNCHANGED <<message, awaited, running, executed, blocks, gcRunning, readyQueues,
                   tasks, states, waits, completing>>

-----------------------------------------------------------------------------
(* One instruction of the running task.                                    *)

Executing == pc = "exec" /\ (AutoYield => executed < YieldThreshold)

Continue == /\ pc' = "exec"
            /\ executed' = IF AutoYield THEN executed + 1 ELSE executed
            /\ UNCHANGED <<message, awaited, running>>

(* The interpreter returns message m to RunTask().                         *)
Leave(m, f) == /\ pc' = IF m = "Errored" THEN "message" ELSE "safepoint"
               /\ message' = m
               /\ awaited' = f
               /\ UNCHANGED <<running, executed>>

(* An instruction that touches no state modelled here.                     *)
Compute ==
    /\ Executing
    /\ Continue
    /\ UNCHANGED <<blocks, gcRunning, queues, tasks, states, waits, completing>>

(* AutoYieldingBytecodeInterpreter gives up after YieldThreshold           *)
(* instructions of this entry into the interpreter.                        *)
AutoYieldNow ==
    /\ pc = "exec" /\ AutoYield /\ executed >= YieldThreshold
    /\ Leave("Yielded", NoFuture)
    /\ UNCHANGED <<blocks, gcRunning, queues, tasks, states, waits, completing>>

Yield ==
    /\ Executing
    /\ Leave("Yielded", NoFuture)
    /\ UNCHANGED <<blocks, gcRunning, queues, tasks, states, waits, completing>>

Fail ==
    /\ Executing
    /\ Leave("Errored", NoFuture)
    /\ UNCHANGED <<blocks, gcRunning, queues, tasks, states, waits, completing>>

(* CALL and CALL_DYN: RunTask() pushes the frame before the safepoint.     *)
Call ==
    /\ Executing
    /\ depth[running] < MaxDepth
    /\ depth' = [depth EXCEPT ![running] = @ + 1]
    /\ Leave("Called", NoFuture)
    /\ UNCHANGED <<blocks, gcRunning, queues, priority, completionFuture, states,
                   waits, completing>>

Return ==
    /\ Executing
    /\ depth' = [depth EXCEPT ![running] = @ - 1]
    /\ Leave("Returned", NoFuture)
    /\ UNCHANGED <<blocks, gcRunning, queues, priority, completionFuture, states,
                   waits, completing>>

NewFuture(f) ==
    /\ Executing
    /\ AllocateFuture(f)
    /\ Continue
    /\ UNCHANGED <<blocks, gcRunning, queues, tasks, ready, cancelled, waitingOn,
                   waiters, completing>>

(* CALLA, CALLAP and CALLARP use the new task's future without looking     *)
(* whether schedule() returned a task.                                     *)
Spawn(t, f) ==
    /\ Executing
    /\ \E p \in Priority \cup {priority[running]} : Schedule(t, f, p)
    /\ IF Full
       THEN pc' = "fault" /\ UNCHANGED <<message, awaited, running, executed>>
       ELSE Continue
    /\ UNCHANGED completing

Resolve(f) ==
    /\ Executing
    /\ IF f \in ready
       THEN Leave("Errored", NoFuture) /\ UNCHANGED <<states, completing>>
       ELSE BeginComplete(f) /\ UNCHANGED <<message, awaited, running, executed>>
    /\ UNCHANGED <<blocks, gcRunning, queues, tasks, waits>>

MCancelMakesReady(f) ==
    /\ Executing
    /\ f \notin ready \cup cancelled
    /\ cancelled' = cancelled \cup {f} /\ ready' = ready \cup {f}
    /\ Continue
    /\ UNCHANGED <<blocks, gcRunning, queues, tasks, made, waits, completing>>

(* cancel() sets a flag; nobody is woken.                                  *)
Cancel(f) ==
    /\ Executing
    /\ IF f \in ready \cup cancelled
       THEN Leave("Errored", NoFuture) /\ UNCHANGED cancelled
       ELSE cancelled' = cancelled \cup {f} /\ Continue
    /\ UNCHANGED <<blocks, gcRunning, queues, tasks, made, ready, waits, completing>>

MAwaitUnchecked(f) ==
    /\ Executing
    /\ Leave("Awaiting", f)
    /\ UNCHANGED <<blocks, gcRunning, queues, tasks, states, waits, completing>>

(* AWAIT does not advance the instruction pointer when it has to wait: the *)
(* task runs it again when it is next picked.                              *)
Await(f) ==
    /\ Executing
    /\ IF f \in cancelled THEN Leave("Errored", NoFuture)
       ELSE IF f \in ready THEN Continue
       ELSE Leave("Awaiting", f)
    /\ UNCHANGED <<blocks, gcRunning, queues, tasks, states, waits, completing>>

-----------------------------------------------------------------------------
(* RunTask() and run() on the message.                                     *)

MFreeDuringGC(collecting) ==
    /\ pc = "safepoint"
    /\ gcRunning' = collecting
    /\ allTasks' = allTasks \ expired
    /\ allocated' = allocated \ expired
    /\ expired' = {}
    /\ pc' = "message"
    /\ UNCHANGED <<message, awaited, running, executed, queues, tasks, states, waits,
                   completing>>

(* safepoint(): the collector works or not, and is left running or idle.   *)
(* With no collection under way the expired tasks are deleted.  RunTask()  *)
(* then goes round its loop unless the message, or an empty stack, ends it.*)
Safepoint(collecting) ==
    /\ pc = "safepoint"
    /\ gcRunning' = collecting
    /\ IF collecting
       THEN UNCHANGED blocks
       ELSE /\ allTasks' = allTasks \ expired
            /\ allocated' = allocated \ expired
            /\ expired' = {}
    /\ IF message \in {"Called", "Returned"} /\ depth[running] > 0
       THEN pc' = "exec" /\ message' = "None" /\ executed' = 0
       ELSE pc' = "message" /\ UNCHANGED <<message, executed>>
    /\ UNCHANGED <<awaited, running, queues, tasks, states, waits, completing>>

(* Back at the top of run() with no task in hand.                          *)
EndTurn == /\ pc' = "pick" /\ running' = NoTask
           /\ message' = "None" /\ awaited' = NoFuture
           /\ executed' = 0

HandleErrored ==
    /\ pc = "message" /\ message = "Errored"
    /\ DeleteTask(running)
    /\ EndTurn
    /\ UNCHANGED <<gcRunning, queues, tasks, states, waits, completing>>

HandleReturned ==
    /\ pc = "message" /\ message = "Returned"
    /\ BeginComplete(completionFuture[running])
    /\ UNCHANGED <<message, awaited, running, executed, blocks, gcRunning, queues,
                   tasks, waits>>

HandleYielded ==
    /\ pc = "message" /\ message = "Yielded"
    /\ Enqueue(running, priority[running])
    /\ EndTurn
    /\ UNCHANGED <<blocks, gcRunning, cursor, tasks, states, waits, completing>>

MGrowthForgets(f, t, grows) ==
    /\ waitingOn' = [waitingOn EXCEPT ![t] = f]
    /\ IF Len(waiters[f]) < capacity[f]
       THEN /\ waiters' = [waiters EXCEPT ![f] = Append(@, t)]
            /\ UNCHANGED capacity
       ELSE IF capacity[f] > 0 /\ grows
       THEN /\ waiters' = [waiters EXCEPT ![f] = <<t>>]
            /\ capacity' = [capacity EXCEPT ![f] = 2 * @]
       ELSE /\ capacity' = [capacity EXCEPT ![f] = 0]
            /\ UNCHANGED waiters

(* addWaiter(): the array doubles when full.  reallocateArray() returns a  *)
(* null array when the heap fails and for a null array; the old waiters    *)
(* stay counted, and the new one is forgotten.                             *)
AddWaiter(f, t, grows) ==
    /\ waitingOn' = [waitingOn EXCEPT ![t] = f]
    /\ IF Len(waiters[f]) < capacity[f]
       THEN /\ waiters' = [waiters EXCEPT ![f] = Append(@, t)]
            /\ UNCHANGED capacity
       ELSE IF capacity[f] > 0 /\ grows
       THEN /\ waiters' = [waiters EXCEPT ![f] = Append(@, t)]
            /\ capacity' = [capacity EXCEPT ![f] = 2 * @]
       ELSE /\ capacity' = [capacity EXCEPT ![f] = 0]
            /\ UNCHANGED waiters

MAwaitFallsThrough(grows) ==
    /\ pc = "message" /\ message = "Awaiting"
    /\ AddWaiter(awaited, running, grows)
    /\ Enqueue(running, priority[running])
    /\ EndTurn
    /\ UNCHANGED <<blocks, gcRunning, cursor, tasks, states, completing>>

HandleAwaiting(grows) ==
    /\ pc = "message" /\ message = "Awaiting"
    /\ AddWaiter(awaited, running, grows)
    /\ EndTurn
    /\ UNCHANGED <<blocks, gcRunning, queues, tasks, states, completing>>

(* One iteration of the loop of complete().  The array is cleared behind   *)
(* the loop, so the model drops a waiter when it is woken.                 *)
WakeOne ==
    /\ pc = "wake" /\ waiters[completing] # <<>>
    /\ LET t == Head(waiters[completing]) IN
           /\ waitingOn' = [waitingOn EXCEPT ![t] = NoFuture]
           /\ Enqueue(t, priority[t])
    /\ waiters' = [waiters EXCEPT ![completing] = Tail(@)]
    /\ UNCHANGED <<control, blocks, gcRunning, cursor, tasks, states, capacity, completing>>

MLoopStopsEarly ==
    /\ pc = "wake" /\ Len(waiters[completing]) <= 1
    /\ completing' = NoFuture
    /\ IF message = "Returned"
       THEN DeleteTask(running) /\ EndTurn
       ELSE Continue /\ UNCHANGED blocks
    /\ UNCHANGED <<gcRunning, queues, tasks, states, waits>>

(* complete() returns: to RESOLVE, or to run(), which deletes the task.    *)
WakeDone ==
    /\ pc = "wake" /\ waiters[completing] = <<>>
    /\ completing' = NoFuture
    /\ IF message = "Returned"
       THEN DeleteTask(running) /\ EndTurn
       ELSE Continue /\ UNCHANGED blocks
    /\ UNCHANGED <<gcRunning, queues, tasks, states, waits>>

(* The program has ended, or has read through a null pointer.              *)
Stopped == pc \in {"exit", "fault"} /\ UNCHANGED vars

Instruction ==
    \/ Compute \/ AutoYieldNow \/ Yield \/ Fail \/ Call \/ Return
    \/ \E f \in MaybeFuture : NewFuture(f)
    \/ \E t \in Task, f \in MaybeFuture : Spawn(t, f)
    \/ \E f \in made : Resolve(f) \/ Cancel(f) \/ Await(f)

RunLoop ==
    \/ \E t \in Task, f \in MaybeFuture : Boot(t, f)
    \/ Pick \/ Exit
    \/ \E collecting \in BOOLEAN : Safepoint(collecting)
    \/ HandleErrored \/ HandleReturned \/ HandleYielded
    \/ \E grows \in BOOLEAN : (grows \/ HeapMayFail) /\ HandleAwaiting(grows)
    \/ WakeOne \/ WakeDone
    \/ Stopped

Next == Instruction \/ RunLoop

(* The one thread goes on as long as it can.                               *)
Spec == Init /\ [][Next]_vars /\ WF_vars(Next)

-----------------------------------------------------------------------------
(* Properties.                                                             *)

Messages == {"None", "Errored", "Called", "Returned", "Yielded", "Awaiting"}

(* Every variable of the scheduler, the tasks and the futures keeps its    *)
(* type.                                                                   *)
TypeOK ==
    /\ pc \in {"boot", "pick", "exec", "safepoint", "message", "wake", "exit", "fault"}
    /\ message \in Messages
    /\ awaited \in made \cup {NoFuture}
    /\ running \in Task \cup {NoTask}
    /\ executed \in Nat
    /\ allocated \subseteq Task
    /\ allTasks \subseteq allocated
    /\ expired \subseteq allTasks
    /\ gcRunning \in BOOLEAN
    /\ readyQueues \in [Level -> Seq(Task)]
    /\ cursor \in 0 .. (Len(LevelSelection) - 1)
    /\ depth \in [Task -> Nat]
    /\ priority \in [Task -> Nat]
    /\ completionFuture \in [Task -> made \cup {NoFuture}]
    /\ waitingOn \in [Task -> made \cup {NoFuture}]
    /\ made \subseteq Future
    /\ ready \subseteq made
    /\ cancelled \subseteq made
    /\ waiters \in [Future -> Seq(Task)]
    /\ capacity \in [Future -> Nat]
    /\ completing \in made \cup {NoFuture}

(* A task of the scheduler that has not ended.                             *)
Live == allTasks \ expired

Queued(t) == \E l \in Level : t \in Range(readyQueues[l])

Waiting(t) == waitingOn[t] # NoFuture

(* RunTask() and run() agree on the task in hand: a message is handled in  *)
(* the state it was sent to, AWAIT never sends a future already complete,  *)
(* and only a task that returned from its last frame has an empty stack.   *)
ControlAgrees ==
    /\ pc \in {"boot", "pick", "exit"} <=> running = NoTask
    /\ pc \in {"boot", "pick", "exec"} => message = "None"
    /\ pc = "safepoint" => message \in {"Called", "Returned", "Yielded", "Awaiting"}
    /\ pc = "message" => message \in {"Errored", "Returned", "Yielded", "Awaiting"}
    /\ pc = "wake" => message \in {"None", "Returned"} /\ completing \in ready
    /\ message = "Awaiting" => awaited \in made \ ready
    /\ \A t \in Live : depth[t] = 0 => t = running /\ message = "Returned"

(* run(), enqueue(), addWaiter() and complete() hand a task on without     *)
(* losing or doubling it: a live task is running, in one queue, or waiting,*)
(* and nothing but a live task is in any of these places.                  *)
ExactlyOnePlace ==
    \A t \in Task :
        /\ t \in Live <=> (t = running \/ Queued(t) \/ Waiting(t))
        /\ ~(t = running /\ Queued(t))
        /\ ~(t = running /\ Waiting(t))
        /\ ~(Queued(t) /\ Waiting(t))

(* enqueue() never holds a task twice, in one level or in two, so no task  *)
(* is run again after it was deleted.                                      *)
QueuedOnce ==
    \A l \in Level :
        /\ IsInjective(readyQueues[l])
        /\ \A m \in Level \ {l} : Range(readyQueues[l]) \cap Range(readyQueues[m]) = {}

(* A listed waiter waits on that future, and is listed once.               *)
ListedWait ==
    \A f \in Future : /\ IsInjective(waiters[f])
                      /\ \A t \in Range(waiters[f]) : waitingOn[t] = f

(* A waiting task is listed, unless the array itself is gone.              *)
LostWithArray ==
    \A t \in Task :
        Waiting(t) => \/ t \in Range(waiters[waitingOn[t]])
                      \/ capacity[waitingOn[t]] = 0

(* Future::waiters and Task::waitingOn agree both ways, over awaits,       *)
(* completions and failed growths: nobody stale is listed, and a waiter is *)
(* forgotten only where addWaiter() was left with a null array.            *)
WaitersAgree == ListedWait /\ LostWithArray

(* complete() leaves no waiter behind, and AWAIT adds none to a future     *)
(* that is ready, although a safepoint lies between its look at the future *)
(* and addWaiter(): no task waits on a completed future.                   *)
NoLostWakeup ==
    \A t \in Task : waitingOn[t] \in ready => waitingOn[t] = completing

(* Whatever a task waits on lists it, so that complete() can find it.      *)
WaitersListed == \A t \in Task : Waiting(t) => t \in Range(waiters[waitingOn[t]])

(* run() returns when no task is ready; then every task left over waits on *)
(* a future nobody has completed.                                          *)
ExitMeansStuck ==
    pc = "exit" => \A t \in Live : waitingOn[t] \in made \ ready

(* The deletion of a task is put off only while a collection is running.   *)
ExpiredOnlyDuringGC == expired # {} => gcRunning

(* schedule() leaves a block outside mAllTasks, where nobody frees it, only*)
(* when it refuses the task, which ends the program; and it refuses one    *)
(* only when one more live task would pass maxTasks, or when a collection  *)
(* under way keeps ended tasks in mAllTasks.                               *)
RefusedOnlyWhenFull ==
    allocated # allTasks =>
        /\ pc \in {"fault", "exit"}
        /\ Cardinality(Live) + 1 > MaxTasks \/ gcRunning

(* scheduler.h: mAllTasks is append-only during a collection, from one     *)
(* safepoint to the next and within one.                                   *)
AppendOnlyDuringGC == [][gcRunning /\ gcRunning' => allTasks \subseteq allTasks']_vars

(* A Task block is freed only when the collector is idle and the task has  *)
(* ended: it was running to its end, or had expired before.                *)
FreedOnlyWhenDone ==
    [][\A t \in allocated \ allocated' :
           ~gcRunning' /\ (t = running \/ t \in expired) /\ running' # t]_vars

(* A completed future stays completed, and a task leaves its wait only     *)
(* because the future it waits on was completed.                           *)
WokenByCompletion ==
    [][/\ ready \subseteq ready'
       /\ \A t \in Task : Waiting(t) /\ ~Waiting(t)' => waitingOn[t] \in ready]_vars

(* The abstract task life of TaskLife: a task's state is read off the place*)
(* it is in, a gate is a future, open when the future is ready.            *)
TaskState ==
    [t \in Task |-> IF t = running THEN "running"
                    ELSE IF Queued(t) THEN "ready"
                    ELSE IF Waiting(t) THEN "waiting" ELSE "none"]

Life == INSTANCE TaskLife WITH
            Gate <- Future, NoGate <- NoFuture,
            state <- TaskState, gate <- waitingOn, open <- ready

(* run(), addWaiter() and complete() implement the abstract task life; a   *)
(* waiter of a completed future surely becomes ready.                      *)
ImplementsTaskLife == Life!Spec

(* With the weighted selection every ready task is run, as long as the     *)
(* tasks that run give the thread back.                                    *)
NoStarvation ==
    []<>(pc = "pick") => \A t \in Task : [](Queued(t) => <>(running = t))

(* interpreter.cpp on AWAIT: "This interpreter gets called again once the  *)
(* future is completed".                                                   *)
AwaitResumes ==
    []<>(pc = "pick") =>
        \A t \in Task, f \in Future :
            [](waitingOn[t] = f /\ f \in ready => <>(running = t))

(* config.h on autoYielding.threshold: after so many instructions the task *)
(* yields, "to allow the scheduler to run other tasks"; so they are run.   *)
OthersRun == AutoYield => \A t \in Task : [](Queued(t) => <>(running = t))

=============================================================================
