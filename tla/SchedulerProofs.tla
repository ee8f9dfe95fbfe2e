--------------------------- MODULE SchedulerProofs ---------------------------
(***************************************************************************)
(* Proofs about the scheduler for any number of tasks, futures and levels, *)
(* any selection table and any program.                                    *)
(***************************************************************************)
EXTENDS Scheduler, DataLemmas, TLAPS

-----------------------------------------------------------------------------
(* What the queue operations do to the set of queued tasks.                *)

QueuesOK == readyQueues \in [Level -> Seq(Task)]

LEMMA LevelFacts == 0 \in Level /\ \A p \in Nat : LevelOf(p) \in Level
BY LevelsAssumption DEF Level, LevelOf

(* enqueue() adds the task to the queues, once, and moves no other task.   *)
LEMMA EnqueueEffect ==
    ASSUME QueuesOK, QueuedOnce,
           NEW t \in Task, NEW p \in Nat, ~Queued(t),
           Enqueue(t, p)
    PROVE  /\ QueuesOK'
           /\ QueuedOnce'
           /\ \A u : Queued(u)' <=> Queued(u) \/ u = t
<1>1. PICK k \in Level, new \in Seq(Task) :
          /\ readyQueues' = [readyQueues EXCEPT ![k] = new]
          /\ IsInjective(new)
          /\ Range(new) = Range(readyQueues[k]) \cup {t}
  <2>1. \A l \in Level : /\ readyQueues[l] \in Seq(Task)
                         /\ IsInjective(readyQueues[l])
                         /\ t \notin Range(readyQueues[l])
    BY DEF QueuesOK, QueuedOnce, Queued
  <2>2. CASE Levels = 1
    <3> DEFINE new == <<t>> \o readyQueues[0]
    <3>1. 0 \in Level
      BY LevelFacts
    <3>2. /\ new \in Seq(Task)
          /\ IsInjective(new)
          /\ Range(new) = Range(readyQueues[0]) \cup {t}
      BY <2>1, <3>1, PushFrontElements
    <3>3. readyQueues' = [readyQueues EXCEPT ![0] = new]
      BY <2>2 DEF Enqueue
    <3> HIDE DEF new
    <3> QED BY <3>1, <3>2, <3>3
  <2>3. CASE Levels # 1
    <3> DEFINE k == LevelOf(p)
               new == Append(readyQueues[k], t)
    <3>1. k \in Level
      BY LevelFacts
    <3>2. /\ new \in Seq(Task)
          /\ IsInjective(new)
          /\ Range(new) = Range(readyQueues[k]) \cup {t}
      BY <2>1, <3>1, AppendElements
    <3>3. readyQueues' = [readyQueues EXCEPT ![k] = new]
      BY <2>3 DEF Enqueue
    <3> HIDE DEF new, k
    <3> QED BY <3>1, <3>2, <3>3
  <2> QED BY <2>2, <2>3
<1>2. /\ QueuesOK'
      /\ \A l \in Level : readyQueues'[l] = IF l = k THEN new ELSE readyQueues[l]
  BY <1>1 DEF QueuesOK
<1>3. QueuedOnce'
  BY <1>1, <1>2 DEF QueuedOnce, Queued
<1>4. \A u : Queued(u)' <=> Queued(u) \/ u = t
  BY <1>1, <1>2 DEF Queued
<1> QED BY <1>2, <1>3, <1>4

(* pop_front removes the task it returns and no other.                     *)
LEMMA PopEffect ==
    ASSUME QueuesOK, QueuedOnce,
           NEW l \in Level, readyQueues[l] # <<>>,
           readyQueues' = [readyQueues EXCEPT ![l] = Tail(@)]
    PROVE  /\ QueuesOK'
           /\ QueuedOnce'
           /\ Head(readyQueues[l]) \in Task
           /\ Queued(Head(readyQueues[l]))
           /\ \A u : Queued(u)' <=> Queued(u) /\ u # Head(readyQueues[l])
<1> DEFINE new == Tail(readyQueues[l])
           t   == Head(readyQueues[l])
<1>1. /\ readyQueues[l] \in Seq(Task)
      /\ IsInjective(readyQueues[l])
  BY DEF QueuesOK, QueuedOnce
<1>2. /\ t \in Range(readyQueues[l]) /\ t \in Task
      /\ new \in Seq(Task) /\ IsInjective(new)
      /\ Range(new) = Range(readyQueues[l]) \ {t}
  BY <1>1, TailElements
<1>3. /\ QueuesOK'
      /\ \A m \in Level : readyQueues'[m] = IF m = l THEN new ELSE readyQueues[m]
  BY <1>2 DEF QueuesOK
<1> HIDE DEF new, t
<1>4. \A m \in Level : Range(readyQueues'[m]) = Range(readyQueues[m]) \ {t}
  <2>1. \A m \in Level \ {l} : t \notin Range(readyQueues[m])
    BY <1>2 DEF QueuedOnce
  <2> QED BY <1>2, <1>3, <2>1
<1>5. QueuedOnce'
  <2>1. \A m \in Level : IsInjective(readyQueues'[m])
    BY <1>2, <1>3 DEF QueuedOnce
  <2> QED BY <1>4, <2>1 DEF QueuedOnce
<1>6. \A u : Queued(u)' <=> Queued(u) /\ u # t
  BY <1>4 DEF Queued
<1> QED BY <1>2, <1>3, <1>5, <1>6 DEF t, Queued
-----------------------------------------------------------------------------
(* The inductive invariant.  The places of the tasks cannot be kept apart  *)
(* without the control state (the task of a message is the running one)    *)
(* and the agreement of the waiters with Task::waitingOn.                  *)
Places == ExactlyOnePlace /\ QueuedOnce /\ ListedWait

IInv == TypeOK /\ ControlAgrees /\ Places /\ ExpiredOnlyDuringGC

LEMMA InitIInv == Init => IInv
<1> SUFFICES ASSUME Init PROVE IInv
  OBVIOUS
<1>1. Len(LevelSelection) \in Nat \ {0}
  BY SelectionAssumption
<1>2. /\ readyQueues \in [Level -> Seq(Task)]
      /\ waiters \in [Future -> Seq(Task)]
      /\ \A l \in Level : Range(readyQueues[l]) = {} /\ IsInjective(readyQueues[l])
      /\ \A f \in Future : Range(waiters[f]) = {} /\ IsInjective(waiters[f])
  BY DEF Init, Range, IsInjective
<1>3. TypeOK
  <2>1. cursor \in 0 .. (Len(LevelSelection) - 1)
    BY <1>1 DEF Init
  <2>2. /\ depth \in [Task -> Nat]
        /\ priority \in [Task -> Nat]
        /\ completionFuture \in [Task -> made \cup {NoFuture}]
        /\ waitingOn \in [Task -> made \cup {NoFuture}]
        /\ capacity \in [Future -> Nat]
    BY DEF Init
  <2> QED BY <1>2, <2>1, <2>2 DEF Init, TypeOK, Messages
<1>4. ControlAgrees
  BY DEF Init, ControlAgrees, Live
<1>5. Places
  BY <1>2, NullAssumption DEF Init, Places, ExactlyOnePlace, QueuedOnce, ListedWait,
                              Live, Queued, Waiting
<1>6. ExpiredOnlyDuringGC
  BY DEF Init, ExpiredOnlyDuringGC
<1> QED BY <1>3, <1>4, <1>5, <1>6 DEF IInv

(* Most actions move no task.                                              *)
LEMMA PlacesUnchanged ==
    ASSUME Places,
           UNCHANGED <<running, allTasks, expired, readyQueues, waitingOn, waiters>>
    PROVE  Places'
BY DEF Places, ExactlyOnePlace, QueuedOnce, ListedWait, Live, Queued, Waiting

(* The running task is live and is in no queue and waits for nothing.      *)
LEMMA RunningIsLive ==
    ASSUME IInv, pc \notin {"boot", "pick", "exit"}
    PROVE  /\ running \in Live /\ running \in Task
           /\ ~Queued(running) /\ ~Waiting(running)
BY DEF IInv, TypeOK, ControlAgrees, Places, ExactlyOnePlace, Live

(* Instructions that only lead elsewhere or count.                         *)
LEMMA LeaveStep ==
    ASSUME IInv, Compute \/ AutoYieldNow \/ Yield \/ Fail
    PROVE  IInv'
<1>1. Places'
  BY PlacesUnchanged DEF IInv, Compute, AutoYieldNow, Yield, Fail, Continue, Leave, blocks,
                         waits, queues
<1>2. TypeOK'
  <2>1. UNCHANGED <<blocks, gcRunning, queues, tasks, states, waits, running, completing>>
    BY DEF Compute, AutoYieldNow, Yield, Fail, Continue, Leave
  <2>2. /\ pc' \in {"exec", "message", "safepoint"}
        /\ message' \in {message, "Errored", "Yielded"}
        /\ awaited' \in {awaited, NoFuture}
        /\ executed' \in {executed, executed + 1}
    BY DEF Compute, AutoYieldNow, Yield, Fail, Continue, Leave
  <2> QED BY <2>1, <2>2 DEF IInv, TypeOK, Messages, blocks, queues, tasks, states, waits
<1>3. ControlAgrees'
  BY DEF IInv, ControlAgrees, Compute, AutoYieldNow, Yield, Fail, Continue, Leave, Executing,
         TypeOK, Live, blocks, queues, tasks, states, waits
<1>4. ExpiredOnlyDuringGC'
  BY DEF IInv, ExpiredOnlyDuringGC, Compute, AutoYieldNow, Yield, Fail, blocks
<1> QED BY <1>1, <1>2, <1>3, <1>4 DEF IInv

(* CALL and RETURN keep the stack of every live task but the returning one *)
(* nonempty.                                                               *)
LEMMA FrameStep ==
    ASSUME IInv, Call \/ Return
    PROVE  IInv'
<1>1. Places'
  BY PlacesUnchanged DEF IInv, Call, Return, Leave, blocks, waits, queues
<1>2. depth[running] \in Nat \ {0} /\ running \in Task
  BY RunningIsLive DEF Call, Return, Executing, IInv, TypeOK, ControlAgrees
<1>3. TypeOK'
  <2>1. depth' \in [Task -> Nat]
    <3>1. depth[running] + 1 \in Nat /\ depth[running] - 1 \in Nat
      BY <1>2
    <3> QED BY <3>1 DEF IInv, TypeOK, Call, Return
  <2> QED BY <2>1 DEF IInv, TypeOK, Call, Return, Leave, Messages, blocks, queues, states, waits
<1>4. ControlAgrees'
  BY <1>2 DEF IInv, ControlAgrees, Call, Return, Leave, Executing, TypeOK, Live, blocks,
              queues, states, waits
<1>5. ExpiredOnlyDuringGC'
  BY DEF IInv, ExpiredOnlyDuringGC, Call, Return, blocks
<1> QED BY <1>1, <1>3, <1>4, <1>5 DEF IInv

(* allocateFuture() gives a new future a waiters array of length 0 or 1.   *)
LEMMA CapacityType ==
    ASSUME NEW f, AllocateFuture(f), capacity \in [Future -> Nat]
    PROVE  capacity' \in [Future -> Nat]
<1>1. CASE UNCHANGED capacity
  BY <1>1
<1>2. ASSUME NEW c \in {0, 1}, f \in Future, capacity' = [capacity EXCEPT ![f] = c]
      PROVE  capacity' \in [Future -> Nat]
  <2>1. c \in Nat
    OBVIOUS
  <2> QED BY <1>2, <2>1
<1> QED BY <1>1, <1>2 DEF AllocateFuture

(* A step that leaves blocks, queues and waits alone keeps their types.     *)
LEMMA ControlType ==
    ASSUME TypeOK, UNCHANGED <<blocks, gcRunning, queues, tasks, waits, made>>,
           pc' \in {"exec", "safepoint", "message", "wake", "fault"},
           message' \in Messages, awaited' \in made \cup {NoFuture},
           running' \in Task \cup {NoTask}, executed' \in Nat,
           ready' \subseteq made, cancelled' \subseteq made,
           completing' \in made \cup {NoFuture}
    PROVE  TypeOK'
BY DEF TypeOK, blocks, queues, tasks, waits

(* NEWFUTURE, RESOLVE, CANCEL, AWAIT and the Returned message change only  *)
(* the flags of futures and where the thread goes.                         *)
LEMMA FutureStep ==
    ASSUME IInv,
           \/ \E f \in MaybeFuture : NewFuture(f)
           \/ \E f \in made : Resolve(f) \/ Cancel(f) \/ Await(f)
           \/ HandleReturned
    PROVE  IInv'
<1>1. Places'
  BY PlacesUnchanged DEF IInv, NewFuture, Resolve, Cancel, Await, HandleReturned, Continue,
                         Leave, BeginComplete, blocks, waits, queues
<1>2. pc \in {"exec", "message"}
  BY DEF NewFuture, Resolve, Cancel, Await, HandleReturned, Executing
<1>3. TypeOK' /\ ControlAgrees'
  <2>1. ASSUME NEW f \in MaybeFuture, NewFuture(f) PROVE TypeOK' /\ ControlAgrees'
    <3>1. capacity' \in [Future -> Nat]
      BY <2>1, CapacityType DEF IInv, TypeOK, NewFuture
    <3>2. TypeOK'
      BY <2>1, <3>1 DEF IInv, TypeOK, NewFuture, AllocateFuture, Continue, blocks, queues,
                        tasks, MaybeFuture
    <3>3. ControlAgrees'
      BY <2>1 DEF IInv, ControlAgrees, NewFuture, AllocateFuture, Continue, Executing, blocks,
                  tasks, Live
    <3> QED BY <3>2, <3>3
  <2>2. ASSUME NEW f \in made, Resolve(f) PROVE TypeOK' /\ ControlAgrees'
    <3>1. TypeOK'
      <4>1. UNCHANGED <<blocks, gcRunning, queues, tasks, waits, made, cancelled, running,
                        executed>>
        BY <2>2 DEF Resolve, BeginComplete, Leave, states
      <4>2. /\ pc' \in {"message", "fault", "wake"}
            /\ message' \in {message, "Errored"} /\ awaited' \in {awaited, NoFuture}
            /\ ready' \in {ready, ready \cup {f}}
            /\ completing' \in {completing, f}
        BY <2>2 DEF Resolve, BeginComplete, Leave, states
      <4>3. TypeOK
        BY DEF IInv
      <4>4. /\ message' \in Messages /\ awaited' \in made \cup {NoFuture}
            /\ running \in Task \cup {NoTask} /\ executed \in Nat
            /\ ready' \subseteq made /\ cancelled \subseteq made
            /\ completing' \in made \cup {NoFuture}
        BY <4>2, <4>3 DEF TypeOK, Messages
      <4> QED BY <4>1, <4>2, <4>3, <4>4, ControlType
    <3>2. ControlAgrees'
      <4>1. CASE f \in ready
        BY <2>2, <4>1 DEF IInv, ControlAgrees, Resolve, Leave, Executing, blocks, tasks, states,
                          Live
      <4>2. CASE f \notin ready
        <5>1. /\ pc' \in {"fault", "wake"}
              /\ pc' = "wake" => completing' = f /\ f \in ready'
          BY <2>2, <4>2 DEF Resolve, BeginComplete
        <5>2. UNCHANGED <<message, awaited, running, blocks, tasks>> /\ pc = "exec"
          BY <2>2, <4>2 DEF Resolve, Executing
        <5> QED BY <5>1, <5>2 DEF IInv, ControlAgrees, blocks, tasks, Live
      <4> QED BY <4>1, <4>2
    <3> QED BY <3>1, <3>2
  <2>3. ASSUME NEW f \in made, Cancel(f) \/ Await(f) PROVE TypeOK' /\ ControlAgrees'
    <3>1. TypeOK'
      <4>1. UNCHANGED <<blocks, gcRunning, queues, tasks, waits, made, ready, running,
                        completing>>
        BY <2>3 DEF Cancel, Await, Continue, Leave, states
      <4>2. /\ pc' \in {"exec", "message", "safepoint"}
            /\ message' \in {message, "Errored", "Awaiting"}
            /\ awaited' \in {awaited, NoFuture, f}
            /\ executed' \in {executed, executed + 1}
            /\ cancelled' \in {cancelled, cancelled \cup {f}}
        BY <2>3 DEF Cancel, Await, Continue, Leave, states
      <4>3. TypeOK
        BY DEF IInv
      <4>4. /\ message' \in Messages /\ awaited' \in made \cup {NoFuture}
            /\ running \in Task \cup {NoTask} /\ executed' \in Nat
            /\ ready \subseteq made /\ cancelled' \subseteq made
            /\ completing \in made \cup {NoFuture}
        BY <4>2, <4>3 DEF TypeOK, Messages
      <4> QED BY <4>1, <4>2, <4>3, <4>4, ControlType
    <3>2. ControlAgrees'
      BY <2>3, <1>2 DEF IInv, ControlAgrees, Cancel, Await, Continue, Leave, Executing, blocks,
                        tasks, states, Live, TypeOK
    <3> QED BY <3>1, <3>2
  <2>4. ASSUME HandleReturned PROVE TypeOK' /\ ControlAgrees'
    <3>1. completionFuture[running] \in made \cup {NoFuture}
      BY <2>4, RunningIsLive DEF HandleReturned, IInv, TypeOK
    <3>2. TypeOK'
      <4>1. UNCHANGED <<blocks, gcRunning, queues, tasks, waits, made, cancelled, message,
                        awaited, running, executed>>
        BY <2>4 DEF HandleReturned, BeginComplete
      <4>2. /\ pc' \in {"fault", "wake"}
            /\ \/ UNCHANGED <<ready, completing>>
               \/ /\ completionFuture[running] # NoFuture
                  /\ ready' = ready \cup {completionFuture[running]}
                  /\ completing' = completionFuture[running]
        BY <2>4 DEF HandleReturned, BeginComplete
      <4> QED BY <3>1, <4>1, <4>2 DEF IInv, TypeOK, blocks, queues, tasks, waits
    <3>3. ControlAgrees'
      BY <2>4, <3>1, NullAssumption
         DEF IInv, TypeOK, ControlAgrees, HandleReturned, BeginComplete, blocks, tasks, Live
    <3> QED BY <3>2, <3>3
  <2> QED BY <2>1, <2>2, <2>3, <2>4
<1>4. ExpiredOnlyDuringGC'
  BY DEF IInv, ExpiredOnlyDuringGC, NewFuture, Resolve, Cancel, Await, HandleReturned, blocks
<1> QED BY <1>1, <1>3, <1>4 DEF IInv
LEMMA CursorType ==
    ASSUME TypeOK,
           cursor' = cursor \/ \E k \in 1 .. Len(LevelSelection) : cursor' = Advance(k)
    PROVE  cursor' \in 0 .. (Len(LevelSelection) - 1)
<1>1. Len(LevelSelection) \in Nat \ {0} /\ cursor \in Nat
  BY SelectionAssumption DEF TypeOK
<1>2. ASSUME NEW k \in 1 .. Len(LevelSelection)
      PROVE  Advance(k) \in 0 .. (Len(LevelSelection) - 1)
  <2>1. cursor + k \in Nat
    BY <1>1
  <2> QED BY <1>1, <2>1 DEF Advance
<1> QED BY <1>2 DEF TypeOK

(* nextTask() moves the head of a nonempty queue into the thread's hand.   *)
LEMMA PickStep ==
    ASSUME IInv, Pick
    PROVE  IInv'
<1>1. PICK l \in Level :
          /\ NextLevel(l)
          /\ running' = Head(readyQueues[l])
          /\ readyQueues' = [readyQueues EXCEPT ![l] = Tail(@)]
  BY DEF Pick
<1>2. /\ QueuesOK /\ QueuedOnce
      /\ readyQueues[l] # <<>>
  BY <1>1 DEF IInv, TypeOK, QueuesOK, Places, NextLevel, Lowest, SlotHit
<1>3. /\ QueuesOK'
      /\ QueuedOnce'
      /\ running' \in Task
      /\ Queued(running')
      /\ \A u : Queued(u)' <=> Queued(u) /\ u # running'
  BY <1>1, <1>2, PopEffect
<1>4. cursor' \in 0 .. (Len(LevelSelection) - 1)
  <2>1. cursor' = cursor \/ \E k \in 1 .. Len(LevelSelection) : cursor' = Advance(k)
    BY <1>1 DEF NextLevel
  <2> QED BY <2>1, CursorType DEF IInv
<1>5. TypeOK'
  BY <1>3, <1>4 DEF IInv, TypeOK, Pick, QueuesOK, blocks, tasks, states, waits
<1>6. Places'
  <2>1. running = NoTask
    BY DEF IInv, ControlAgrees, Pick
  <2>2. ExactlyOnePlace'
    BY <1>3, <2>1, NullAssumption
       DEF IInv, Places, ExactlyOnePlace, Pick, Live, Waiting, blocks, waits
  <2>3. ListedWait'
    BY DEF IInv, Places, ListedWait, Pick, waits
  <2> QED BY <1>3, <2>2, <2>3 DEF Places
<1>7. ControlAgrees'
  <2>1. message' = message /\ pc' = "exec" /\ Live' = Live /\ depth' = depth
    BY DEF Pick, Live, blocks, tasks
  <2>2. running' # NoTask
    BY <1>3, NullAssumption
  <2>3. message = "None" /\ \A t \in Live : depth[t] # 0
    BY NullAssumption DEF IInv, ControlAgrees, Pick, Live, TypeOK
  <2> QED BY <2>1, <2>2, <2>3 DEF ControlAgrees
<1>8. ExpiredOnlyDuringGC'
  BY DEF IInv, ExpiredOnlyDuringGC, Pick, blocks
<1> QED BY <1>5, <1>6, <1>7, <1>8 DEF IInv

LEMMA ExitStep ==
    ASSUME IInv, Exit
    PROVE  IInv'
<1>1. cursor' \in 0 .. (Len(LevelSelection) - 1)
  <2>1. cursor' = cursor \/ \E k \in 1 .. Len(LevelSelection) : cursor' = Advance(k)
    BY DEF Exit
  <2> QED BY <2>1, CursorType DEF IInv
<1>2. Places'
  BY PlacesUnchanged DEF IInv, Exit, blocks, waits
<1>3. TypeOK'
  BY <1>1 DEF IInv, TypeOK, Exit, blocks, tasks, states, waits
<1>4. ControlAgrees' /\ ExpiredOnlyDuringGC'
  BY DEF IInv, ControlAgrees, ExpiredOnlyDuringGC, Exit, blocks, tasks, states, Live
<1> QED BY <1>2, <1>3, <1>4 DEF IInv

(* deleteTask() and the end of a turn take the running task out of the     *)
(* live tasks, now or at the end of the collection.                        *)
LEMMA DeleteEffect ==
    ASSUME TypeOK, Places, ExpiredOnlyDuringGC,
           running \in Live, running' = NoTask,
           DeleteTask(running),
           UNCHANGED <<gcRunning, readyQueues, waitingOn, waiters>>
    PROVE  /\ Live' = Live \ {running}
           /\ Places'
           /\ ExpiredOnlyDuringGC'
           /\ allocated' \subseteq Task
           /\ allTasks' \subseteq allocated'
           /\ expired' \subseteq allTasks'
<1>1. /\ Live' = Live \ {running}
      /\ allocated' \subseteq Task
      /\ allTasks' \subseteq allocated'
      /\ expired' \subseteq allTasks'
      /\ ExpiredOnlyDuringGC'
  BY DEF DeleteTask, Live, TypeOK, ExpiredOnlyDuringGC
<1>2. ExactlyOnePlace'
  BY <1>1, NullAssumption DEF Places, ExactlyOnePlace, Queued, Waiting
<1>3. QueuedOnce' /\ ListedWait'
  BY DEF Places, QueuedOnce, ListedWait
<1> QED BY <1>1, <1>2, <1>3 DEF Places

LEMMA ErroredStep ==
    ASSUME IInv, HandleErrored
    PROVE  IInv'
<1>1. running \in Live
  BY RunningIsLive DEF HandleErrored
<1>2. /\ Live' = Live \ {running} /\ Places' /\ ExpiredOnlyDuringGC'
      /\ allocated' \subseteq Task /\ allTasks' \subseteq allocated' /\ expired' \subseteq allTasks'
  BY <1>1, DeleteEffect DEF IInv, HandleErrored, EndTurn, queues, waits
<1>3. TypeOK'
  BY <1>2 DEF IInv, TypeOK, HandleErrored, EndTurn, Messages, queues, tasks, states, waits
<1>4. ControlAgrees'
  BY <1>2 DEF IInv, ControlAgrees, HandleErrored, EndTurn, tasks
<1> QED BY <1>2, <1>3, <1>4 DEF IInv

(* complete() has woken every waiter; the caller goes on, or its task is   *)
(* deleted.                                                                *)
LEMMA WakeDoneStep ==
    ASSUME IInv, WakeDone
    PROVE  IInv'
<1>1. running \in Live
  BY RunningIsLive DEF WakeDone
<1>2. CASE message = "Returned"
  <2>1. /\ Live' = Live \ {running} /\ Places' /\ ExpiredOnlyDuringGC'
        /\ allocated' \subseteq Task /\ allTasks' \subseteq allocated' /\ expired' \subseteq allTasks'
    BY <1>1, <1>2, DeleteEffect DEF IInv, WakeDone, EndTurn, queues, waits
  <2>2. TypeOK'
    BY <1>2, <2>1 DEF IInv, TypeOK, WakeDone, EndTurn, Messages, queues, tasks, states, waits
  <2>3. ControlAgrees'
    BY <1>2, <2>1 DEF IInv, ControlAgrees, WakeDone, EndTurn, tasks
  <2> QED BY <2>1, <2>2, <2>3 DEF IInv
<1>3. CASE message # "Returned"
  <2>1. Places'
    BY <1>3, PlacesUnchanged DEF IInv, WakeDone, Continue, blocks, queues, waits
  <2>2. TypeOK'
    BY <1>3 DEF IInv, TypeOK, WakeDone, Continue, blocks, queues, tasks, states, waits
  <2>3. ControlAgrees' /\ ExpiredOnlyDuringGC'
    BY <1>3 DEF IInv, ControlAgrees, ExpiredOnlyDuringGC, WakeDone, Continue, blocks, tasks,
                states, Live
  <2> QED BY <2>1, <2>2, <2>3 DEF IInv
<1> QED BY <1>2, <1>3

(* enqueue() of the running task: from the thread's hand into one queue.   *)
LEMMA YieldedStep ==
    ASSUME IInv, HandleYielded
    PROVE  IInv'
<1>1. running \in Live /\ running \in Task /\ ~Queued(running) /\ ~Waiting(running)
  BY RunningIsLive DEF HandleYielded
<1>2. /\ QueuesOK' /\ QueuedOnce'
      /\ \A u : Queued(u)' <=> Queued(u) \/ u = running
  BY <1>1, EnqueueEffect DEF HandleYielded, IInv, TypeOK, Places, QueuesOK
<1>3. TypeOK'
  BY <1>2 DEF IInv, TypeOK, HandleYielded, EndTurn, Messages, QueuesOK, blocks, tasks, states,
              waits
<1>4. Places'
  <2>1. ExactlyOnePlace'
    BY <1>1, <1>2, NullAssumption
       DEF IInv, Places, ExactlyOnePlace, HandleYielded, EndTurn, Live, Waiting, blocks, waits
  <2>2. ListedWait'
    BY DEF IInv, Places, ListedWait, HandleYielded, waits
  <2> QED BY <1>2, <2>1, <2>2 DEF Places
<1>5. ControlAgrees' /\ ExpiredOnlyDuringGC'
  BY DEF IInv, ControlAgrees, ExpiredOnlyDuringGC, HandleYielded, EndTurn, blocks, tasks, Live
<1> QED BY <1>3, <1>4, <1>5 DEF IInv
(* schedule() adds a live, queued task, or nothing when it is refused.     *)
LEMMA ScheduleEffect ==
    ASSUME TypeOK, Places,
           NEW t, NEW f, NEW p \in Nat, Schedule(t, f, p),
           running' = running, running # NoTask => running \in Live
    PROVE  /\ Places'
           /\ t \notin Live /\ Live \subseteq Live' /\ Live' \subseteq Live \cup {t}
           /\ QueuesOK'
           /\ allocated' \subseteq Task /\ allTasks' \subseteq allocated' /\ expired' \subseteq allTasks'
           /\ depth' = [depth EXCEPT ![t] = 1] /\ depth' \in [Task -> Nat]
           /\ priority' \in [Task -> Nat]
           /\ made \subseteq made' /\ made' \subseteq Future
           /\ completionFuture' \in [Task -> made' \cup {NoFuture}]
           /\ capacity' \in [Future -> Nat]
<1>1. /\ t \in Task /\ t \notin allocated
      /\ allocated' = allocated \cup {t}
      /\ UNCHANGED <<expired, waitingOn, waiters>>
  BY DEF Schedule
<1>2. t \notin allTasks /\ t \notin Live /\ t \notin expired
  BY <1>1 DEF TypeOK, Live
<1>3. ~Queued(t) /\ ~Waiting(t) /\ t # running
  BY <1>1, <1>2 DEF Places, ExactlyOnePlace
<1>4. /\ depth' = [depth EXCEPT ![t] = 1] /\ depth' \in [Task -> Nat]
      /\ priority' \in [Task -> Nat]
  BY <1>1 DEF Schedule, TypeOK
<1>5. AllocateFuture(f)
  BY DEF Schedule
<1>6. /\ made \subseteq made' /\ made' \subseteq Future
      /\ f \in made' \cup {NoFuture}
  BY <1>5 DEF AllocateFuture, TypeOK
<1>7. capacity' \in [Future -> Nat]
  BY <1>5, CapacityType DEF TypeOK
<1>8. completionFuture' \in [Task -> made' \cup {NoFuture}]
  <2>1. completionFuture' = [completionFuture EXCEPT ![t] = f]
    BY DEF Schedule
  <2>2. completionFuture \in [Task -> made' \cup {NoFuture}]
    BY <1>6 DEF TypeOK
  <2> QED BY <2>1, <2>2, <1>6
<1>9. CASE Full
  <2>1. UNCHANGED <<allTasks, readyQueues>>
    BY <1>9 DEF Schedule
  <2>2. Places'
    BY <1>1, <2>1, PlacesUnchanged
  <2> QED BY <1>1, <1>2, <1>4, <1>6, <1>7, <1>8, <2>1, <2>2 DEF Live, TypeOK, QueuesOK
<1>10. CASE ~Full
  <2>1. allTasks' = allTasks \cup {t} /\ Enqueue(t, p)
    BY <1>10 DEF Schedule
  <2>2. /\ QueuesOK' /\ QueuedOnce'
        /\ \A u : Queued(u)' <=> Queued(u) \/ u = t
    BY <1>1, <1>3, <2>1, EnqueueEffect DEF TypeOK, QueuesOK, Places
  <2>3. Live' = Live \cup {t}
    BY <1>1, <1>2, <2>1 DEF Live
  <2>4. ExactlyOnePlace'
    BY <1>1, <1>3, <2>2, <2>3 DEF Places, ExactlyOnePlace, Waiting
  <2>5. ListedWait'
    BY <1>1 DEF Places, ListedWait
  <2>6. allocated' \subseteq Task /\ allTasks' \subseteq allocated' /\ expired' \subseteq allTasks'
    BY <1>1, <2>1 DEF TypeOK
  <2> QED BY <1>2, <1>4, <1>6, <1>7, <1>8, <2>2, <2>3, <2>4, <2>5, <2>6 DEF Places
<1> QED BY <1>9, <1>10

LEMMA SpawnStep ==
    ASSUME IInv, NEW t \in Task, NEW f \in MaybeFuture, Spawn(t, f)
    PROVE  IInv'
<1>1. /\ running \in Live /\ running \in Task
      /\ pc = "exec" /\ message = "None"
  BY RunningIsLive DEF Spawn, Executing, IInv, ControlAgrees
<1>2. PICK p \in Nat : Schedule(t, f, p)
  BY <1>1, ParameterAssumption DEF Spawn, IInv, TypeOK
<1>3. /\ running' = running /\ message' = message /\ awaited' = awaited
      /\ pc' \in {"exec", "fault"} /\ executed' \in Nat
      /\ completing' = completing
      /\ UNCHANGED <<expired, gcRunning, cursor, ready, cancelled, waitingOn, waiters>>
  BY <1>2 DEF Spawn, Continue, IInv, TypeOK, Schedule
<1>4. /\ Places'
      /\ t \notin Live /\ Live \subseteq Live' /\ Live' \subseteq Live \cup {t}
      /\ QueuesOK'
      /\ allocated' \subseteq Task /\ allTasks' \subseteq allocated' /\ expired' \subseteq allTasks'
      /\ depth' = [depth EXCEPT ![t] = 1] /\ depth' \in [Task -> Nat]
      /\ priority' \in [Task -> Nat]
      /\ made \subseteq made' /\ made' \subseteq Future
      /\ completionFuture' \in [Task -> made' \cup {NoFuture}]
      /\ capacity' \in [Future -> Nat]
  BY <1>1, <1>2, <1>3, ScheduleEffect DEF IInv
<1>5. TypeOK'
  BY <1>3, <1>4 DEF IInv, TypeOK, QueuesOK
<1>6. ControlAgrees'
  <2>1. \A u \in Live' : depth'[u] # 0
    BY <1>1, <1>4 DEF IInv, ControlAgrees, TypeOK, Live
  <2> QED BY <1>1, <1>3, <1>4, <2>1, NullAssumption DEF ControlAgrees
<1>7. ExpiredOnlyDuringGC'
  BY <1>3 DEF IInv, ExpiredOnlyDuringGC
<1> QED BY <1>4, <1>5, <1>6, <1>7 DEF IInv

LEMMA BootStep ==
    ASSUME IInv, NEW t \in Task, NEW f \in MaybeFuture, Boot(t, f)
    PROVE  IInv'
<1>1. running = NoTask /\ message = "None" /\ Schedule(t, f, MainPriority) /\ MainPriority \in Nat
  BY ParameterAssumption DEF Boot, IInv, ControlAgrees
<1>2. /\ running' = running /\ message' = message /\ awaited' = awaited
      /\ pc' \in {"exit", "pick"} /\ executed' = executed
      /\ completing' = completing
      /\ UNCHANGED <<expired, gcRunning, cursor, ready, cancelled, waitingOn, waiters>>
  BY DEF Boot, Schedule
<1>3. /\ Places'
      /\ t \notin Live /\ Live \subseteq Live' /\ Live' \subseteq Live \cup {t}
      /\ QueuesOK'
      /\ allocated' \subseteq Task /\ allTasks' \subseteq allocated' /\ expired' \subseteq allTasks'
      /\ depth' = [depth EXCEPT ![t] = 1] /\ depth' \in [Task -> Nat]
      /\ priority' \in [Task -> Nat]
      /\ made \subseteq made' /\ made' \subseteq Future
      /\ completionFuture' \in [Task -> made' \cup {NoFuture}]
      /\ capacity' \in [Future -> Nat]
  BY <1>1, <1>2, ScheduleEffect DEF IInv
<1>4. TypeOK'
  BY <1>2, <1>3 DEF IInv, TypeOK, QueuesOK
<1>5. ControlAgrees'
  <2>1. \A u \in Live' : depth'[u] # 0
    BY <1>1, <1>3, NullAssumption DEF IInv, ControlAgrees, TypeOK, Live
  <2> QED BY <1>1, <1>2, <1>3, <2>1, NullAssumption DEF ControlAgrees
<1>6. ExpiredOnlyDuringGC'
  BY <1>2 DEF IInv, ExpiredOnlyDuringGC
<1> QED BY <1>3, <1>4, <1>5, <1>6 DEF IInv

(* The safepoint deletes the expired tasks, or nothing: no live task.      *)
LEMMA SafepointStep ==
    ASSUME IInv, NEW collecting \in BOOLEAN, Safepoint(collecting)
    PROVE  IInv'
<1>1. /\ UNCHANGED <<awaited, running, queues, tasks, states, waits, completing>>
      /\ gcRunning' = collecting
  BY DEF Safepoint
<1>2. /\ Live' = Live
      /\ allocated' \subseteq Task /\ allTasks' \subseteq allocated' /\ expired' \subseteq allTasks'
      /\ ExpiredOnlyDuringGC'
  BY <1>1 DEF Safepoint, IInv, TypeOK, Live, ExpiredOnlyDuringGC, blocks
<1>3. Places'
  BY <1>1, <1>2 DEF IInv, Places, ExactlyOnePlace, QueuedOnce, ListedWait, Queued, Waiting,
                    queues, waits
<1>4. TypeOK'
  BY <1>1, <1>2 DEF Safepoint, IInv, TypeOK, Messages, queues, tasks, states, waits
<1>5. ControlAgrees'
  <2>1. running \in Live /\ running # NoTask /\ depth[running] \in Nat
    BY RunningIsLive, NullAssumption DEF Safepoint, IInv, TypeOK
  <2>2. message \in {"Called", "Returned", "Yielded", "Awaiting"}
    BY DEF Safepoint, IInv, ControlAgrees
  <2>3. depth[running] = 0 => message = "Returned"
    BY <2>1 DEF IInv, ControlAgrees
  <2>4. CASE message \in {"Called", "Returned"} /\ depth[running] > 0
    <3>1. pc' = "exec" /\ message' = "None"
      BY <2>4 DEF Safepoint
    <3> QED BY <1>1, <1>2, <2>1, <2>4, <3>1 DEF IInv, ControlAgrees, tasks, states
  <2>5. CASE ~(message \in {"Called", "Returned"} /\ depth[running] > 0)
    <3>1. pc' = "message" /\ message' = message
      BY <2>5 DEF Safepoint
    <3>2. message # "Called"
      BY <2>1, <2>3, <2>5
    <3> QED BY <1>1, <1>2, <2>1, <2>2, <3>1, <3>2 DEF IInv, ControlAgrees, tasks, states
  <2> QED BY <2>4, <2>5
<1> QED BY <1>2, <1>3, <1>4, <1>5 DEF IInv
(* addWaiter(): the running task comes to wait, listed unless the array    *)
(* could not grow.                                                         *)
LEMMA AwaitingStep ==
    ASSUME IInv, NEW grows \in BOOLEAN, HandleAwaiting(grows)
    PROVE  IInv'
<1>1. /\ running \in Live /\ running \in Task /\ ~Queued(running) /\ ~Waiting(running)
      /\ awaited \in made \ ready /\ awaited \in Future /\ awaited # NoFuture
  BY RunningIsLive, NullAssumption DEF HandleAwaiting, IInv, ControlAgrees, TypeOK
<1>2. waitingOn' = [waitingOn EXCEPT ![running] = awaited]
  BY DEF HandleAwaiting, AddWaiter
<1>3. /\ capacity' \in [Future -> Nat]
      /\ \/ UNCHANGED waiters
         \/ waiters' = [waiters EXCEPT ![awaited] = Append(@, running)]
  <2>1. capacity[awaited] \in Nat /\ 2 * capacity[awaited] \in Nat
    BY <1>1 DEF IInv, TypeOK
  <2>2. \/ UNCHANGED capacity
        \/ capacity' = [capacity EXCEPT ![awaited] = 2 * capacity[awaited]]
        \/ capacity' = [capacity EXCEPT ![awaited] = 0]
    BY DEF HandleAwaiting, AddWaiter
  <2>3. capacity' \in [Future -> Nat]
    BY <1>1, <2>1, <2>2 DEF IInv, TypeOK
  <2> QED BY <2>3 DEF HandleAwaiting, AddWaiter
<1>4. /\ waiters' \in [Future -> Seq(Task)]
      /\ \A f \in Future : /\ IsInjective(waiters'[f])
                           /\ Range(waiters'[f]) \subseteq
                                  Range(waiters[f]) \cup IF f = awaited THEN {running} ELSE {}
  <2>1. CASE UNCHANGED waiters
    BY <2>1 DEF IInv, TypeOK, Places, ListedWait
  <2>2. CASE waiters' = [waiters EXCEPT ![awaited] = Append(@, running)]
    <3> DEFINE new == Append(waiters[awaited], running)
    <3>1. waiters[awaited] \in Seq(Task) /\ IsInjective(waiters[awaited])
      BY <1>1 DEF IInv, TypeOK, Places, ListedWait
    <3>2. running \notin Range(waiters[awaited])
      BY <1>1 DEF IInv, Places, ListedWait, Waiting
    <3>3. /\ new \in Seq(Task) /\ IsInjective(new)
          /\ Range(new) = Range(waiters[awaited]) \cup {running}
      BY <1>1, <3>1, <3>2, AppendElements
    <3> HIDE DEF new
    <3>4. waiters' = [waiters EXCEPT ![awaited] = new]
      BY <2>2 DEF new
    <3> QED BY <1>1, <3>3, <3>4 DEF IInv, TypeOK, Places, ListedWait
  <2> QED BY <1>3, <2>1, <2>2
<1>5. Places'
  <2>1. \A t \in Task : waitingOn'[t] = IF t = running THEN awaited ELSE waitingOn[t]
    BY <1>2 DEF IInv, TypeOK
  <2>2. running' = NoTask /\ Live' = Live /\ readyQueues' = readyQueues
    BY DEF HandleAwaiting, EndTurn, Live, blocks, queues
  <2>3. ExactlyOnePlace'
    BY <1>1, <2>1, <2>2, NullAssumption DEF IInv, Places, ExactlyOnePlace, Queued, Waiting
  <2>4. ListedWait'
    <3> SUFFICES ASSUME NEW f \in Future, NEW t \in Range(waiters'[f])
                 PROVE  waitingOn'[t] = f
      BY <1>4 DEF ListedWait
    <3>1. Range(waiters[f]) \subseteq Task
      BY DEF IInv, TypeOK, Range
    <3>2. CASE t \in Range(waiters[f])
      BY <1>1, <2>1, <3>1, <3>2, NullAssumption DEF IInv, Places, ListedWait, Waiting
    <3>3. CASE t \notin Range(waiters[f])
      BY <1>1, <1>4, <2>1, <3>3
    <3> QED BY <3>2, <3>3
  <2>5. QueuedOnce'
    BY <2>2 DEF IInv, Places, QueuedOnce
  <2> QED BY <2>3, <2>4, <2>5 DEF Places
<1>6. TypeOK'
  <2>1. waitingOn' \in [Task -> made \cup {NoFuture}]
    BY <1>1, <1>2 DEF IInv, TypeOK
  <2> QED BY <1>3, <1>4, <2>1 DEF HandleAwaiting, EndTurn, IInv, TypeOK, Messages, blocks,
                                  queues, tasks, states
<1>7. ControlAgrees' /\ ExpiredOnlyDuringGC'
  BY DEF IInv, ControlAgrees, ExpiredOnlyDuringGC, HandleAwaiting, EndTurn, blocks, tasks, Live
<1> QED BY <1>5, <1>6, <1>7 DEF IInv

(* complete() moves its oldest waiter from waiting to ready.               *)
LEMMA WakeOneEffect ==
    ASSUME IInv, WakeOne
    PROVE  LET t == Head(waiters[completing]) IN
           /\ t \in Task /\ waitingOn[t] = completing /\ Waiting(t)
           /\ QueuesOK' /\ QueuedOnce'
           /\ \A u : Queued(u)' <=> Queued(u) \/ u = t
           /\ \A u \in Task : waitingOn'[u] = IF u = t THEN NoFuture ELSE waitingOn[u]
           /\ waiters' \in [Future -> Seq(Task)]
           /\ \A f \in Future : /\ IsInjective(waiters'[f])
                                /\ Range(waiters'[f]) = Range(waiters[f]) \ {t}
<1> DEFINE t == Head(waiters[completing])
           new == Tail(waiters[completing])
<1>1. completing \in ready /\ completing \in Future /\ completing # NoFuture
  BY NullAssumption DEF WakeOne, IInv, ControlAgrees, TypeOK
<1>2. /\ waiters[completing] \in Seq(Task) /\ IsInjective(waiters[completing])
      /\ waiters[completing] # <<>>
  BY <1>1 DEF WakeOne, IInv, TypeOK, Places, ListedWait
<1>3. /\ t \in Range(waiters[completing]) /\ t \in Task
      /\ new \in Seq(Task) /\ IsInjective(new)
      /\ Range(new) = Range(waiters[completing]) \ {t}
  BY <1>2, TailElements
<1>4. /\ waitingOn' = [waitingOn EXCEPT ![t] = NoFuture]
      /\ Enqueue(t, priority[t])
      /\ waiters' = [waiters EXCEPT ![completing] = new]
  BY DEF WakeOne
<1> HIDE DEF t, new
<1>5. waitingOn[t] = completing /\ Waiting(t)
  BY <1>1, <1>3 DEF IInv, Places, ListedWait, Waiting
<1>6. ~Queued(t) /\ priority[t] \in Nat
  BY <1>3, <1>5 DEF IInv, Places, ExactlyOnePlace, TypeOK
<1>7. /\ QueuesOK' /\ QueuedOnce'
      /\ \A u : Queued(u)' <=> Queued(u) \/ u = t
  BY <1>3, <1>4, <1>6, EnqueueEffect DEF IInv, TypeOK, QueuesOK, Places
<1>8. \A u \in Task : waitingOn'[u] = IF u = t THEN NoFuture ELSE waitingOn[u]
  BY <1>4 DEF IInv, TypeOK
<1>9. /\ waiters' \in [Future -> Seq(Task)]
      /\ \A f \in Future : waiters'[f] = IF f = completing THEN new ELSE waiters[f]
  BY <1>1, <1>3, <1>4 DEF IInv, TypeOK
<1>10. ASSUME NEW f \in Future
       PROVE  IsInjective(waiters'[f]) /\ Range(waiters'[f]) = Range(waiters[f]) \ {t}
  <2>1. CASE f = completing
    BY <1>3, <1>9, <2>1
  <2>2. CASE f # completing
    BY <1>5, <1>9, <2>2 DEF IInv, Places, ListedWait
  <2> QED BY <2>1, <2>2
<1> QED BY <1>3, <1>5, <1>7, <1>8, <1>9, <1>10 DEF t

LEMMA WakeOneStep ==
    ASSUME IInv, WakeOne
    PROVE  IInv'
<1> DEFINE t == Head(waiters[completing])
<1>1. /\ t \in Task /\ waitingOn[t] = completing /\ Waiting(t)
      /\ QueuesOK' /\ QueuedOnce'
      /\ \A u : Queued(u)' <=> Queued(u) \/ u = t
      /\ \A u \in Task : waitingOn'[u] = IF u = t THEN NoFuture ELSE waitingOn[u]
      /\ waiters' \in [Future -> Seq(Task)]
      /\ \A f \in Future : /\ IsInjective(waiters'[f])
                           /\ Range(waiters'[f]) = Range(waiters[f]) \ {t}
  BY WakeOneEffect
<1>2. waitingOn' = [waitingOn EXCEPT ![t] = NoFuture]
  BY DEF WakeOne
<1> HIDE DEF t
<1>3. running' = running /\ Live' = Live
  BY DEF WakeOne, control, blocks, Live
<1>4. ExactlyOnePlace'
  BY <1>1, <1>3 DEF IInv, Places, ExactlyOnePlace, Waiting
<1>5. ListedWait'
  <2>1. \A f \in Future : Range(waiters[f]) \subseteq Task
    BY DEF IInv, TypeOK, Range
  <2> QED BY <1>1, <2>1 DEF IInv, Places, ListedWait
<1>6. TypeOK'
  <2>1. waitingOn' \in [Task -> made \cup {NoFuture}]
    BY <1>1, <1>2 DEF IInv, TypeOK
  <2> QED BY <1>1, <2>1 DEF WakeOne, IInv, TypeOK, QueuesOK, control, blocks, tasks, states
<1>7. ControlAgrees' /\ ExpiredOnlyDuringGC'
  BY DEF WakeOne, IInv, ControlAgrees, ExpiredOnlyDuringGC, Live, control, blocks, tasks, states
<1> QED BY <1>1, <1>4, <1>5, <1>6, <1>7 DEF IInv, Places

LEMMA StutterStep ==
    ASSUME IInv, UNCHANGED vars
    PROVE  IInv'
<1>1. Places'
  BY PlacesUnchanged DEF IInv, vars, control, blocks, queues, waits
<1>2. TypeOK' /\ ControlAgrees' /\ ExpiredOnlyDuringGC'
  BY DEF IInv, TypeOK, ControlAgrees, ExpiredOnlyDuringGC, Live, vars, control, blocks, queues,
         tasks, states, waits
<1> QED BY <1>1, <1>2 DEF IInv

(* The inductive invariant is preserved by every step.                     *)
LEMMA NextIInv == IInv /\ [Next]_vars => IInv'
<1> SUFFICES ASSUME IInv, [Next]_vars PROVE IInv'
  OBVIOUS
<1>1. CASE Instruction
  BY <1>1, LeaveStep, FrameStep, FutureStep, SpawnStep DEF Instruction
<1>2. CASE RunLoop
  BY <1>2, BootStep, PickStep, ExitStep, SafepointStep, ErroredStep, FutureStep, YieldedStep,
     AwaitingStep, WakeOneStep, WakeDoneStep, StutterStep DEF RunLoop, Stopped
<1>3. CASE UNCHANGED vars
  BY <1>3, StutterStep
<1> QED BY <1>1, <1>2, <1>3 DEF Next

LEMMA Invariance == Spec => []IInv
<1> QED BY InitIInv, NextIInv, PTL DEF Spec

(* The types, for every number of tasks, futures and levels.               *)
THEOREM TypeCorrect == Spec => []TypeOK
<1>1. IInv => TypeOK
  BY DEF IInv
<1> QED BY <1>1, Invariance, PTL

(* No task is lost or doubled, whatever fails.                             *)
THEOREM EveryTaskInOnePlace == Spec => []ExactlyOnePlace
<1>1. IInv => ExactlyOnePlace
  BY DEF IInv, Places
<1> QED BY <1>1, Invariance, PTL

(* No task is in the queues twice, and so run again after its end.         *)
THEOREM NoTaskQueuedTwice == Spec => []QueuedOnce
<1>1. IInv => QueuedOnce
  BY DEF IInv, Places
<1> QED BY <1>1, Invariance, PTL
-----------------------------------------------------------------------------
(* What a step may never do.                                               *)

(* The actions that leave the task blocks and lists alone.                 *)
LEMMA BlocksUnchanged ==
    ASSUME \/ Compute \/ AutoYieldNow \/ Yield \/ Fail \/ Call \/ Return
           \/ \E f \in MaybeFuture : NewFuture(f)
           \/ \E f \in made : Resolve(f) \/ Cancel(f) \/ Await(f)
           \/ Pick \/ Exit \/ HandleReturned \/ HandleYielded
           \/ \E grows \in BOOLEAN : HandleAwaiting(grows)
           \/ WakeOne \/ UNCHANGED vars
    PROVE  UNCHANGED blocks
BY DEF Compute, AutoYieldNow, Yield, Fail, Call, Return, NewFuture, Resolve, Cancel, Await, Pick,
       Exit, HandleReturned, HandleYielded, HandleAwaiting, WakeOne, vars

(* The four steps that add or remove tasks, and the rest.                  *)
LEMMA BlockSteps ==
    ASSUME IInv, [Next]_vars
    PROVE  \/ UNCHANGED blocks
           \/ allocated \subseteq allocated' /\ allTasks \subseteq allTasks'
           \/ DeleteTask(running) /\ UNCHANGED gcRunning /\ running \in Task /\ running' = NoTask
           \/ /\ ~gcRunning' /\ running' = running /\ running \in Live
              /\ allTasks' = allTasks \ expired /\ allocated' = allocated \ expired
<1>1. ASSUME NEW t \in Task, NEW f \in MaybeFuture, Spawn(t, f) \/ Boot(t, f)
      PROVE  allocated \subseteq allocated' /\ allTasks \subseteq allTasks'
  BY <1>1 DEF Spawn, Boot, Schedule
<1>2. CASE HandleErrored \/ WakeDone
  BY <1>2, RunningIsLive DEF HandleErrored, WakeDone, EndTurn
<1>3. ASSUME NEW collecting \in BOOLEAN, Safepoint(collecting)
      PROVE  \/ UNCHANGED blocks
             \/ /\ ~gcRunning' /\ running' = running /\ running \in Live
                /\ allTasks' = allTasks \ expired /\ allocated' = allocated \ expired
  BY <1>3, RunningIsLive DEF Safepoint
<1> QED BY <1>1, <1>2, <1>3, BlocksUnchanged DEF Next, Instruction, RunLoop, Stopped

(* mAllTasks is append-only while a collection is under way, so an index   *)
(* into it kept from one pause to the next stays good.                     *)
THEOREM AllTasksAppendOnly == Spec => AppendOnlyDuringGC
<1>1. ASSUME IInv, [Next]_vars, gcRunning, gcRunning'
      PROVE  allTasks \subseteq allTasks'
  BY <1>1, BlockSteps DEF DeleteTask, blocks
<1>2. IInv /\ [Next]_vars => [gcRunning /\ gcRunning' => allTasks \subseteq allTasks']_vars
  BY <1>1
<1> QED BY <1>2, Invariance, PTL DEF Spec, AppendOnlyDuringGC

(* A block is freed only outside a collection, when its task has ended.    *)
THEOREM BlocksFreedWhenDone == Spec => FreedOnlyWhenDone
<1> DEFINE A == \A t \in allocated \ allocated' :
                    ~gcRunning' /\ (t = running \/ t \in expired) /\ running' # t
<1>1. ASSUME IInv, [Next]_vars PROVE A
  BY <1>1, BlockSteps, NullAssumption DEF DeleteTask, blocks, Live, IInv, TypeOK
<1>2. IInv /\ [Next]_vars => [A]_vars
  BY <1>1
<1> QED BY <1>2, Invariance, PTL DEF Spec, FreedOnlyWhenDone

(* A waiter is woken only by the completion of the future it waits on.     *)
THEOREM WokenOnlyByCompletion == Spec => WokenByCompletion
<1> DEFINE A == /\ ready \subseteq ready'
                /\ \A t \in Task : Waiting(t) /\ ~Waiting(t)' => waitingOn[t] \in ready
<1>1. ASSUME IInv, [Next]_vars PROVE A
  <2>1. ready \subseteq ready'
    BY <1>1 DEF Next, Instruction, RunLoop, Stopped, vars, Compute, AutoYieldNow, Yield, Fail,
       Call, Return, NewFuture, Resolve, Cancel, Await, Spawn, Boot, Schedule, Pick, Exit,
       Safepoint, HandleErrored, HandleReturned, HandleYielded, HandleAwaiting, WakeOne,
       WakeDone, BeginComplete, states
  <2>2. CASE UNCHANGED waitingOn
    BY <2>1, <2>2 DEF Waiting
  <2>3. ASSUME NEW grows \in BOOLEAN, HandleAwaiting(grows) PROVE A
    <3>1. awaited # NoFuture /\ running \in Task
      BY <1>1, <2>3, RunningIsLive, NullAssumption
         DEF HandleAwaiting, IInv, ControlAgrees, TypeOK
    <3> QED BY <1>1, <2>1, <2>3, <3>1 DEF HandleAwaiting, AddWaiter, Waiting, IInv, TypeOK
  <2>4. CASE WakeOne
    <3>1. completing \in ready
      BY <1>1, <2>4 DEF WakeOne, IInv, ControlAgrees
    <3> QED BY <1>1, <2>1, <2>4, <3>1, WakeOneEffect DEF Waiting
  <2>5. UNCHANGED waitingOn \/ WakeOne \/ \E grows \in BOOLEAN : HandleAwaiting(grows)
    BY <1>1 DEF Next, Instruction, RunLoop, Stopped, vars, Compute, AutoYieldNow, Yield, Fail,
       Call, Return, NewFuture, Resolve, Cancel, Await, Spawn, Boot, Schedule, Pick, Exit,
       Safepoint, HandleErrored, HandleReturned, HandleYielded, WakeDone, waits
  <2> QED BY <2>2, <2>3, <2>4, <2>5
<1>2. IInv /\ [Next]_vars => [A]_vars
  BY <1>1
<1> QED BY <1>2, Invariance, PTL DEF Spec, WokenByCompletion
-----------------------------------------------------------------------------
(* When no allocation fails, every waiter is found by complete().          *)

Heap ==
    /\ \A f \in made : capacity[f] > 0
    /\ \A t \in Live : completionFuture[t] # NoFuture
    /\ completing # NoFuture => pc = "wake"

Drained == pc \in {"boot", "exit"} => \A l \in Level : readyQueues[l] = <<>>

HInv == Heap /\ Drained /\ WaitersListed /\ NoLostWakeup

LEMMA InitHInv == Init => HInv
BY DEF Init, HInv, Heap, Drained, Live, WaitersListed, Waiting, NoLostWakeup

(* schedule() with a heap that does not fail makes a future with an array. *)
LEMMA ScheduleHeap ==
    ASSUME ~HeapMayFail, TypeOK, Heap,
           NEW f, AllocateFuture(f)
    PROVE  /\ f \in made' /\ made \subseteq made'
           /\ \A g \in made' : capacity'[g] > 0
<1>1. f \in Future \ made /\ made' = made \cup {f} /\ capacity' = [capacity EXCEPT ![f] = 1]
  BY DEF AllocateFuture
<1> QED BY <1>1 DEF Heap, TypeOK

(* The steps that neither start, carry on nor end a wait.                  *)
Quiet == \/ Instruction
         \/ \E t \in Task, f \in MaybeFuture : Boot(t, f)
         \/ Pick \/ Exit
         \/ \E collecting \in BOOLEAN : Safepoint(collecting)
         \/ HandleErrored \/ HandleReturned \/ HandleYielded
         \/ UNCHANGED vars

LEMMA QuietHInv ==
    ASSUME ~HeapMayFail, IInv, HInv, Quiet
    PROVE  HInv'
<1> USE DEF IInv, HInv
<1>1. UNCHANGED <<waitingOn, waiters>>
  BY DEF Quiet, Instruction, vars, Compute, AutoYieldNow, Yield, Fail, Call,
     Return, NewFuture, Resolve, Cancel, Await, Spawn, Boot, Schedule, Pick, Exit, Safepoint,
     HandleErrored, HandleReturned, HandleYielded, waits
<1>2. WaitersListed'
  BY <1>1 DEF WaitersListed, Waiting
<1>3. ASSUME NEW f \in made \cup {NoFuture}, pc \in {"exec", "message"}, BeginComplete(f),
             f \in made, UNCHANGED <<made, capacity, readyQueues, completionFuture, allTasks, expired>>
      PROVE  HInv'
  <2>1. NoLostWakeup'
    BY <1>1, <1>3, NullAssumption DEF NoLostWakeup, BeginComplete, Heap, TypeOK
  <2>2. Heap'
    BY <1>3, NullAssumption DEF BeginComplete, Heap, Live, TypeOK
  <2>3. Drained'
    BY <1>3 DEF Drained, BeginComplete
  <2> QED BY <1>2, <2>1, <2>2, <2>3
<1>4. CASE HandleReturned
  <2>1. completionFuture[running] \in made
    BY <1>4, RunningIsLive DEF HandleReturned, TypeOK, Heap
  <2>2. /\ pc \in {"exec", "message"} /\ BeginComplete(completionFuture[running])
        /\ UNCHANGED <<made, capacity, readyQueues, completionFuture, allTasks, expired>>
    BY <1>4 DEF HandleReturned, BeginComplete, blocks, queues, tasks, waits
  <2> QED BY <1>3, <2>1, <2>2
<1>5. ASSUME NEW f \in made, Resolve(f), f \notin ready PROVE HInv'
  BY <1>3, <1>5 DEF Resolve, Executing, BeginComplete, blocks, queues, tasks, waits
<1>6. ASSUME UNCHANGED ready PROVE NoLostWakeup'
  <2>1. CASE completing' = completing
    BY <1>1, <1>6, <2>1 DEF NoLostWakeup
  <2>2. CASE HandleReturned \/ \E f \in made : Resolve(f) /\ f \notin ready
    BY <1>4, <1>5, <2>2
  <2>3. completing' = completing \/ HandleReturned \/ \E f \in made : Resolve(f) /\ f \notin ready
    BY DEF Quiet, Instruction, vars, Compute, AutoYieldNow, Yield, Fail, Call,
       Return, NewFuture, Resolve, Cancel, Await, Spawn, Boot, Pick, Exit, Safepoint,
       HandleErrored, HandleYielded
  <2> QED BY <2>1, <2>2, <2>3
<1>7. ASSUME NEW t \in Task, NEW f \in MaybeFuture, Spawn(t, f) \/ Boot(t, f) PROVE HInv'
  <2>1. /\ AllocateFuture(f) /\ completionFuture' = [completionFuture EXCEPT ![t] = f]
        /\ Live' \subseteq Live \cup {t} /\ UNCHANGED <<ready, completing>>
        /\ pc \in {"boot", "exec"}
    BY <1>7 DEF Spawn, Boot, Schedule, Live, Executing
  <2>2. f \in made' /\ \A g \in made' : capacity'[g] > 0
    BY <2>1, ScheduleHeap
  <2>3. f # NoFuture
    BY <2>1, NullAssumption DEF AllocateFuture
  <2>4. Heap'
    BY <2>1, <2>2, <2>3 DEF Heap, TypeOK, Live
  <2>5. CASE pc' # "exit"
    <3>1. pc' # "boot"
      BY <1>7, <2>5 DEF Spawn, Boot, Continue
    <3> QED BY <1>2, <1>6, <2>1, <2>4, <2>5, <3>1 DEF Drained
  <2>6. CASE pc' = "exit"
    <3>1. Boot(t, f) /\ Full
      BY <1>7, <2>6 DEF Spawn, Boot, Continue
    <3> QED BY <1>2, <1>6, <2>1, <2>4, <3>1 DEF Drained, Boot, Schedule
  <2> QED BY <2>5, <2>6
<1>8. ASSUME NEW f \in MaybeFuture, NewFuture(f) PROVE HInv'
  <2>1. \A g \in made' : capacity'[g] > 0
    BY <1>8, ScheduleHeap DEF NewFuture
  <2>2. Heap' /\ Drained'
    BY <1>8, <2>1 DEF NewFuture, Continue, Executing, Heap, Drained, Live, blocks, tasks
  <2> QED BY <1>2, <1>6, <1>8, <2>2 DEF NewFuture
<1>9. CASE HandleErrored
  <2>1. Live' \subseteq Live
    BY <1>9 DEF HandleErrored, DeleteTask, Live
  <2>2. Heap' /\ Drained'
    BY <1>9, <2>1 DEF HandleErrored, EndTurn, Heap, Drained, states, waits, tasks
  <2> QED BY <1>2, <1>6, <1>9, <2>2 DEF HandleErrored, states
<1>10. ASSUME NEW collecting \in BOOLEAN, Safepoint(collecting) PROVE HInv'
  <2>1. Live' \subseteq Live
    BY <1>10 DEF Safepoint, Live, blocks
  <2>2. Heap' /\ Drained'
    BY <1>10, <2>1 DEF Safepoint, Heap, Drained, states, waits, tasks
  <2> QED BY <1>2, <1>6, <1>10, <2>2 DEF Safepoint, states
<1>11. CASE \/ Compute \/ AutoYieldNow \/ Yield \/ Fail \/ Call \/ Return
            \/ \E f \in made : Cancel(f) \/ Await(f) \/ (Resolve(f) /\ f \in ready)
            \/ Pick \/ Exit \/ HandleYielded \/ UNCHANGED vars
  <2>1. UNCHANGED <<ready, made, capacity, completing, completionFuture, allTasks, expired>>
    BY <1>11 DEF Compute, AutoYieldNow, Yield, Fail, Call, Return, Cancel, Await, Resolve, Pick,
       Exit, HandleYielded, vars, blocks, states, waits, tasks
  <2>2. pc # "wake" \/ UNCHANGED vars
    BY <1>11 DEF Compute, AutoYieldNow, Yield, Fail, Call, Return, Cancel, Await, Resolve, Pick,
       Exit, HandleYielded, Executing
  <2>3. Heap'
    BY <2>1, <2>2 DEF Heap, Live, vars, control
  <2>4. Drained'
    BY <1>11 DEF Compute, AutoYieldNow, Yield, Fail, Call, Return, Cancel, Await, Resolve, Pick,
       Exit, HandleYielded, Leave, Continue, EndTurn, Executing, Drained, vars, control, queues
  <2> QED BY <1>2, <1>6, <2>1, <2>3, <2>4
<1> QED BY <1>4, <1>5, <1>7, <1>8, <1>9, <1>10, <1>11 DEF Quiet, Instruction

(* A wait begins in the list of its future, and ends with the list.        *)
LEMMA WaitHInv ==
    ASSUME ~HeapMayFail, IInv, HInv,
           WakeOne \/ WakeDone \/ HandleAwaiting(TRUE)
    PROVE  HInv'
<1> USE DEF IInv, HInv
<1>1. CASE WakeOne
  <2>1. /\ \A u \in Task : waitingOn'[u] = IF u = Head(waiters[completing]) THEN NoFuture
                                           ELSE waitingOn[u]
        /\ \A f \in Future : Range(waiters'[f]) = Range(waiters[f]) \ {Head(waiters[completing])}
    BY <1>1, WakeOneEffect
  <2>2. WaitersListed'
    BY <2>1 DEF WaitersListed, Waiting, TypeOK
  <2>3. NoLostWakeup'
    BY <1>1, <2>1, NullAssumption DEF WakeOne, NoLostWakeup, states, TypeOK
  <2>4. Heap' /\ Drained'
    BY <1>1 DEF WakeOne, Heap, Drained, Live, control, blocks, states, tasks
  <2> QED BY <2>2, <2>3, <2>4
<1>2. CASE WakeDone
  <2>1. UNCHANGED <<waitingOn, waiters, ready>>
    BY <1>2 DEF WakeDone, waits, states
  <2>2. WaitersListed'
    BY <2>1 DEF WaitersListed, Waiting
  <2>3. Range(waiters[completing]) = {}
    BY <1>2 DEF WakeDone, Range
  <2>4. \A t \in Task : waitingOn[t] \notin ready
    BY <2>3, NullAssumption DEF NoLostWakeup, WaitersListed, Waiting, TypeOK
  <2>5. NoLostWakeup'
    BY <2>1, <2>4 DEF NoLostWakeup
  <2>6. Live' \subseteq Live
    BY <1>2 DEF WakeDone, DeleteTask, Live, blocks
  <2>7. Heap' /\ Drained'
    BY <1>2, <2>6 DEF WakeDone, EndTurn, Continue, Heap, Drained, states, waits, tasks
  <2> QED BY <2>2, <2>5, <2>7
<1>3. CASE HandleAwaiting(TRUE)
  <2>1. /\ awaited \in made \ ready /\ awaited \in Future /\ running \in Task
        /\ waiters[awaited] \in Seq(Task)
    BY <1>3, RunningIsLive, NullAssumption DEF HandleAwaiting, ControlAgrees, TypeOK
  <2>2. /\ capacity[awaited] > 0 /\ capacity[awaited] \in Nat
        /\ \A f \in made : capacity[f] > 0
    BY <2>1 DEF Heap, TypeOK
  <2>3. /\ waitingOn' = [waitingOn EXCEPT ![running] = awaited]
        /\ waiters' = [waiters EXCEPT ![awaited] = Append(@, running)]
        /\ capacity' \in {capacity, [capacity EXCEPT ![awaited] = 2 * capacity[awaited]]}
    BY <1>3, <2>2 DEF HandleAwaiting, AddWaiter
  <2>4. running \notin Range(waiters[awaited]) /\ IsInjective(waiters[awaited])
    BY <1>3, <2>1, RunningIsLive, NullAssumption
       DEF HandleAwaiting, Places, ListedWait, Waiting
  <2>5. Range(Append(waiters[awaited], running)) = Range(waiters[awaited]) \cup {running}
    BY <2>1, <2>4, AppendElements
  <2>6. WaitersListed'
    <3>1. \A f \in Future : Range(waiters[f]) \subseteq Range(waiters'[f])
      BY <2>1, <2>3, <2>5 DEF TypeOK
    <3>2. running \in Range(waiters'[awaited])
      BY <2>1, <2>3, <2>5 DEF TypeOK
    <3> QED BY <2>1, <2>3, <3>1, <3>2 DEF WaitersListed, Waiting, TypeOK
  <2>7. NoLostWakeup'
    BY <1>3, <2>1, <2>3 DEF HandleAwaiting, NoLostWakeup, states, TypeOK
  <2>8. \A f \in made : capacity'[f] > 0
    <3>1. CASE capacity' = capacity
      BY <2>2, <3>1
    <3>2. CASE capacity' = [capacity EXCEPT ![awaited] = 2 * capacity[awaited]]
      <4>1. 2 * capacity[awaited] > 0
        BY <2>2
      <4>2. \A f \in made : capacity'[f] = IF f = awaited THEN 2 * capacity[awaited] ELSE capacity[f]
        BY <3>2 DEF TypeOK
      <4> QED BY <2>2, <4>1, <4>2
    <3> QED BY <2>3, <3>1, <3>2
  <2>9. Heap' /\ Drained'
    BY <1>3, <2>8 DEF HandleAwaiting, EndTurn, Heap, Drained, Live, states, tasks, blocks
  <2> QED BY <2>6, <2>7, <2>9
<1> QED BY <1>1, <1>2, <1>3

LEMMA NextHInv ==
    ASSUME ~HeapMayFail
    PROVE  IInv /\ HInv /\ [Next]_vars => HInv'
<1> SUFFICES ASSUME IInv, HInv, [Next]_vars PROVE HInv'
  OBVIOUS
<1>1. CASE Quiet
  BY <1>1, QuietHInv
<1>2. CASE WakeOne \/ WakeDone
  BY <1>2, WaitHInv
<1>3. ASSUME NEW grows \in BOOLEAN, grows \/ HeapMayFail, HandleAwaiting(grows) PROVE HInv'
  <2>1. grows = TRUE
    BY <1>3
  <2> QED BY <1>3, <2>1, WaitHInv
<1> QED BY <1>1, <1>2, <1>3 DEF Quiet, Next, RunLoop, Stopped

LEMMA HeapInvariance == ~HeapMayFail => (Spec => []HInv)
<1> SUFFICES ASSUME ~HeapMayFail PROVE Spec => []HInv
  OBVIOUS
<1>1. IInv /\ HInv /\ [Next]_vars => HInv'
  BY NextHInv
<1> QED BY <1>1, InitHInv, Invariance, PTL DEF Spec

(* AWAIT loses no wake-up and complete() leaves no waiter behind, when no  *)
(* allocation fails.                                                       *)
THEOREM NoWakeupLost == ~HeapMayFail => (Spec => [](WaitersListed /\ NoLostWakeup))
<1> SUFFICES ASSUME ~HeapMayFail PROVE Spec => [](WaitersListed /\ NoLostWakeup)
  OBVIOUS
<1>1. HInv => WaitersListed /\ NoLostWakeup
  BY DEF HInv
<1> QED BY <1>1, HeapInvariance, PTL

(* run() returns only when every task left waits on a future that nobody   *)
(* has completed.                                                          *)
THEOREM ReturnsOnlyWhenStuck == ~HeapMayFail => (Spec => []ExitMeansStuck)
<1> SUFFICES ASSUME ~HeapMayFail PROVE Spec => []ExitMeansStuck
  OBVIOUS
<1>1. ASSUME IInv, HInv PROVE ExitMeansStuck
  <2> SUFFICES ASSUME pc = "exit", NEW t \in Live PROVE waitingOn[t] \in made \ ready
    BY DEF ExitMeansStuck
  <2>1. t \in Task /\ running = NoTask
    BY <1>1 DEF IInv, TypeOK, ControlAgrees, Live
  <2>2. ~Queued(t)
    BY <1>1 DEF HInv, Drained, Queued, Range
  <2>3. Waiting(t)
    BY <1>1, <2>1, <2>2, NullAssumption DEF IInv, Places, ExactlyOnePlace
  <2>4. completing = NoFuture
    BY <1>1 DEF HInv, Heap
  <2> QED BY <1>1, <2>1, <2>3, <2>4, NullAssumption
          DEF IInv, TypeOK, Waiting, HInv, NoLostWakeup
<1> QED BY <1>1, Invariance, HeapInvariance, PTL

(* With no collection under way no ended task is in mAllTasks, so a limit  *)
(* that is reached is reached by live tasks.                               *)
LEMMA RefusalCause ==
    ASSUME IInv, RefusedOnlyWhenFull, [Next]_vars
    PROVE  RefusedOnlyWhenFull'
<1>1. CASE pc \in {"fault", "exit"}
  <2>1. UNCHANGED vars
    BY <1>1 DEF Next, Instruction, RunLoop, Stopped, Executing, Compute, AutoYieldNow, Yield,
                Fail, Call, Return, NewFuture, Resolve, Cancel, Await, Spawn, Boot, Pick, Exit,
                Safepoint, HandleErrored, HandleReturned, HandleYielded, HandleAwaiting,
                WakeOne, WakeDone
  <2> QED BY <2>1 DEF RefusedOnlyWhenFull, Live, vars, control, blocks
<1>2. CASE pc \notin {"fault", "exit"}
  <2>1. allocated = allTasks
    BY <1>2 DEF RefusedOnlyWhenFull
  <2>2. ASSUME NEW t \in Task, NEW f \in MaybeFuture, Spawn(t, f) \/ Boot(t, f)
        PROVE  RefusedOnlyWhenFull'
    <3>1. PICK p : Schedule(t, f, p)
      BY <2>2 DEF Spawn, Boot
    <3>2. CASE ~Full
      BY <2>1, <3>1, <3>2 DEF Schedule, RefusedOnlyWhenFull
    <3>3. CASE Full
      <4>1. pc' \in {"fault", "exit"}
        BY <2>2, <3>3 DEF Spawn, Boot
      <4>2. Live' = Live /\ gcRunning' = gcRunning
        BY <3>1, <3>3 DEF Schedule, Live
      <4>3. ~gcRunning => Live = allTasks
        BY DEF IInv, ExpiredOnlyDuringGC, Live
      <4>4. gcRunning \/ Cardinality(Live) + 1 > MaxTasks
        BY <3>3, <4>3 DEF Full
      <4>5. Cardinality(Live') + 1 > MaxTasks \/ gcRunning'
        BY <4>2, <4>4
      <4> QED BY <4>1, <4>5 DEF RefusedOnlyWhenFull
    <3> QED BY <3>2, <3>3
  <2>3. CASE HandleErrored \/ WakeDone
    <3>1. DeleteTask(running) \/ UNCHANGED blocks
      BY <2>3 DEF HandleErrored, WakeDone
    <3> QED BY <2>1, <3>1 DEF DeleteTask, blocks, RefusedOnlyWhenFull
  <2>4. ASSUME NEW collecting \in BOOLEAN, Safepoint(collecting)
        PROVE  RefusedOnlyWhenFull'
    BY <2>1, <2>4 DEF Safepoint, blocks, RefusedOnlyWhenFull
  <2>5. CASE UNCHANGED blocks
    BY <2>1, <2>5 DEF blocks, RefusedOnlyWhenFull
  <2> QED BY <2>2, <2>3, <2>4, <2>5, BlocksUnchanged DEF Next, Instruction, RunLoop, Stopped
<1> QED BY <1>1, <1>2

(* schedule() refuses a task, and leaks its block, only when one more live *)
(* task would be too many or a collection keeps the ended ones.            *)
THEOREM RefusalsHaveCause == Spec => []RefusedOnlyWhenFull
<1>1. Init => RefusedOnlyWhenFull
  BY DEF Init, RefusedOnlyWhenFull
<1>2. IInv /\ RefusedOnlyWhenFull /\ [Next]_vars => RefusedOnlyWhenFull'
  BY RefusalCause
<1> QED BY <1>1, <1>2, Invariance, PTL DEF Spec

-----------------------------------------------------------------------------
(* The scheduler implements TaskLife, step by step.                        *)

(* A step of the abstract task life moves one task.                        *)
LEMMA OneMoves ==
    ASSUME NEW t \in Task, NEW from, NEW to,
           TaskState[t] = from, TaskState'[t] = to,
           \A u \in Task \ {t} : TaskState'[u] = TaskState[u]
    PROVE  Life!Become(t, from, to)
BY DEF Life!Become, TaskState

LEMMA NoneMoves ==
    ASSUME UNCHANGED <<running, readyQueues, waitingOn>>
    PROVE  TaskState' = TaskState
BY DEF TaskState, Queued, Waiting

(* The steps that move no task: complete() opens a gate, nothing else does.*)
LEMMA StaySteps ==
    ASSUME IInv,
           \/ Compute \/ AutoYieldNow \/ Yield \/ Fail \/ Call \/ Return
           \/ \E f \in MaybeFuture : NewFuture(f)
           \/ \E f \in made : Resolve(f) \/ Cancel(f) \/ Await(f)
           \/ Exit \/ HandleReturned
           \/ \E collecting \in BOOLEAN : Safepoint(collecting)
           \/ UNCHANGED vars
    PROVE  Life!Next \/ UNCHANGED Life!lifeVars
<1>1. TaskState' = TaskState /\ waitingOn' = waitingOn
  <2>1. UNCHANGED <<running, readyQueues, waitingOn>>
    BY DEF Compute, AutoYieldNow, Yield, Fail, Call, Return, NewFuture, Resolve, Cancel, Await,
           Exit, HandleReturned, BeginComplete, Safepoint, vars, control, queues, waits, Leave,
           Continue
  <2> QED BY <2>1, NoneMoves
<1>2. CASE ready' = ready
  BY <1>1, <1>2 DEF Life!lifeVars
<1>3. CASE ready' # ready
  <2>1. PICK f \in Future : ready' = ready \cup {f} /\ pc \in {"exec", "message"}
    <3>1. ASSUME NEW f \in made, Resolve(f) PROVE ready' = ready \cup {f} /\ pc = "exec"
      BY <1>3, <3>1 DEF Resolve, BeginComplete, Executing, states
    <3>2. ASSUME HandleReturned
          PROVE  /\ completionFuture[running] \in Future /\ pc = "message"
                 /\ ready' = ready \cup {completionFuture[running]}
      <4>1. completionFuture[running] \in made \cup {NoFuture}
        BY <3>2, RunningIsLive DEF HandleReturned, IInv, TypeOK
      <4> QED BY <1>3, <3>2, <4>1 DEF HandleReturned, BeginComplete, IInv, TypeOK
    <3>3. (\E f \in made : Resolve(f)) \/ HandleReturned
      BY <1>3 DEF Compute, AutoYieldNow, Yield, Fail, Call, Return, NewFuture, Cancel, Await,
                  Exit, Safepoint, vars, states
    <3> QED BY <3>1, <3>2, <3>3 DEF IInv, TypeOK
  <2>2. running \in Task /\ TaskState[running] = "running"
    BY <2>1, RunningIsLive DEF TaskState
  <2>3. Life!Open(f)
    BY <1>1, <2>1, <2>2 DEF Life!Open, Life!Idle
  <2> QED BY <2>3 DEF Life!Next
<1> QED BY <1>2, <1>3

(* schedule() creates a ready task, or none.                               *)
LEMMA CreateSteps ==
    ASSUME IInv, NEW t \in Task, NEW f \in MaybeFuture, Spawn(t, f) \/ Boot(t, f)
    PROVE  Life!Next \/ UNCHANGED Life!lifeVars
<1>1. PICK p \in Nat : Schedule(t, f, p)
  BY RunningIsLive, ParameterAssumption DEF Spawn, Executing, Boot, IInv, TypeOK
<1>2. UNCHANGED <<running, waitingOn, ready>>
  BY <1>1 DEF Spawn, Continue, Boot, Schedule
<1>3. CASE Full
  <2>1. UNCHANGED readyQueues
    BY <1>1, <1>3 DEF Schedule
  <2> QED BY <1>2, <2>1, NoneMoves DEF Life!lifeVars
<1>4. CASE ~Full
  <2>1. t \notin Live /\ Enqueue(t, p)
    BY <1>1, <1>4 DEF Schedule, IInv, TypeOK, Live
  <2>2. t # running /\ ~Queued(t) /\ ~Waiting(t)
    BY <2>1 DEF IInv, Places, ExactlyOnePlace
  <2>3. \A u : Queued(u)' <=> Queued(u) \/ u = t
    BY <2>1, <2>2, EnqueueEffect DEF IInv, TypeOK, QueuesOK, Places
  <2>4. /\ TaskState[t] = "none" /\ TaskState'[t] = "ready"
        /\ \A u \in Task \ {t} : TaskState'[u] = TaskState[u]
    BY <1>2, <2>2, <2>3 DEF TaskState, Waiting
  <2>5. Life!Create(t)
    BY <1>2, <2>4, OneMoves DEF Life!Create
  <2> QED BY <2>5 DEF Life!Next
<1> QED BY <1>3, <1>4

(* run() takes a ready task when none runs.                                *)
LEMMA RunStep ==
    ASSUME IInv, Pick PROVE Life!Next
<1>1. PICK l \in Level : /\ NextLevel(l)
                         /\ running' = Head(readyQueues[l])
                         /\ readyQueues' = [readyQueues EXCEPT ![l] = Tail(@)]
  BY DEF Pick
<1>2. QueuesOK /\ QueuedOnce /\ readyQueues[l] # <<>>
  BY <1>1 DEF IInv, TypeOK, QueuesOK, Places, NextLevel, Lowest, SlotHit
<1>3. PICK t \in Task : t = running'
  BY <1>1, <1>2, PopEffect
<1>4. Queued(t) /\ \A u : Queued(u)' <=> Queued(u) /\ u # t
  BY <1>1, <1>2, <1>3, PopEffect
<1>5. UNCHANGED <<waitingOn, ready>> /\ running = NoTask
  BY DEF Pick, IInv, ControlAgrees, states, waits
<1>6. /\ TaskState[t] = "ready" /\ TaskState'[t] = "running"
      /\ \A u \in Task \ {t} : TaskState'[u] = TaskState[u]
  BY <1>3, <1>4, <1>5, NullAssumption DEF TaskState, Waiting
<1>7. Life!Idle
  BY <1>5, NullAssumption DEF Life!Idle, TaskState
<1>8. Life!Run(t)
  BY <1>5, <1>6, <1>7, OneMoves DEF Life!Run
<1> QED BY <1>8 DEF Life!Next

(* The running task gives way, ends or blocks.                             *)
LEMMA TurnEnds ==
    ASSUME IInv, NEW grows \in BOOLEAN,
           \/ HandleErrored \/ HandleYielded \/ HandleAwaiting(grows)
           \/ WakeDone /\ message = "Returned"
    PROVE  Life!Next
<1>1. PICK t \in Task : t = running
  BY RunningIsLive DEF HandleErrored, HandleYielded, HandleAwaiting, WakeDone
<1>2. ~Queued(t) /\ ~Waiting(t) /\ TaskState[t] = "running" /\ \A u \in Task \ {t} : u # running
  BY <1>1, RunningIsLive DEF HandleErrored, HandleYielded, HandleAwaiting, WakeDone, TaskState
<1>3. running' = NoTask /\ ready' = ready
  BY DEF HandleErrored, HandleYielded, HandleAwaiting, WakeDone, EndTurn, states
<1>4. CASE HandleErrored \/ (WakeDone /\ message = "Returned")
  <2>1. UNCHANGED <<readyQueues, waitingOn>>
    BY <1>4 DEF HandleErrored, WakeDone, queues, waits
  <2>2. TaskState'[t] = "none" /\ \A u \in Task \ {t} : TaskState'[u] = TaskState[u]
    BY <1>2, <1>3, <2>1, NullAssumption DEF TaskState, Queued, Waiting
  <2>3. Life!Finish(t)
    BY <1>2, <1>3, <2>1, <2>2, OneMoves DEF Life!Finish
  <2> QED BY <2>3 DEF Life!Next
<1>5. CASE HandleYielded
  <2>1. waitingOn' = waitingOn /\ \A u : Queued(u)' <=> Queued(u) \/ u = t
    BY <1>1, <1>2, <1>5, EnqueueEffect
       DEF HandleYielded, IInv, TypeOK, Places, QueuesOK, waits
  <2>2. TaskState'[t] = "ready" /\ \A u \in Task \ {t} : TaskState'[u] = TaskState[u]
    BY <1>2, <1>3, <2>1, NullAssumption DEF TaskState, Waiting
  <2>3. Life!GiveWay(t)
    BY <1>2, <1>3, <2>1, <2>2, OneMoves DEF Life!GiveWay
  <2> QED BY <2>3 DEF Life!Next
<1>6. CASE HandleAwaiting(grows)
  <2>1. awaited \in Future /\ awaited \notin ready /\ awaited # NoFuture
    BY <1>6, NullAssumption DEF HandleAwaiting, IInv, ControlAgrees, TypeOK
  <2>2. waitingOn' = [waitingOn EXCEPT ![t] = awaited] /\ readyQueues' = readyQueues
    BY <1>1, <1>6 DEF HandleAwaiting, AddWaiter, queues
  <2>3. \A u \in Task : waitingOn'[u] = IF u = t THEN awaited ELSE waitingOn[u]
    BY <2>2 DEF IInv, TypeOK
  <2>4. TaskState'[t] = "waiting" /\ \A u \in Task \ {t} : TaskState'[u] = TaskState[u]
    BY <1>2, <1>3, <2>1, <2>2, <2>3, NullAssumption DEF TaskState, Queued, Waiting
  <2>5. Life!Block(t, awaited)
    BY <1>2, <1>3, <2>1, <2>2, <2>4, OneMoves DEF Life!Block
  <2> QED BY <2>1, <2>5 DEF Life!Next
<1> QED BY <1>4, <1>5, <1>6

(* complete() wakes a waiter of the future it has made ready.              *)
LEMMA WakeStep ==
    ASSUME IInv, WakeOne PROVE Life!Next
<1>1. PICK t \in Task : t = Head(waiters[completing])
  BY WakeOneEffect
<1>2. /\ waitingOn[t] = completing /\ Waiting(t)
      /\ \A u : Queued(u)' <=> Queued(u) \/ u = t
      /\ \A u \in Task : waitingOn'[u] = IF u = t THEN NoFuture ELSE waitingOn[u]
  BY <1>1, WakeOneEffect
<1>3. /\ waitingOn' = [waitingOn EXCEPT ![t] = NoFuture]
      /\ running' = running /\ ready' = ready /\ completing \in ready
  BY <1>1 DEF WakeOne, control, states, IInv, ControlAgrees
<1>4. t # running /\ ~Queued(t)
  BY <1>2 DEF IInv, Places, ExactlyOnePlace
<1>5. /\ TaskState[t] = "waiting" /\ TaskState'[t] = "ready"
      /\ \A u \in Task \ {t} : TaskState'[u] = TaskState[u]
  BY <1>2, <1>3, <1>4 DEF TaskState, Waiting
<1>6. Life!Wake(t)
  BY <1>2, <1>3, <1>5, OneMoves DEF Life!Wake
<1> QED BY <1>6 DEF Life!Next

(* Every behaviour of the scheduler is one of the abstract task life: one  *)
(* task runs at a time, a task blocks only on a future that is not ready   *)
(* and is woken only from one that is.                                     *)
THEOREM SchedulerIsTaskLife == Spec => Life!Safety
<1>1. Init => Life!Init
  BY NullAssumption DEF Init, Life!Init, TaskState, Queued, Waiting, Range
<1>2. ASSUME IInv, [Next]_vars PROVE [Life!Next]_(Life!lifeVars)
  <2>1. CASE WakeDone /\ message # "Returned"
    BY <2>1, NoneMoves DEF WakeDone, Continue, queues, states, waits, Life!lifeVars
  <2>2. \E grows \in BOOLEAN : grows
    BY TRUE \in BOOLEAN
  <2> QED BY <1>2, <2>1, <2>2, StaySteps, CreateSteps, RunStep, TurnEnds, WakeStep
          DEF Next, Instruction, RunLoop, Stopped
<1> QED BY <1>1, <1>2, Invariance, PTL DEF Spec, Life!Safety

-----------------------------------------------------------------------------
(* A waiter is forgotten only with the array of its future.                *)

(* allocateFuture() gives no future in use a new array.                    *)
LEMMA OldArraysKept ==
    ASSUME TypeOK, NEW f, AllocateFuture(f)
    PROVE  \A g \in made : capacity'[g] = capacity[g]
BY DEF AllocateFuture, TypeOK

LEMMA ForgottenStep ==
    ASSUME IInv, LostWithArray, [Next]_vars
    PROVE  LostWithArray'
<1>1. \A t \in Task : Waiting(t) => waitingOn[t] \in made
  BY DEF IInv, TypeOK, Waiting
<1>2. ASSUME UNCHANGED <<waitingOn, waiters>>, \A g \in made : capacity'[g] = capacity[g]
      PROVE  LostWithArray'
  BY <1>1, <1>2 DEF LostWithArray, Waiting
<1>3. ASSUME NEW t \in Task, NEW f \in MaybeFuture, Spawn(t, f) \/ Boot(t, f)
      PROVE  LostWithArray'
  <2>1. AllocateFuture(f) /\ UNCHANGED <<waitingOn, waiters>>
    BY <1>3 DEF Spawn, Boot, Schedule
  <2> QED BY <1>2, <2>1, OldArraysKept DEF IInv
<1>4. CASE UNCHANGED waits
  BY <1>2, <1>4 DEF waits
<1>5. ASSUME NEW grows \in BOOLEAN, HandleAwaiting(grows)
      PROVE  LostWithArray'
  <2>1. running \in Task /\ awaited \in made /\ awaited \in Future
    BY <1>5, RunningIsLive DEF HandleAwaiting, IInv, ControlAgrees, TypeOK
  <2>2. waitingOn' = [waitingOn EXCEPT ![running] = awaited]
    BY <1>5 DEF HandleAwaiting, AddWaiter
  <2>3. \A t \in Task : waitingOn'[t] = IF t = running THEN awaited ELSE waitingOn[t]
    BY <2>2 DEF IInv, TypeOK
  <2>4. CASE capacity' = [capacity EXCEPT ![awaited] = 0] /\ UNCHANGED waiters
    <3>1. \A g \in Future : capacity'[g] = IF g = awaited THEN 0 ELSE capacity[g]
      BY <2>1, <2>4 DEF IInv, TypeOK
    <3>2. made \subseteq Future
      BY DEF IInv, TypeOK
    <3> SUFFICES ASSUME NEW t \in Task, Waiting(t)'
                 PROVE  \/ t \in Range(waiters'[waitingOn'[t]])
                        \/ capacity'[waitingOn'[t]] = 0
      BY DEF LostWithArray
    <3>3. CASE t = running
      BY <2>1, <2>3, <3>1, <3>3
    <3>4. CASE t # running
      <4>1. waitingOn'[t] = waitingOn[t] /\ Waiting(t) /\ waitingOn[t] \in Future
        BY <1>1, <2>3, <3>2, <3>4 DEF Waiting
      <4>2. \/ t \in Range(waiters[waitingOn[t]])
            \/ capacity[waitingOn[t]] = 0
        BY <4>1 DEF LostWithArray
      <4> QED BY <2>4, <3>1, <4>1, <4>2
    <3> QED BY <3>3, <3>4
  <2>5. ASSUME waiters' = [waiters EXCEPT ![awaited] = Append(@, running)],
               \A g \in made : g # awaited => capacity'[g] = capacity[g],
               capacity[awaited] > 0
        PROVE  LostWithArray'
    <3> DEFINE new == Append(waiters[awaited], running)
    <3>1. /\ waiters[awaited] \in Seq(Task) /\ IsInjective(waiters[awaited])
          /\ running \notin Range(waiters[awaited])
      BY <1>5, <2>1, RunningIsLive, NullAssumption
         DEF HandleAwaiting, IInv, TypeOK, Places, ListedWait, Waiting
    <3>2. Range(new) = Range(waiters[awaited]) \cup {running}
      BY <2>1, <3>1, AppendElements
    <3>3. waiters' = [waiters EXCEPT ![awaited] = new]
      BY <2>5
    <3> HIDE DEF new
    <3>4. \A g \in Future : waiters'[g] = IF g = awaited THEN new ELSE waiters[g]
      BY <3>3 DEF IInv, TypeOK
    <3>5. made \subseteq Future
      BY DEF IInv, TypeOK
    <3> SUFFICES ASSUME NEW t \in Task, Waiting(t)'
                 PROVE  \/ t \in Range(waiters'[waitingOn'[t]])
                        \/ capacity'[waitingOn'[t]] = 0
      BY DEF LostWithArray
    <3>6. CASE t = running
      BY <2>1, <2>3, <3>2, <3>4, <3>6
    <3>7. CASE t # running
      <4>1. waitingOn'[t] = waitingOn[t] /\ Waiting(t) /\ waitingOn[t] \in made
        BY <1>1, <2>3, <3>7 DEF Waiting
      <4>2. \/ t \in Range(waiters[waitingOn[t]])
            \/ capacity[waitingOn[t]] = 0
        BY <4>1 DEF LostWithArray
      <4>3. CASE waitingOn[t] = awaited
        <5>1. capacity[awaited] # 0
          BY <2>5
        <5> QED BY <2>1, <3>2, <3>4, <4>1, <4>2, <4>3, <5>1
      <4>4. CASE waitingOn[t] # awaited
        BY <2>5, <3>4, <3>5, <4>1, <4>2, <4>4
      <4> QED BY <4>3, <4>4
    <3> QED BY <3>6, <3>7
  <2>6. capacity[awaited] \in Nat
    BY <2>1 DEF IInv, TypeOK
  <2>7. CASE Len(waiters[awaited]) < capacity[awaited]
    <3>1. waiters' = [waiters EXCEPT ![awaited] = Append(@, running)] /\ UNCHANGED capacity
      BY <1>5, <2>7 DEF HandleAwaiting, AddWaiter
    <3>2. Len(waiters[awaited]) \in Nat
      BY <2>1 DEF IInv, TypeOK
    <3> QED BY <2>5, <2>6, <2>7, <3>1, <3>2
  <2>8. CASE ~(Len(waiters[awaited]) < capacity[awaited])
    <3>1. CASE capacity[awaited] > 0 /\ grows
      <4>1. /\ waiters' = [waiters EXCEPT ![awaited] = Append(@, running)]
            /\ capacity' = [capacity EXCEPT ![awaited] = 2 * @]
        BY <1>5, <2>8, <3>1 DEF HandleAwaiting, AddWaiter
      <4>2. \A g \in made : g # awaited => capacity'[g] = capacity[g]
        BY <4>1 DEF IInv, TypeOK
      <4> QED BY <2>5, <3>1, <4>1, <4>2
    <3>2. CASE ~(capacity[awaited] > 0 /\ grows)
      BY <1>5, <2>4, <2>8, <3>2 DEF HandleAwaiting, AddWaiter
    <3> QED BY <3>1, <3>2
  <2> QED BY <2>7, <2>8
<1>6. CASE WakeOne
  <2>1. UNCHANGED capacity
    BY <1>6 DEF WakeOne
  <2>2. made \subseteq Future
    BY DEF IInv, TypeOK
  <2> DEFINE t == Head(waiters[completing])
  <2>3. /\ \A u \in Task : waitingOn'[u] = IF u = t THEN NoFuture ELSE waitingOn[u]
        /\ \A f \in Future : Range(waiters'[f]) = Range(waiters[f]) \ {t}
    BY <1>6, WakeOneEffect
  <2> HIDE DEF t
  <2> SUFFICES ASSUME NEW u \in Task, Waiting(u)'
               PROVE  \/ u \in Range(waiters'[waitingOn'[u]])
                      \/ capacity'[waitingOn'[u]] = 0
    BY DEF LostWithArray
  <2>4. u # t /\ waitingOn'[u] = waitingOn[u]
    BY <2>3 DEF Waiting
  <2>5. Waiting(u) /\ waitingOn[u] \in Future
    BY <1>1, <2>2, <2>4 DEF Waiting
  <2>6. \/ u \in Range(waiters[waitingOn[u]])
        \/ capacity[waitingOn[u]] = 0
    BY <2>5 DEF LostWithArray
  <2> QED BY <2>1, <2>3, <2>4, <2>5, <2>6
<1>7. \/ UNCHANGED waits \/ WakeOne
      \/ \E grows \in BOOLEAN : HandleAwaiting(grows)
      \/ \E t \in Task, f \in MaybeFuture : Spawn(t, f) \/ Boot(t, f)
      \/ \E f \in MaybeFuture : NewFuture(f)
  BY DEF Next, Instruction, RunLoop, Stopped, vars, Compute, AutoYieldNow, Yield, Fail, Call,
         Return, Resolve, Cancel, Await, Pick, Exit, Safepoint, HandleErrored, HandleReturned,
         HandleYielded, WakeDone
<1>8. ASSUME NEW f \in MaybeFuture, NewFuture(f) PROVE LostWithArray'
  <2>1. AllocateFuture(f) /\ UNCHANGED <<waitingOn, waiters>>
    BY <1>8 DEF NewFuture
  <2> QED BY <1>2, <2>1, OldArraysKept DEF IInv
<1> QED BY <1>3, <1>4, <1>5, <1>6, <1>7, <1>8

(* Future::waiters and Task::waitingOn agree, whatever fails: no stale     *)
(* waiter is listed, and one is forgotten only with the array.             *)
THEOREM WaitersKeepAgreeing == Spec => []WaitersAgree
<1>1. IInv => ListedWait
  BY DEF IInv, Places
<1>2. Init => LostWithArray
  BY DEF Init, LostWithArray, Waiting
<1>3. IInv /\ LostWithArray /\ [Next]_vars => LostWithArray'
  BY ForgottenStep
<1>4. ListedWait /\ LostWithArray => WaitersAgree
  BY DEF WaitersAgree
<1> QED BY <1>1, <1>2, <1>3, <1>4, Invariance, PTL DEF Spec
=============================================================================
