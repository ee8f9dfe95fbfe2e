------------------------ MODULE CodePublicationProofs ------------------------
(***************************************************************************)
(* Proofs about the publication of compiled code for any functions,        *)
(* frames, compiler threads, thresholds and modes.                         *)
(***************************************************************************)
EXTENDS CodePublication, DataLemmas, TLAPS

-----------------------------------------------------------------------------
(* The inductive invariant, in parts.                                      *)

FrameRecord == [fn : Fn, entry : Entries, resume : {"unset", "ip", "checkpoint"}]

Occupied(s) == frames[s].fn # NoFn

FramesTyped == frames \in [Frame -> {[fn |-> NoFn]} \cup FrameRecord]

(* Where the VM's thread is, and which unit it or a compiler is filling.   *)
ControlAgrees ==
    /\ pc \in {"frame", "hot", "enqueue", "enter", "trap", "jump"} =>
           current \in Frame /\ Occupied(current)
    /\ pc \in {"idle", "notify", "join", "done"} => current = NoFrame
    /\ pc = "fault" /\ current # NoFrame => Occupied(current)
    /\ pc \in {"notify", "join", "done"} => stop
    /\ pc = "trap" => trapUnit \in 1 .. Len(units[fn])
    /\ \A w \in Worker :
           /\ worker[w] \in {"publish", "compile", "entry"} => job[w].fn \in Fn
           /\ worker[w] \in {"compile", "entry"} => job[w].unit \in 1 .. Len(units[job[w].fn])
           /\ worker[w] = "entry" => Accepted(job[w].fn)

(* A frame's union is undecided only while its constructor runs; the       *)
(* Trampoline means that code was accepted, in the function and in frames. *)
EntriesAgree ==
    /\ \A f \in Fn : entry[f] = "Trampoline" => Accepted(f) /\ units[f] # <<>>
    /\ \A s \in Frame : Occupied(s) =>
           /\ frames[s].resume = "unset" => pc = "frame" /\ s = current
           /\ frames[s].entry = "Trampoline" =>
                  entry[frames[s].fn] = "Trampoline" /\ frames[s].resume # "ip"
    /\ pc = "jump" => IF Accepted(fn)
                      THEN entry[fn] = "Trampoline" /\ frames[current].resume = "checkpoint"
                      ELSE entry[fn] = "Interpreter"

(* Without the JIT compiler nothing is queued and no thread runs; without  *)
(* the ahead-of-time mode nobody meets the trap.                           *)
ModesAgree ==
    /\ "jit" \notin mode => /\ queue = <<>> /\ pc # "enqueue"
                            /\ \A w \in Worker : worker[w] = "gone"
    /\ "aot" \notin mode => /\ pc \notin {"trap", "jump"}
                            /\ \A f \in Fn : entry[f] # "AOTCompileTrap"
                            /\ \A s \in Frame : Occupied(s) => frames[s].entry # "AOTCompileTrap"
    /\ mode = {} => \A f \in Fn : entry[f] # "Trampoline"

Settled(f) == ~(pc = "trap" /\ fn = f)

(* In ahead-of-time mode only the trap makes units, and it finishes the    *)
(* one it made before the thread goes on.                                  *)
TrapAgrees ==
    mode = {"aot"} =>
        /\ pc = "trap" => trapUnit = Len(units[fn]) /\ frames[current].entry = "AOTCompileTrap"
        /\ \A f \in Fn :
               /\ units[f] # <<>> /\ Settled(f) =>
                      Last(units[f]) = IF Accepted(f) THEN "Compiled" ELSE "Failed"
               /\ entry[f] = "Interpreter" => ~Accepted(f) /\ units[f] # <<>>
               /\ entry[f] \in {"Trampoline", "AOTCompileTrap"} => kind[f] # "native"
        /\ \A s \in Frame : Occupied(s) =>
               /\ frames[s].entry = "Interpreter" => entry[frames[s].fn] = "Interpreter"
               /\ frames[s].entry = "AOTCompileTrap" => kind[frames[s].fn] # "native"

(* No invocation count has come round to the threshold a second time.      *)
CountsFresh == \A f \in Fn : calls[f] < CountRange

Publishing(w, f) == worker[w] = "publish" /\ job[w].fn = f

(* A function is being counted hot, or queued, or taken, or has its unit,  *)
(* one of them at a time.                                                  *)
RequestedOnce ==
    "aot" \notin mode /\ CountsFresh =>
        /\ IsInjective(queue)
        /\ \A w, v \in Worker : \A f \in Fn : Publishing(w, f) /\ Publishing(v, f) => w = v
        /\ \A f \in Fn :
               /\ pc \in {"hot", "enqueue"} /\ fn = f =>
                      /\ calls[f] = HotThreshold /\ f \notin Range(queue) /\ units[f] = <<>>
                      /\ \A w \in Worker : ~Publishing(w, f)
               /\ f \in Range(queue) =>
                      /\ calls[f] >= HotThreshold /\ units[f] = <<>>
                      /\ \A w \in Worker : ~Publishing(w, f)
               /\ \A w \in Worker : Publishing(w, f) => calls[f] >= HotThreshold /\ units[f] = <<>>
               /\ units[f] # <<>> => calls[f] >= HotThreshold
               /\ Len(units[f]) <= 1
               /\ entry[f] = "Trampoline" => Last(units[f]) = "Compiled"
        /\ \A w \in Worker : worker[w] = "entry" => units[job[w].fn][job[w].unit] = "Compiled"

IInv == /\ TypeOK /\ FramesTyped /\ ControlAgrees /\ EntriesAgree /\ ModesAgree
        /\ PointerFramesRun /\ NoMissedNotify
        /\ TrapAgrees /\ (mode = {"aot"} => TrapFramesRun) /\ RequestedOnce

-----------------------------------------------------------------------------
(* Lemmas about the helpers of the model.                                  *)

States == {"Compiling", "Compiled", "Failed"}

WorkerStates == {"loop", "waiting", "publish", "compile", "entry", "gone"}

LEMMA FrameFacts ==
    ASSUME FramesTyped, NEW s \in Frame, Occupied(s)
    PROVE  frames[s] \in FrameRecord /\ frames[s].fn \in Fn
BY DEF FramesTyped, Occupied, FrameRecord

LEMMA CurrentFacts ==
    ASSUME IInv, pc \in {"frame", "hot", "enqueue", "enter", "trap", "jump"}
    PROVE  /\ current \in Frame /\ Occupied(current)
           /\ frames[current] \in FrameRecord /\ fn \in Fn
BY FrameFacts DEF IInv, ControlAgrees, fn

(* A new unit is the last one, and takes no other away.                    *)
LEMMA PublishUnitEffect ==
    ASSUME TypeOK, NEW f \in Fn, PublishUnit(f)
    PROVE  /\ units' \in [Fn -> Seq(States)]
           /\ Len(units'[f]) = Len(units[f]) + 1
           /\ Last(units'[f]) = "Compiling"
           /\ \A i \in 1 .. Len(units[f]) : units'[f][i] = units[f][i]
           /\ \A g \in Fn : g # f => units'[g] = units[g]
           /\ \A g \in Fn : Len(units[g]) \in Nat /\ Len(units[g]) <= Len(units'[g])
           /\ \A g \in Fn : units[g] # <<>> => units'[g] # <<>>
           /\ units'[f] # <<>>
<1> DEFINE new == Append(units[f], "Compiling")
<1>1. /\ units \in [Fn -> Seq(States)]
      /\ units' = [units EXCEPT ![f] = new]
  BY DEF TypeOK, States, PublishUnit
<1>2. /\ units[f] \in Seq(States)
      /\ \A g \in Fn : Len(units[g]) \in Nat
  BY <1>1
<1>3. /\ new \in Seq(States) /\ Len(new) = Len(units[f]) + 1
      /\ new[Len(new)] = "Compiling"
      /\ \A i \in 1 .. Len(units[f]) : new[i] = units[f][i]
      /\ new # <<>>
  BY <1>2 DEF States
<1> HIDE DEF new
<1> QED BY <1>1, <1>2, <1>3 DEF Last

(* A finished unit changes its state and nothing else.                     *)
LEMMA FinishUnitEffect ==
    ASSUME TypeOK, NEW f \in Fn, NEW u \in 1 .. Len(units[f]), FinishUnit(f, u)
    PROVE  /\ units' \in [Fn -> Seq(States)]
           /\ units'[f][u] = IF Accepted(f) THEN "Compiled" ELSE "Failed"
           /\ \A i \in 1 .. Len(units[f]) : i # u => units'[f][i] = units[f][i]
           /\ \A g \in Fn : g # f => units'[g] = units[g]
           /\ \A g \in Fn : Len(units'[g]) = Len(units[g])
           /\ \A g \in Fn : units'[g] = <<>> <=> units[g] = <<>>
<1> DEFINE state == IF Accepted(f) THEN "Compiled" ELSE "Failed"
           new   == [units[f] EXCEPT ![u] = state]
<1>1. /\ units \in [Fn -> Seq(States)]
      /\ units' = [units EXCEPT ![f] = new]
  BY DEF TypeOK, States, FinishUnit
<1>2. units[f] \in Seq(States) /\ state \in States
  BY <1>1 DEF States
<1>3. /\ new \in Seq(States) /\ Len(new) = Len(units[f])
      /\ new[u] = state
      /\ \A i \in 1 .. Len(units[f]) : i # u => new[i] = units[f][i]
      /\ units[f] # <<>> /\ new # <<>>
  <2> HIDE DEF state
  <2> QED BY <1>2
<1> HIDE DEF new
<1> QED BY <1>1, <1>2, <1>3

(* A function called less than 2^16 times is hot once: at the threshold.   *)
LEMMA HotOnce ==
    ASSUME NEW c \in Nat, c < CountRange PROVE c % CountRange = c
BY BoundAssumption

-----------------------------------------------------------------------------
(* The VM's thread, action by action.                                      *)

LEMMA Initially == Init => IInv
<1> SUFFICES ASSUME Init PROVE IInv
  OBVIOUS
<1>1. TypeOK
  <2>1. /\ entry \in [Fn -> Entries] /\ calls \in [Fn -> 0 .. MaxCalls]
        /\ units \in [Fn -> Seq({"Compiling", "Compiled", "Failed"})]
    BY BoundAssumption DEF Init, Entries, FirstEntry
  <2>2. \A s \in Frame : frames[s].fn \notin Fn
    BY FnAssumption DEF Init
  <2>3. /\ worker \in [Worker -> {"loop", "waiting", "publish", "compile", "entry", "gone"}]
        /\ job \in [Worker -> [fn : Fn \cup {NoFn}, unit : Nat]]
        /\ queue \in Seq(Fn)
    BY DEF Init
  <2> QED BY <2>1, <2>2, <2>3 DEF Init, TypeOK
<1>2. FramesTyped /\ \A s \in Frame : ~Occupied(s)
  BY DEF Init, FramesTyped, Occupied
<1>3. ControlAgrees
  BY DEF Init, ControlAgrees
<1>4. EntriesAgree
  BY <1>2 DEF Init, EntriesAgree, FirstEntry
<1>5. ModesAgree
  BY <1>2 DEF Init, ModesAgree, FirstEntry
<1>6. TrapAgrees
  BY <1>2 DEF Init, TrapAgrees, FirstEntry, Settled
<1>7. RequestedOnce
  BY DEF Init, RequestedOnce, FirstEntry, Range, IsInjective, Publishing
<1> QED
  BY <1>1, <1>2, <1>3, <1>4, <1>5, <1>6, <1>7
     DEF IInv, Init, PointerFramesRun, NoMissedNotify, TrapFramesRun

(* A new frame: its union is undecided until FrameLooksForUnit.            *)
LEMMA PushFramePreserves ==
    ASSUME IInv, UNCHANGED <<mode, kind>>, NEW s \in Frame, NEW f \in Fn, PushFrame(s, f)
    PROVE  IInv'
<1> DEFINE new == [fn |-> f, entry |-> entry[f], resume |-> "unset"]
<1>1. /\ pc = "idle" /\ pc' = "frame" /\ current' = s
      /\ frames' = [frames EXCEPT ![s] = new]
      /\ UNCHANGED <<mode, kind, machine, trapUnit, jit>>
  BY DEF PushFrame
<1>2. /\ new \in FrameRecord /\ f # NoFn
  BY FnAssumption DEF IInv, TypeOK, FrameRecord
<1>3. /\ FramesTyped'
      /\ \A t \in Frame : frames'[t] = IF t = s THEN new ELSE frames[t]
  BY <1>1, <1>2 DEF IInv, FramesTyped
<1> HIDE DEF new
<1>4. new.fn = f /\ new.entry = entry[f] /\ new.resume = "unset"
  BY DEF new
<1>5. TypeOK'
  BY <1>1, <1>2, <1>3 DEF IInv, TypeOK, machine, jit, FrameRecord
<1>6. ControlAgrees'
  BY <1>1, <1>2, <1>3, <1>4 DEF IInv, ControlAgrees, machine, jit, Occupied, Accepted
<1>7. EntriesAgree'
  BY <1>1, <1>2, <1>3, <1>4 DEF IInv, EntriesAgree, machine, jit, Occupied, Accepted
<1>8. ModesAgree'
  BY <1>1, <1>2, <1>3, <1>4 DEF IInv, ModesAgree, machine, jit, Occupied
<1>9. PointerFramesRun' /\ NoMissedNotify' /\ TrapFramesRun'
  BY <1>1 DEF IInv, PointerFramesRun, NoMissedNotify, TrapFramesRun, jit
<1>10. TrapAgrees'
  BY <1>1, <1>2, <1>3, <1>4, FrameFacts DEF IInv, TypeOK, TrapAgrees, machine, jit, Occupied, Accepted, Settled
<1>11. RequestedOnce'
  BY <1>1 DEF IInv, RequestedOnce, machine, jit, CountsFresh, Publishing
<1> QED BY <1>3, <1>5, <1>6, <1>7, <1>8, <1>9, <1>10, <1>11 DEF IInv

(* The constructor looks for a unit: what has the Trampoline has one.      *)
LEMMA FrameLooksForUnitPreserves ==
    ASSUME IInv, UNCHANGED <<mode, kind>>, FrameLooksForUnit
    PROVE  IInv'
<1> DEFINE union == IF units[fn] = <<>> THEN "ip" ELSE "checkpoint"
           new   == [frames[current] EXCEPT !.resume = union]
<1>1. /\ pc = "frame" /\ pc' = "idle" /\ current' = NoFrame
      /\ frames' = [frames EXCEPT ![current] = new]
      /\ UNCHANGED <<mode, kind, machine, trapUnit, jit>>
  BY DEF FrameLooksForUnit
<1>2. /\ current \in Frame /\ Occupied(current)
      /\ frames[current] \in FrameRecord /\ fn \in Fn
  BY <1>1, CurrentFacts
<1>3. /\ new \in FrameRecord
      /\ new.fn = fn /\ new.entry = frames[current].entry /\ new.resume = union
      /\ fn # NoFn /\ fn = frames[current].fn
  BY <1>2, FnAssumption DEF FrameRecord, fn
<1> HIDE DEF new
<1>4. /\ FramesTyped'
      /\ \A t \in Frame : frames'[t] = IF t = current THEN new ELSE frames[t]
  BY <1>1, <1>2, <1>3 DEF IInv, FramesTyped
<1>5. \A t \in Frame : /\ Occupied(t)' <=> Occupied(t)
                       /\ Occupied(t) => /\ frames'[t].fn = frames[t].fn
                                         /\ frames'[t].entry = frames[t].entry
  BY <1>2, <1>3, <1>4 DEF Occupied
<1>6. TypeOK'
  BY <1>1, <1>2, <1>3, <1>4, <1>5 DEF IInv, TypeOK, machine, jit, FrameRecord, Occupied
<1>7. ControlAgrees'
  BY <1>1 DEF IInv, ControlAgrees, machine, jit, Accepted
<1>8. EntriesAgree'
  BY <1>1, <1>2, <1>3, <1>4, <1>5 DEF IInv, EntriesAgree, machine, jit, Accepted
<1>9. ModesAgree'
  BY <1>1, <1>5 DEF IInv, ModesAgree, machine, jit
<1>10. PointerFramesRun' /\ NoMissedNotify' /\ TrapFramesRun'
  BY <1>1 DEF IInv, PointerFramesRun, NoMissedNotify, TrapFramesRun, jit
<1>11. TrapAgrees'
  BY <1>1, <1>5 DEF IInv, TrapAgrees, machine, jit, Accepted, Settled
<1>12. RequestedOnce'
  BY <1>1 DEF IInv, RequestedOnce, machine, jit, CountsFresh, Publishing
<1> QED BY <1>4, <1>6, <1>7, <1>8, <1>9, <1>10, <1>11, <1>12 DEF IInv

(* The count goes up; below 2^16 it meets the threshold only once.         *)
LEMMA InvokePreserves ==
    ASSUME IInv, UNCHANGED <<mode, kind>>, NEW s \in Frame, Invoke(s)
    PROVE  IInv'
<1> DEFINE g == frames[s].fn
<1>1. /\ pc = "idle" /\ pc' \in {"hot", "enter"} /\ current' = s /\ Occupied(s)
      /\ calls[g] < MaxCalls
      /\ calls' = [calls EXCEPT ![g] = calls[g] + 1]
      /\ pc' = IF calls'[g] % CountRange = HotThreshold THEN "hot" ELSE "enter"
      /\ UNCHANGED <<mode, kind, entry, units, frames, trapUnit, queue, stop, worker, job>>
  BY DEF Invoke, jit, Occupied
<1>2. g \in Fn /\ fn' = g
  BY <1>1, FrameFacts DEF IInv, fn
<1>3. /\ calls[g] \in Nat
      /\ \A f \in Fn : calls'[f] = IF f = g THEN calls[g] + 1 ELSE calls[f]
      /\ \A f \in Fn : calls[f] \in Nat /\ calls[f] <= calls'[f]
      /\ calls' \in [Fn -> 0 .. MaxCalls]
  <2>1. calls \in [Fn -> 0 .. MaxCalls] /\ MaxCalls \in Nat
    BY BoundAssumption DEF IInv, TypeOK
  <2>2. calls[g] + 1 \in 0 .. MaxCalls /\ calls[g] \in Nat
    BY <1>1, <1>2, <2>1
  <2> HIDE DEF g
  <2> QED BY <1>1, <1>2, <2>1, <2>2
<1> HIDE DEF g
<1>4. TypeOK' /\ FramesTyped'
  BY <1>1, <1>3 DEF IInv, TypeOK, FramesTyped
<1>5. ControlAgrees'
  BY <1>1 DEF IInv, ControlAgrees, Occupied, Accepted
<1>6. EntriesAgree'
  BY <1>1 DEF IInv, EntriesAgree, Occupied, Accepted
<1>7. ModesAgree'
  BY <1>1 DEF IInv, ModesAgree, Occupied
<1>8. PointerFramesRun' /\ NoMissedNotify' /\ TrapFramesRun'
  BY <1>1 DEF IInv, PointerFramesRun, NoMissedNotify, TrapFramesRun
<1>9. TrapAgrees'
  BY <1>1 DEF IInv, TrapAgrees, Occupied, Accepted, Settled
<1>10. ASSUME "aot" \notin mode, CountsFresh' PROVE RequestedOnce'
  <2>1. CountsFresh
    BY <1>3, <1>10, BoundAssumption DEF CountsFresh
  <2>2. calls'[g] < CountRange /\ calls'[g] \in Nat
    BY <1>2, <1>3, <1>10 DEF CountsFresh
  <2>3. pc' = "hot" => calls'[g] = HotThreshold /\ calls[g] < HotThreshold
    BY <1>1, <1>2, <1>3, <2>2, HotOnce
  <2>4. \A f \in Fn : calls[f] >= HotThreshold => calls'[f] >= HotThreshold
    BY <1>3, BoundAssumption
  <2>5. /\ IsInjective(queue)
        /\ \A w, v \in Worker : \A f \in Fn : Publishing(w, f) /\ Publishing(v, f) => w = v
        /\ \A f \in Fn :
               /\ f \in Range(queue) =>
                      /\ calls[f] >= HotThreshold /\ units[f] = <<>>
                      /\ \A w \in Worker : ~Publishing(w, f)
               /\ \A w \in Worker : Publishing(w, f) => calls[f] >= HotThreshold /\ units[f] = <<>>
               /\ units[f] # <<>> => calls[f] >= HotThreshold
               /\ Len(units[f]) <= 1
               /\ entry[f] = "Trampoline" => Last(units[f]) = "Compiled"
        /\ \A w \in Worker : worker[w] = "entry" => units[job[w].fn][job[w].unit] = "Compiled"
    BY <1>10, <2>1 DEF IInv, RequestedOnce
  <2>6. pc' = "hot" => /\ g \notin Range(queue) /\ units[g] = <<>>
                       /\ \A w \in Worker : ~Publishing(w, g)
    BY <1>2, <1>3, <2>3, <2>5, BoundAssumption
  <2> QED BY <1>1, <1>2, <2>3, <2>4, <2>5, <2>6 DEF RequestedOnce, Publishing
<1>11. RequestedOnce'
  BY <1>1, <1>10 DEF RequestedOnce
<1> QED BY <1>4, <1>5, <1>6, <1>7, <1>8, <1>9, <1>11 DEF IInv

(* A hot function that has a unit is not asked for.                        *)
LEMMA HotLooksForUnitPreserves ==
    ASSUME IInv, UNCHANGED <<mode, kind>>, HotLooksForUnit
    PROVE  IInv'
<1>1. /\ pc = "hot" /\ pc' \in {"enqueue", "enter"} /\ (pc' = "enqueue" => "jit" \in mode)
      /\ UNCHANGED <<mode, kind, entry, units, calls, frames, current, trapUnit, queue, stop,
                     worker, job>>
  BY DEF HotLooksForUnit, jit, machine
<1>2. TypeOK' /\ FramesTyped'
  BY <1>1 DEF IInv, TypeOK, FramesTyped
<1>3. ControlAgrees'
  BY <1>1 DEF IInv, ControlAgrees, Occupied, Accepted
<1>4. EntriesAgree'
  BY <1>1 DEF IInv, EntriesAgree, Occupied, Accepted
<1>5. ModesAgree'
  BY <1>1 DEF IInv, ModesAgree, Occupied
<1>6. PointerFramesRun' /\ NoMissedNotify' /\ TrapFramesRun'
  BY <1>1 DEF IInv, PointerFramesRun, NoMissedNotify, TrapFramesRun
<1>7. TrapAgrees'
  BY <1>1 DEF IInv, TrapAgrees, Occupied, Accepted, Settled
<1>8. RequestedOnce'
  BY <1>1 DEF IInv, RequestedOnce, CountsFresh, Publishing, fn
<1> QED BY <1>2, <1>3, <1>4, <1>5, <1>6, <1>7, <1>8 DEF IInv

(* The request goes to the back of the queue and a sleeper, if there is    *)
(* one, is woken: afterwards some thread is awake.                         *)
LEMMA EnqueuePreserves ==
    ASSUME IInv, UNCHANGED <<mode, kind>>, EnqueueForCompilation
    PROVE  IInv'
<1>1. /\ pc = "enqueue" /\ pc' = "enter"
      /\ queue' = Append(queue, fn)
      /\ UNCHANGED <<mode, kind, entry, units, calls, frames, current, trapUnit, stop, job>>
  BY DEF EnqueueForCompilation, machine
<1>2. /\ fn \in Fn /\ "jit" \in mode
      /\ queue \in Seq(Fn) /\ queue' \in Seq(Fn)
  BY <1>1, CurrentFacts DEF IInv, ModesAgree, TypeOK
<1>3. /\ worker' \in [Worker -> WorkerStates]
      /\ \A w \in Worker : worker'[w] = worker[w] \/ (worker'[w] = "loop" /\ worker[w] = "waiting")
      /\ \E w \in Worker : worker'[w] # "waiting"
  <2>1. worker \in [Worker -> WorkerStates] /\ "loop" \in WorkerStates
    BY DEF IInv, TypeOK, WorkerStates
  <2>2. NotifyOne
    BY DEF EnqueueForCompilation
  <2>3. CASE \E w \in Worker : worker[w] = "waiting"
    <3>1. PICK w \in Worker : /\ worker[w] = "waiting"
                              /\ worker' = [worker EXCEPT ![w] = "loop"]
      BY <2>2, <2>3 DEF NotifyOne
    <3> QED BY <2>1, <3>1
  <2>4. CASE ~\E w \in Worker : worker[w] = "waiting"
    BY <2>1, <2>2, <2>4, WorkerAssumption DEF NotifyOne
  <2> QED BY <2>3, <2>4
<1>4. TypeOK' /\ FramesTyped'
  BY <1>1, <1>2, <1>3 DEF IInv, TypeOK, FramesTyped, WorkerStates
<1>5. ControlAgrees'
  BY <1>1, <1>3 DEF IInv, ControlAgrees, Occupied, Accepted
<1>6. EntriesAgree'
  BY <1>1 DEF IInv, EntriesAgree, Occupied, Accepted
<1>7. ModesAgree'
  BY <1>1, <1>2 DEF IInv, ModesAgree, Occupied
<1>8. PointerFramesRun' /\ NoMissedNotify' /\ TrapFramesRun'
  BY <1>1, <1>3 DEF IInv, PointerFramesRun, NoMissedNotify, TrapFramesRun
<1>9. TrapAgrees'
  BY <1>1 DEF IInv, TrapAgrees, Occupied, Accepted, Settled
<1>10. RequestedOnce'
  <2> SUFFICES ASSUME "aot" \notin mode, CountsFresh PROVE RequestedOnce'
    BY <1>1 DEF RequestedOnce, CountsFresh
  <2> DEFINE g == fn
  <2>0. g \in Fn /\ g = fn
    BY <1>2
  <2> HIDE DEF g
  <2>1. /\ calls[g] = HotThreshold /\ g \notin Range(queue) /\ units[g] = <<>>
        /\ \A w \in Worker : ~Publishing(w, g)
        /\ IsInjective(queue)
    BY <1>1, <2>0 DEF IInv, RequestedOnce
  <2>2. IsInjective(queue') /\ Range(queue') = Range(queue) \cup {g}
    BY <1>1, <1>2, <2>0, <2>1, AppendElements
  <2>3. calls[g] >= HotThreshold
    BY <2>1, BoundAssumption
  <2>4. \A w \in Worker : \A f \in Fn : Publishing(w, f)' <=> Publishing(w, f)
    BY <1>1, <1>3 DEF Publishing
  <2>5. \A w \in Worker : worker'[w] = "entry" => worker[w] = "entry"
    BY <1>3
  <2> QED BY <1>1, <2>1, <2>2, <2>3, <2>4, <2>5 DEF IInv, RequestedOnce
<1> QED BY <1>4, <1>5, <1>6, <1>7, <1>8, <1>9, <1>10 DEF IInv

(* Entering an entry point the current frame or its function has: it runs, *)
(* or the frame holds a checkpoint the interpreter cannot use.             *)
LEMMA EnterWithPreserves ==
    ASSUME IInv, UNCHANGED <<mode, kind, machine, trapUnit, jit>>,
           pc \in {"enter", "jump"},
           NEW e \in Entries, e # "AOTCompileTrap",
           e = "Trampoline" => entry[fn] = "Trampoline" /\ frames[current].resume = "checkpoint",
           mode = {"aot"} /\ e = "Interpreter" => entry[fn] = "Interpreter",
           EnterWith(e)
    PROVE  IInv'
<1>1. /\ UNCHANGED <<mode, kind, entry, units, calls, trapUnit, queue, stop, worker, job>>
      /\ e \in {"Interpreter", "Trampoline", "FunctionTrampoline"}
  BY DEF machine, jit, Entries
<1>2. /\ current \in Frame /\ Occupied(current)
      /\ frames[current] \in FrameRecord /\ fn \in Fn /\ fn = frames[current].fn
  BY CurrentFacts DEF fn
<1>3. frames[current].resume \in {"ip", "checkpoint"}
  BY <1>2 DEF IInv, EntriesAgree, FrameRecord
<1>4. CASE CanRun(e)
  <2>1. /\ pc' = "idle" /\ current' = NoFrame
        /\ frames' = frames \/ frames' = [frames EXCEPT ![current] = [fn |-> NoFn]]
    BY <1>4 DEF EnterWith
  <2>2. /\ FramesTyped'
        /\ \A t \in Frame : Occupied(t)' => Occupied(t) /\ frames'[t] = frames[t]
    BY <1>2, <2>1 DEF IInv, FramesTyped, Occupied
  <2>3. TypeOK'
    <3>1. \A t \in Frame : frames'[t].fn \in Fn => frames'[t].entry \in Entries
      BY <2>2, FnAssumption DEF IInv, TypeOK, Occupied
    <3> QED BY <1>1, <2>1, <3>1 DEF IInv, TypeOK
  <2>4. ControlAgrees'
    BY <1>1, <2>1 DEF IInv, ControlAgrees, Accepted
  <2>5. EntriesAgree'
    BY <1>1, <2>1, <2>2 DEF IInv, EntriesAgree, Accepted
  <2>6. ModesAgree'
    BY <1>1, <2>1, <2>2 DEF IInv, ModesAgree
  <2>7. PointerFramesRun' /\ NoMissedNotify' /\ TrapFramesRun'
    BY <1>1, <2>1 DEF IInv, PointerFramesRun, NoMissedNotify, TrapFramesRun
  <2>8. TrapAgrees'
    BY <1>1, <2>1, <2>2 DEF IInv, TrapAgrees, Accepted, Settled
  <2>9. RequestedOnce'
    BY <1>1, <2>1 DEF IInv, RequestedOnce, CountsFresh, Publishing
  <2> QED BY <2>2, <2>3, <2>4, <2>5, <2>6, <2>7, <2>8, <2>9 DEF IInv
<1>5. CASE ~CanRun(e)
  <2>1. pc' = "fault" /\ UNCHANGED <<current, frames>>
    BY <1>5 DEF EnterWith
  <2>2. /\ frames[current].resume = "checkpoint"
        /\ \/ e = "Interpreter"
           \/ e = "Trampoline" /\ ~(Last(units[fn]) = "Compiled" /\ kind[fn] # "native")
    BY <1>1, <1>3, <1>5 DEF CanRun
  <2>3. TypeOK' /\ FramesTyped'
    BY <1>1, <2>1 DEF IInv, TypeOK, FramesTyped
  <2>4. ControlAgrees'
    BY <1>1, <1>2, <2>1 DEF IInv, ControlAgrees, Occupied, Accepted
  <2>5. EntriesAgree'
    BY <1>1, <2>1 DEF IInv, EntriesAgree, Occupied, Accepted
  <2>6. ModesAgree'
    BY <1>1, <2>1 DEF IInv, ModesAgree, Occupied
  <2>7. PointerFramesRun' /\ NoMissedNotify'
    BY <1>1, <2>1, <2>2 DEF IInv, PointerFramesRun, NoMissedNotify
  <2>8. ASSUME mode = {"aot"} PROVE Last(units[fn]) = "Failed"
    <3>1. Settled(fn) /\ TrapAgrees
      BY DEF Settled, IInv
    <3>2. CASE e = "Interpreter"
      BY <1>2, <2>8, <3>1, <3>2 DEF TrapAgrees
    <3>3. CASE e = "Trampoline"
      BY <1>2, <2>2, <2>8, <3>1, <3>3 DEF TrapAgrees, IInv, EntriesAgree
    <3> QED BY <2>2, <3>2, <3>3
  <2>9. mode' = {"aot"} => TrapFramesRun'
    BY <1>1, <2>1, <2>8 DEF TrapFramesRun, fn
  <2>10. TrapAgrees'
    BY <1>1, <2>1 DEF IInv, TrapAgrees, Occupied, Accepted, Settled
  <2>11. RequestedOnce'
    BY <1>1, <2>1 DEF IInv, RequestedOnce, CountsFresh, Publishing
  <2> QED BY <2>3, <2>4, <2>5, <2>6, <2>7, <2>9, <2>10, <2>11 DEF IInv
<1> QED BY <1>4, <1>5

LEMMA EnterPreserves ==
    ASSUME IInv, UNCHANGED <<mode, kind>>, Enter
    PROVE  IInv'
<1> DEFINE e == frames[current].entry
<1>1. /\ pc = "enter" /\ e # "AOTCompileTrap" /\ EnterWith(e)
      /\ UNCHANGED <<mode, kind, machine, trapUnit, jit>>
  BY DEF Enter
<1>2. /\ current \in Frame /\ Occupied(current)
      /\ frames[current] \in FrameRecord /\ fn = frames[current].fn
  BY <1>1, CurrentFacts DEF fn
<1>3. e \in Entries
  BY <1>2 DEF FrameRecord
<1>4. e = "Trampoline" => entry[fn] = "Trampoline" /\ frames[current].resume = "checkpoint"
  BY <1>1, <1>2 DEF IInv, EntriesAgree, FrameRecord
<1>5. mode = {"aot"} /\ e = "Interpreter" => entry[fn] = "Interpreter"
  BY <1>2 DEF IInv, TrapAgrees
<1> HIDE DEF e
<1> QED BY <1>1, <1>3, <1>4, <1>5, EnterWithPreserves

LEMMA JumpToEntryPreserves ==
    ASSUME IInv, UNCHANGED <<mode, kind>>, JumpToEntry
    PROVE  IInv'
<1>1. /\ pc = "jump" /\ EnterWith(entry[fn])
      /\ UNCHANGED <<mode, kind, machine, trapUnit, jit>>
  BY DEF JumpToEntry
<1>2. fn \in Fn
  BY <1>1, CurrentFacts
<1>3. /\ entry[fn] \in Entries /\ entry[fn] # "AOTCompileTrap"
      /\ entry[fn] = "Trampoline" => frames[current].resume = "checkpoint"
  BY <1>1, <1>2 DEF IInv, EntriesAgree, Entries
<1> QED BY <1>1, <1>3, EnterWithPreserves

(* The trap puts a new unit in front of whatever the function had.         *)
LEMMA EnterTrapPreserves ==
    ASSUME IInv, UNCHANGED <<mode, kind>>, EnterTrap
    PROVE  IInv'
<1>1. /\ pc = "enter" /\ pc' = "trap" /\ PublishUnit(fn)
      /\ frames[current].entry = "AOTCompileTrap"
      /\ trapUnit' = Len(units[fn]) + 1
      /\ UNCHANGED <<mode, kind, entry, calls, frames, current, queue, stop, worker, job>>
  BY DEF EnterTrap, jit
<1>2. /\ current \in Frame /\ Occupied(current)
      /\ fn \in Fn /\ fn' = fn /\ "aot" \in mode
  BY <1>1, CurrentFacts DEF fn, IInv, ModesAgree
<1>3. /\ units' \in [Fn -> Seq(States)]
      /\ Len(units'[fn]) = Len(units[fn]) + 1
      /\ \A g \in Fn : g # fn => units'[g] = units[g]
      /\ \A g \in Fn : Len(units[g]) \in Nat /\ Len(units[g]) <= Len(units'[g])
      /\ \A g \in Fn : units[g] # <<>> => units'[g] # <<>>
      /\ units'[fn] # <<>>
  BY <1>1, <1>2, PublishUnitEffect DEF IInv
<1>4. /\ trapUnit' = Len(units'[fn]) /\ trapUnit' \in 1 .. Len(units'[fn])
      /\ \A g \in Fn : Len(units'[g]) \in Nat
      /\ \A g \in Fn : \A i \in 1 .. Len(units[g]) : i \in 1 .. Len(units'[g])
  BY <1>1, <1>2, <1>3
<1>5. TypeOK' /\ FramesTyped'
  BY <1>1, <1>3, <1>4 DEF IInv, TypeOK, FramesTyped, States
<1>6. ControlAgrees'
  <2>1. \A w \in Worker :
          /\ worker[w] \in {"publish", "compile", "entry"} => job[w].fn \in Fn
          /\ worker[w] \in {"compile", "entry"} => job[w].unit \in 1 .. Len(units'[job[w].fn])
          /\ worker[w] = "entry" => Accepted(job[w].fn)
    BY <1>4 DEF IInv, ControlAgrees
  <2> QED BY <1>1, <1>2, <1>4, <2>1 DEF ControlAgrees, Occupied, Accepted
<1>7. EntriesAgree'
  BY <1>1, <1>3 DEF IInv, EntriesAgree, Occupied, Accepted
<1>8. ModesAgree'
  BY <1>1, <1>2 DEF IInv, ModesAgree, Occupied
<1>9. PointerFramesRun' /\ NoMissedNotify' /\ TrapFramesRun'
  BY <1>1 DEF IInv, PointerFramesRun, NoMissedNotify, TrapFramesRun
<1>10. TrapAgrees'
  <2>1. \A f \in Fn : Settled(f)' => f # fn /\ Settled(f)
    BY <1>1, <1>2 DEF Settled
  <2> QED BY <1>1, <1>2, <1>3, <1>4, <2>1 DEF IInv, TrapAgrees, Occupied, Accepted
<1>11. RequestedOnce'
  BY <1>1, <1>2 DEF RequestedOnce
<1> QED BY <1>5, <1>6, <1>7, <1>8, <1>9, <1>10, <1>11 DEF IInv

(* The trap finishes its unit, and the entry point follows the result.     *)
LEMMA TrapCompilePreserves ==
    ASSUME IInv, UNCHANGED <<mode, kind>>, TrapCompile
    PROVE  IInv'
<1> DEFINE target == IF Accepted(fn) THEN "Trampoline" ELSE "Interpreter"
           new    == [frames[current] EXCEPT !.entry = "Trampoline", !.resume = "checkpoint"]
<1>1. /\ pc = "trap" /\ pc' = "jump" /\ FinishUnit(fn, trapUnit)
      /\ entry' = [entry EXCEPT ![fn] = target]
      /\ UNCHANGED <<mode, kind, calls, current, trapUnit, queue, stop, worker, job>>
  BY DEF TrapCompile, jit
<1>2. /\ current \in Frame /\ Occupied(current) /\ frames[current] \in FrameRecord
      /\ fn \in Fn /\ fn = frames[current].fn
      /\ "aot" \in mode /\ trapUnit \in 1 .. Len(units[fn])
  BY <1>1, CurrentFacts DEF fn, IInv, ModesAgree, ControlAgrees
<1>3. /\ units' \in [Fn -> Seq(States)]
      /\ units'[fn][trapUnit] = IF Accepted(fn) THEN "Compiled" ELSE "Failed"
      /\ \A g \in Fn : g # fn => units'[g] = units[g]
      /\ \A g \in Fn : Len(units'[g]) = Len(units[g])
      /\ \A g \in Fn : units'[g] = <<>> <=> units[g] = <<>>
  BY <1>1, <1>2, FinishUnitEffect DEF IInv
<1>4. units[fn] # <<>>
  BY <1>2
<1>5. /\ new \in FrameRecord
      /\ new.fn = fn /\ new.entry = "Trampoline" /\ new.resume = "checkpoint"
      /\ fn # NoFn
  BY <1>2, FnAssumption DEF FrameRecord, Entries
<1> HIDE DEF new
<1>6. /\ FramesTyped'
      /\ \A t \in Frame :
             frames'[t] = IF Accepted(fn) /\ t = current THEN new ELSE frames[t]
  <2>1. Accepted(fn) => frames' = [frames EXCEPT ![current] = new]
    BY DEF TrapCompile, new
  <2>2. ~Accepted(fn) => frames' = frames
    BY DEF TrapCompile
  <2>3. frames \in [Frame -> {[fn |-> NoFn]} \cup FrameRecord]
    BY DEF IInv, FramesTyped
  <2> QED BY <1>2, <1>5, <2>1, <2>2, <2>3 DEF FramesTyped
<1>7. /\ fn' = fn
      /\ \A t \in Frame : (Occupied(t)' <=> Occupied(t)) /\ frames'[t].fn = frames[t].fn
  BY <1>1, <1>2, <1>5, <1>6 DEF Occupied, fn
<1>8. /\ entry' \in [Fn -> Entries]
      /\ \A f \in Fn : entry'[f] = IF f = fn THEN target ELSE entry[f]
      /\ target \in {"Trampoline", "Interpreter"}
  BY <1>1, <1>2 DEF IInv, TypeOK, Entries
<1>9. TypeOK'
  <2>1. \A t \in Frame : frames'[t].fn \in Fn => frames'[t].entry \in Entries
    BY <1>5, <1>6 DEF IInv, TypeOK, Entries
  <2> QED BY <1>1, <1>3, <1>8, <2>1 DEF IInv, TypeOK, States
<1>10. ControlAgrees'
  BY <1>1, <1>2, <1>3, <1>7 DEF IInv, ControlAgrees, Accepted
<1>11. EntriesAgree'
  <2>1. \A f \in Fn : entry'[f] = "Trampoline" => Accepted(f)' /\ units'[f] # <<>>
    BY <1>1, <1>3, <1>4, <1>8 DEF IInv, EntriesAgree, Accepted
  <2>2. ASSUME NEW t \in Frame, Occupied(t)'
        PROVE  /\ frames'[t].resume # "unset"
               /\ frames'[t].entry = "Trampoline" =>
                      entry'[frames'[t].fn] = "Trampoline" /\ frames'[t].resume # "ip"
    <3>1. Occupied(t) /\ frames'[t].fn = frames[t].fn /\ frames[t].fn \in Fn
      BY <1>7, <2>2, FrameFacts DEF IInv
    <3>2. CASE Accepted(fn) /\ t = current
      BY <1>2, <1>5, <1>6, <1>8, <3>2
    <3>3. CASE ~(Accepted(fn) /\ t = current)
      BY <1>1, <1>6, <1>8, <3>1, <3>3 DEF IInv, EntriesAgree
    <3> QED BY <3>2, <3>3
  <2>3. IF Accepted(fn) THEN entry'[fn] = "Trampoline" /\ frames'[current].resume = "checkpoint"
                        ELSE entry'[fn] = "Interpreter"
    BY <1>2, <1>5, <1>6, <1>8
  <2> QED BY <1>1, <1>7, <2>1, <2>2, <2>3 DEF EntriesAgree, Accepted
<1>12. ModesAgree'
  BY <1>1, <1>2 DEF IInv, ModesAgree
<1>13. PointerFramesRun' /\ NoMissedNotify' /\ TrapFramesRun'
  BY <1>1 DEF IInv, PointerFramesRun, NoMissedNotify, TrapFramesRun
<1>14. ASSUME mode = {"aot"} PROVE TrapAgrees'
  <2>1. /\ trapUnit = Len(units[fn]) /\ frames[current].entry = "AOTCompileTrap"
        /\ kind[fn] # "native"
    BY <1>1, <1>2, <1>14 DEF IInv, TrapAgrees
  <2>2. Last(units'[fn]) = IF Accepted(fn) THEN "Compiled" ELSE "Failed"
    BY <1>2, <1>3, <2>1 DEF Last
  <2>3. \A f \in Fn : f # fn => Settled(f)
    BY DEF Settled
  <2>4. ASSUME NEW f \in Fn
        PROVE  /\ units'[f] # <<>> => Last(units'[f]) = IF Accepted(f) THEN "Compiled" ELSE "Failed"
               /\ entry'[f] = "Interpreter" => ~Accepted(f) /\ units'[f] # <<>>
               /\ entry'[f] \in {"Trampoline", "AOTCompileTrap"} => kind[f] # "native"
    <3>1. CASE f = fn
      BY <1>3, <1>4, <1>8, <2>1, <2>2, <3>1
    <3>2. CASE f # fn
      BY <1>3, <1>8, <1>14, <2>3, <3>2 DEF IInv, TrapAgrees
    <3> QED BY <3>1, <3>2
  <2>5. ASSUME NEW t \in Frame, Occupied(t)'
        PROVE  /\ frames'[t].entry = "Interpreter" => entry'[frames'[t].fn] = "Interpreter"
               /\ frames'[t].entry = "AOTCompileTrap" => kind[frames'[t].fn] # "native"
    <3>1. Occupied(t) /\ frames'[t].fn = frames[t].fn /\ frames[t].fn \in Fn
      BY <1>7, <2>5, FrameFacts DEF IInv
    <3>2. CASE Accepted(fn) /\ t = current
      BY <1>5, <1>6, <3>2
    <3>3. CASE ~(Accepted(fn) /\ t = current)
      BY <1>6, <1>8, <1>14, <3>1, <3>3 DEF IInv, TrapAgrees
    <3> QED BY <3>2, <3>3
  <2> QED BY <1>1, <2>4, <2>5 DEF TrapAgrees, Accepted
<1>15. TrapAgrees'
  BY <1>1, <1>14 DEF TrapAgrees
<1>16. RequestedOnce'
  BY <1>1, <1>2 DEF RequestedOnce
<1> QED BY <1>6, <1>9, <1>10, <1>11, <1>12, <1>13, <1>15, <1>16 DEF IInv

(* The destructor's three steps touch no function and no frame.            *)
LEMMA ShutdownPreserves ==
    ASSUME IInv, UNCHANGED <<mode, kind>>, SetStop \/ NotifyAll \/ Join
    PROVE  IInv'
<1>1. /\ UNCHANGED <<mode, kind, entry, units, calls, frames, current, trapUnit, queue, job>>
      /\ pc \in {"idle", "notify", "join"} /\ pc' \in {"notify", "join", "done"}
  BY DEF SetStop, NotifyAll, Join, machine, jit
<1>2. stop' = TRUE
  BY DEF SetStop, NotifyAll, Join, jit, IInv, ControlAgrees
<1>3. /\ worker' \in [Worker -> WorkerStates]
      /\ \A w \in Worker : worker'[w] = worker[w] \/ (worker[w] = "waiting" /\ worker'[w] = "loop")
      /\ pc' = "join" => \A w \in Worker : worker'[w] # "waiting"
  <2>1. worker \in [Worker -> WorkerStates]
    BY DEF IInv, TypeOK, WorkerStates
  <2>2. CASE SetStop
    BY <2>1, <2>2 DEF SetStop
  <2>3. CASE NotifyAll
    BY <2>1, <2>3 DEF NotifyAll, WorkerStates
  <2>4. CASE Join
    BY <2>1, <2>4 DEF Join, jit
  <2> QED BY <2>2, <2>3, <2>4
<1>4. current = NoFrame
  BY <1>1 DEF IInv, ControlAgrees
<1>5. TypeOK' /\ FramesTyped'
  BY <1>1, <1>2, <1>3 DEF IInv, TypeOK, FramesTyped, WorkerStates
<1>6. ControlAgrees'
  BY <1>1, <1>2, <1>3, <1>4 DEF IInv, ControlAgrees, Occupied, Accepted
<1>7. EntriesAgree'
  BY <1>1 DEF IInv, EntriesAgree, Occupied, Accepted
<1>8. ModesAgree'
  BY <1>1, <1>3 DEF IInv, ModesAgree, Occupied
<1>9. PointerFramesRun' /\ NoMissedNotify' /\ TrapFramesRun'
  BY <1>1, <1>3 DEF IInv, PointerFramesRun, NoMissedNotify, TrapFramesRun
<1>10. TrapAgrees'
  BY <1>1 DEF IInv, TrapAgrees, Occupied, Accepted, Settled
<1>11. RequestedOnce'
  <2>1. \A w \in Worker : \A f \in Fn : Publishing(w, f)' <=> Publishing(w, f)
    BY <1>1, <1>3 DEF Publishing
  <2>2. \A w \in Worker : worker'[w] = "entry" => worker[w] = "entry"
    BY <1>3
  <2> QED BY <1>1, <2>1, <2>2 DEF IInv, RequestedOnce, CountsFresh
<1> QED BY <1>5, <1>6, <1>7, <1>8, <1>9, <1>10, <1>11 DEF IInv

-----------------------------------------------------------------------------
(* The compiler's threads, action by action.                               *)

LEMMA OnlyWithJit ==
    ASSUME IInv, NEW w \in Worker, worker[w] # "gone"
    PROVE  "jit" \in mode /\ mode # {"aot"}
BY DEF IInv, ModesAgree

LEMMA WaitPreserves ==
    ASSUME IInv, UNCHANGED <<mode, kind>>, NEW w \in Worker, Wait(w) \/ End(w)
    PROVE  IInv'
<1> DEFINE to == IF stop THEN "gone" ELSE "waiting"
<1>1. /\ UNCHANGED <<mode, kind, entry, units, calls, frames, pc, current, trapUnit, queue, stop,
                     job>>
      /\ worker[w] = "loop" /\ worker' = [worker EXCEPT ![w] = to]
      /\ stop \/ queue = <<>>
      /\ fn' = fn
  BY DEF Wait, End, Goes, machine, thread, fn
<1>2. /\ worker' \in [Worker -> WorkerStates]
      /\ \A v \in Worker : worker'[v] = IF v = w THEN to ELSE worker[v]
      /\ to \in {"gone", "waiting"}
  BY <1>1 DEF IInv, TypeOK, WorkerStates
<1> HIDE DEF to
<1>3. TypeOK' /\ FramesTyped'
  BY <1>1, <1>2 DEF IInv, TypeOK, FramesTyped, WorkerStates
<1>4. ControlAgrees'
  BY <1>1, <1>2 DEF IInv, ControlAgrees, Occupied, Accepted
<1>5. EntriesAgree'
  BY <1>1 DEF IInv, EntriesAgree, Occupied, Accepted
<1>6. ModesAgree'
  BY <1>1, <1>2 DEF IInv, ModesAgree, Occupied
<1>7. NoMissedNotify'
  <2>1. CASE stop
    BY <1>1, <1>2, <2>1 DEF IInv, NoMissedNotify, to
  <2>2. CASE ~stop
    BY <1>1, <1>2, <2>2 DEF IInv, NoMissedNotify, ControlAgrees
  <2> QED BY <2>1, <2>2
<1>8. PointerFramesRun' /\ mode' # {"aot"}
  BY <1>1, OnlyWithJit DEF IInv, PointerFramesRun
<1>9. TrapAgrees'
  BY <1>8 DEF TrapAgrees
<1>10. RequestedOnce'
  <2>1. \A v \in Worker : \A f \in Fn : Publishing(v, f)' <=> Publishing(v, f)
    BY <1>1, <1>2 DEF Publishing
  <2>2. \A v \in Worker : worker'[v] = "entry" => worker[v] = "entry"
    BY <1>2
  <2> QED BY <1>1, <2>1, <2>2 DEF IInv, RequestedOnce, CountsFresh
<1> QED BY <1>3, <1>4, <1>5, <1>6, <1>7, <1>8, <1>9, <1>10 DEF IInv

(* The oldest request leaves the queue for a thread.                       *)
LEMMA TakePreserves ==
    ASSUME IInv, UNCHANGED <<mode, kind>>, NEW w \in Worker, Take(w)
    PROVE  IInv'
<1> DEFINE f == Head(queue)
<1>1. /\ UNCHANGED <<mode, kind, entry, units, calls, frames, pc, current, trapUnit, stop>>
      /\ worker[w] = "loop" /\ worker' = [worker EXCEPT ![w] = "publish"]
      /\ job' = [job EXCEPT ![w] = [fn |-> f, unit |-> 0]]
      /\ queue # <<>> /\ queue' = Tail(queue)
      /\ fn' = fn
  BY DEF Take, Goes, machine, thread, fn
<1>2. /\ queue \in Seq(Fn) /\ f \in Fn /\ Tail(queue) \in Seq(Fn)
      /\ job \in [Worker -> [fn : Fn \cup {NoFn}, unit : Nat]]
      /\ worker \in [Worker -> WorkerStates]
  BY <1>1 DEF IInv, TypeOK, WorkerStates
<1> HIDE DEF f
<1>3. /\ worker' \in [Worker -> WorkerStates]
      /\ \A v \in Worker : worker'[v] = IF v = w THEN "publish" ELSE worker[v]
      /\ \A v \in Worker : v # w => job'[v] = job[v]
      /\ job'[w].fn = f
      /\ job' \in [Worker -> [fn : Fn \cup {NoFn}, unit : Nat]]
  BY <1>1, <1>2 DEF WorkerStates
<1>4. TypeOK' /\ FramesTyped'
  BY <1>1, <1>2, <1>3 DEF IInv, TypeOK, FramesTyped, WorkerStates
<1>5. ControlAgrees'
  BY <1>1, <1>2, <1>3 DEF IInv, ControlAgrees, Occupied, Accepted
<1>6. EntriesAgree'
  BY <1>1 DEF IInv, EntriesAgree, Occupied, Accepted
<1>7. ModesAgree' /\ mode' # {"aot"}
  BY <1>1, OnlyWithJit DEF IInv, ModesAgree, Occupied
<1>8. PointerFramesRun' /\ NoMissedNotify'
  BY <1>1, <1>3 DEF IInv, PointerFramesRun, NoMissedNotify
<1>9. TrapAgrees'
  BY <1>7 DEF TrapAgrees
<1>10. ASSUME "aot" \notin mode, CountsFresh PROVE RequestedOnce'
  <2>1. IsInjective(queue) /\ f \in Range(queue)
    BY <1>1, <1>2, <1>10, TailElements DEF IInv, RequestedOnce, f
  <2>2. IsInjective(queue') /\ Range(queue') = Range(queue) \ {f}
    BY <1>1, <1>2, <2>1, TailElements DEF f
  <2>3. /\ calls[f] >= HotThreshold /\ units[f] = <<>>
        /\ \A v \in Worker : ~Publishing(v, f)
        /\ pc \in {"hot", "enqueue"} => fn # f
    BY <1>2, <1>10, <2>1 DEF IInv, RequestedOnce
  <2>4. \A v \in Worker : \A g \in Fn : Publishing(v, g)' <=> Publishing(v, g) \/ (v = w /\ g = f)
    BY <1>1, <1>3 DEF Publishing
  <2>5. \A v \in Worker : worker'[v] = "entry" => worker[v] = "entry" /\ job'[v] = job[v]
    BY <1>3
  <2> QED BY <1>1, <1>10, <2>2, <2>3, <2>4, <2>5 DEF IInv, RequestedOnce
<1>11. RequestedOnce'
  BY <1>1, <1>10 DEF RequestedOnce, CountsFresh
<1> QED BY <1>4, <1>5, <1>6, <1>7, <1>8, <1>9, <1>11 DEF IInv

(* The thread's unit is the function's only one, when requests are single. *)
LEMMA PublishPreserves ==
    ASSUME IInv, UNCHANGED <<mode, kind>>, NEW w \in Worker, Publish(w)
    PROVE  IInv'
<1> DEFINE f == job[w].fn
           u == Len(units[f]) + 1
<1>1. /\ UNCHANGED <<mode, kind, entry, calls, frames, pc, current, trapUnit, queue, stop>>
      /\ worker[w] = "publish" /\ worker' = [worker EXCEPT ![w] = "compile"]
      /\ job' = [job EXCEPT ![w].unit = u]
      /\ PublishUnit(f)
      /\ fn' = fn
  BY DEF Publish, Goes, thread, fn
<1>2. /\ f \in Fn
      /\ job \in [Worker -> [fn : Fn \cup {NoFn}, unit : Nat]]
      /\ worker \in [Worker -> WorkerStates]
  BY <1>1 DEF IInv, TypeOK, WorkerStates, ControlAgrees
<1>3. f = job[w].fn
  OBVIOUS
<1> HIDE DEF f
<1>4. /\ units' \in [Fn -> Seq(States)]
      /\ Len(units'[f]) = u
      /\ \A g \in Fn : g # f => units'[g] = units[g]
      /\ \A g \in Fn : Len(units[g]) \in Nat /\ Len(units[g]) <= Len(units'[g])
      /\ \A g \in Fn : units[g] # <<>> => units'[g] # <<>>
  BY <1>1, <1>2, PublishUnitEffect DEF IInv
<1>5. /\ u \in Nat \ {0} /\ u \in 1 .. Len(units'[f])
      /\ \A g \in Fn : \A i \in 1 .. Len(units[g]) : i \in 1 .. Len(units'[g])
  BY <1>2, <1>4
<1> HIDE DEF u
<1>6. /\ worker' \in [Worker -> WorkerStates]
      /\ \A v \in Worker : worker'[v] = IF v = w THEN "compile" ELSE worker[v]
      /\ \A v \in Worker : v # w => job'[v] = job[v]
      /\ job'[w].fn = f /\ job'[w].unit = u
      /\ job' \in [Worker -> [fn : Fn \cup {NoFn}, unit : Nat]]
  BY <1>1, <1>2, <1>3, <1>5 DEF WorkerStates
<1>7. TypeOK' /\ FramesTyped'
  BY <1>1, <1>4, <1>6 DEF IInv, TypeOK, FramesTyped, WorkerStates, States
<1>8. ControlAgrees'
  <2>1. pc = "trap" => trapUnit \in 1 .. Len(units'[fn])
    BY <1>5, CurrentFacts DEF IInv, ControlAgrees
  <2>2. \A v \in Worker :
          /\ worker'[v] \in {"publish", "compile", "entry"} => job'[v].fn \in Fn
          /\ worker'[v] \in {"compile", "entry"} => job'[v].unit \in 1 .. Len(units'[job'[v].fn])
          /\ worker'[v] = "entry" => Accepted(job'[v].fn)
    BY <1>2, <1>5, <1>6 DEF IInv, ControlAgrees
  <2> QED BY <1>1, <2>1, <2>2 DEF IInv, ControlAgrees, Occupied, Accepted
<1>9. EntriesAgree'
  BY <1>1, <1>4 DEF IInv, EntriesAgree, Occupied, Accepted
<1>10. ModesAgree' /\ mode' # {"aot"}
  BY <1>1, OnlyWithJit DEF IInv, ModesAgree, Occupied
<1>11. PointerFramesRun' /\ NoMissedNotify'
  BY <1>1, <1>6 DEF IInv, PointerFramesRun, NoMissedNotify
<1>12. TrapAgrees'
  BY <1>10 DEF TrapAgrees
<1>13. ASSUME "aot" \notin mode, CountsFresh PROVE RequestedOnce'
  <2>1. Publishing(w, f)
    BY <1>1, <1>3 DEF Publishing
  <2>2. /\ calls[f] >= HotThreshold /\ units[f] = <<>> /\ f \notin Range(queue)
        /\ pc \in {"hot", "enqueue"} => fn # f
        /\ \A v \in Worker : Publishing(v, f) => v = w
        /\ entry[f] # "Trampoline"
    BY <1>2, <1>13, <2>1 DEF IInv, RequestedOnce, EntriesAgree
  <2>3. Len(units'[f]) <= 1
    <3>1. Len(units[f]) = 0
      BY <2>2
    <3> QED BY <1>4, <3>1 DEF u
  <2>4. \A v \in Worker : \A g \in Fn : Publishing(v, g)' <=> Publishing(v, g) /\ v # w
    BY <1>1, <1>6 DEF Publishing
  <2>5. ASSUME NEW v \in Worker, worker'[v] = "entry"
        PROVE  units'[job'[v].fn][job'[v].unit] = "Compiled"
    <3>1. worker[v] = "entry" /\ v # w /\ job'[v] = job[v]
      BY <1>6, <2>5
    <3>2. /\ job[v].fn \in Fn /\ job[v].unit \in 1 .. Len(units[job[v].fn])
          /\ units[job[v].fn][job[v].unit] = "Compiled"
      BY <1>13, <3>1 DEF IInv, RequestedOnce, ControlAgrees
    <3>3. job[v].fn # f
      BY <2>2, <3>2
    <3> QED BY <1>4, <3>1, <3>2, <3>3
  <2>6. ASSUME NEW g \in Fn
        PROVE  /\ pc \in {"hot", "enqueue"} /\ fn = g =>
                      /\ calls[g] = HotThreshold /\ g \notin Range(queue) /\ units'[g] = <<>>
                      /\ \A v \in Worker : ~Publishing(v, g)'
               /\ g \in Range(queue) =>
                      /\ calls[g] >= HotThreshold /\ units'[g] = <<>>
                      /\ \A v \in Worker : ~Publishing(v, g)'
               /\ \A v \in Worker : Publishing(v, g)' =>
                      calls[g] >= HotThreshold /\ units'[g] = <<>>
               /\ units'[g] # <<>> => calls[g] >= HotThreshold
               /\ Len(units'[g]) <= 1
               /\ entry[g] = "Trampoline" => Last(units'[g]) = "Compiled"
    <3>1. CASE g = f
      <4>1. \A v \in Worker : ~Publishing(v, g)'
        BY <1>1, <1>6, <2>2, <3>1 DEF Publishing
      <4>2. /\ pc \in {"hot", "enqueue"} => fn # g
            /\ g \notin Range(queue) /\ calls[g] >= HotThreshold
            /\ entry[g] # "Trampoline" /\ Len(units'[g]) <= 1
        BY <2>2, <2>3, <3>1
      <4> QED BY <4>1, <4>2
    <3>2. CASE g # f
      BY <1>4, <1>13, <2>4, <3>2 DEF IInv, RequestedOnce
    <3> QED BY <3>1, <3>2
  <2>7. /\ IsInjective(queue)
        /\ \A v, x \in Worker : \A g \in Fn : Publishing(v, g)' /\ Publishing(x, g)' => v = x
    BY <1>13, <2>4 DEF IInv, RequestedOnce
  <2> QED BY <1>1, <2>5, <2>6, <2>7 DEF RequestedOnce
<1>14. RequestedOnce'
  BY <1>1, <1>13 DEF RequestedOnce, CountsFresh
<1> QED BY <1>7, <1>8, <1>9, <1>10, <1>11, <1>12, <1>14 DEF IInv

(* The unit becomes what the compilation came to.                          *)
LEMMA CompilePreserves ==
    ASSUME IInv, UNCHANGED <<mode, kind>>, NEW w \in Worker, Compile(w)
    PROVE  IInv'
<1> DEFINE f  == job[w].fn
           u  == job[w].unit
           to == IF Accepted(f) THEN "entry" ELSE "loop"
<1>1. /\ UNCHANGED <<mode, kind, entry, calls, frames, pc, current, trapUnit, queue, stop, job>>
      /\ worker[w] = "compile" /\ worker' = [worker EXCEPT ![w] = to]
      /\ FinishUnit(f, u)
      /\ fn' = fn
  BY DEF Compile, Goes, thread, fn
<1>2. f \in Fn /\ u \in 1 .. Len(units[f]) /\ f = job[w].fn /\ u = job[w].unit
  BY <1>1 DEF IInv, ControlAgrees
<1> HIDE DEF f, u
<1>3. /\ units' \in [Fn -> Seq(States)]
      /\ units'[f][u] = IF Accepted(f) THEN "Compiled" ELSE "Failed"
      /\ \A i \in 1 .. Len(units[f]) : i # u => units'[f][i] = units[f][i]
      /\ \A g \in Fn : g # f => units'[g] = units[g]
      /\ \A g \in Fn : Len(units'[g]) = Len(units[g])
      /\ \A g \in Fn : units'[g] = <<>> <=> units[g] = <<>>
  BY <1>1, <1>2, FinishUnitEffect DEF IInv
<1>4. /\ worker' \in [Worker -> WorkerStates]
      /\ \A v \in Worker : worker'[v] = IF v = w THEN to ELSE worker[v]
      /\ to \in {"entry", "loop"} /\ (to = "entry" => Accepted(f))
  BY <1>1 DEF IInv, TypeOK, WorkerStates
<1> HIDE DEF to
<1>5. TypeOK' /\ FramesTyped'
  BY <1>1, <1>3, <1>4 DEF IInv, TypeOK, FramesTyped, WorkerStates, States
<1>6. ControlAgrees'
  <2>1. pc = "trap" => trapUnit \in 1 .. Len(units'[fn])
    BY <1>3, CurrentFacts DEF IInv, ControlAgrees
  <2>2. \A v \in Worker :
          /\ worker'[v] \in {"publish", "compile", "entry"} => job[v].fn \in Fn
          /\ worker'[v] \in {"compile", "entry"} => job[v].unit \in 1 .. Len(units'[job[v].fn])
          /\ worker'[v] = "entry" => Accepted(job[v].fn)
    BY <1>2, <1>3, <1>4 DEF IInv, ControlAgrees
  <2> QED BY <1>1, <2>1, <2>2 DEF IInv, ControlAgrees, Occupied, Accepted
<1>7. EntriesAgree'
  BY <1>1, <1>3 DEF IInv, EntriesAgree, Occupied, Accepted
<1>8. ModesAgree' /\ mode' # {"aot"}
  BY <1>1, OnlyWithJit DEF IInv, ModesAgree, Occupied
<1>9. PointerFramesRun' /\ NoMissedNotify'
  BY <1>1, <1>4 DEF IInv, PointerFramesRun, NoMissedNotify
<1>10. TrapAgrees'
  BY <1>8 DEF TrapAgrees
<1>11. ASSUME "aot" \notin mode, CountsFresh PROVE RequestedOnce'
  <2>1. Len(units[f]) <= 1 /\ units[f] # <<>> /\ Len(units[f]) \in Nat
    BY <1>2, <1>11 DEF IInv, RequestedOnce, TypeOK
  <2>2. u = 1 /\ Len(units'[f]) = 1
    <3>1. Len(units'[f]) = Len(units[f])
      BY <1>2, <1>3
    <3>2. \A n \in Nat : \A i \in 1 .. n : n <= 1 => i = 1 /\ n = 1
      OBVIOUS
    <3> QED BY <1>2, <2>1, <3>1, <3>2
  <2>3. Accepted(f) => Last(units'[f]) = "Compiled"
    BY <1>3, <2>2 DEF Last
  <2>4. \A g \in Fn : entry[g] = "Trampoline" => Last(units'[g]) = "Compiled"
    BY <1>3, <1>11, <2>3 DEF IInv, RequestedOnce, EntriesAgree
  <2>5. ASSUME NEW v \in Worker, worker'[v] = "entry"
        PROVE  units'[job[v].fn][job[v].unit] = "Compiled"
    <3>1. CASE v = w
      BY <1>2, <1>3, <1>4, <2>5, <3>1
    <3>2. CASE v # w
      <4>1. /\ worker[v] = "entry"
            /\ job[v].fn \in Fn /\ job[v].unit \in 1 .. Len(units[job[v].fn])
            /\ units[job[v].fn][job[v].unit] = "Compiled" /\ Accepted(job[v].fn)
        BY <1>4, <1>11, <2>5, <3>2 DEF IInv, RequestedOnce, ControlAgrees
      <4> QED BY <1>3, <4>1
    <3> QED BY <3>1, <3>2
  <2>6. \A v \in Worker : \A g \in Fn : Publishing(v, g)' <=> Publishing(v, g)
    BY <1>1, <1>4 DEF Publishing
  <2> QED BY <1>1, <1>3, <1>11, <2>4, <2>5, <2>6 DEF IInv, RequestedOnce
<1>12. RequestedOnce'
  BY <1>1, <1>11 DEF RequestedOnce, CountsFresh
<1> QED BY <1>5, <1>6, <1>7, <1>8, <1>9, <1>10, <1>12 DEF IInv

(* The entry point switches only when there is code behind it.             *)
LEMMA SwitchEntryPreserves ==
    ASSUME IInv, UNCHANGED <<mode, kind>>, NEW w \in Worker, SwitchEntry(w)
    PROVE  IInv'
<1> DEFINE f == job[w].fn
<1>1. /\ UNCHANGED <<mode, kind, units, calls, frames, pc, current, trapUnit, queue, stop, job>>
      /\ worker[w] = "entry" /\ worker' = [worker EXCEPT ![w] = "loop"]
      /\ entry' = [entry EXCEPT ![f] = "Trampoline"]
      /\ fn' = fn
  BY DEF SwitchEntry, Goes, thread, fn
<1>2. f \in Fn /\ job[w].unit \in 1 .. Len(units[f]) /\ Accepted(f) /\ f = job[w].fn
  BY <1>1 DEF IInv, ControlAgrees
<1> HIDE DEF f
<1>3. /\ worker' \in [Worker -> WorkerStates]
      /\ \A v \in Worker : worker'[v] = IF v = w THEN "loop" ELSE worker[v]
  BY <1>1 DEF IInv, TypeOK, WorkerStates
<1>4. /\ entry' \in [Fn -> Entries]
      /\ \A g \in Fn : entry'[g] = IF g = f THEN "Trampoline" ELSE entry[g]
      /\ units[f] # <<>>
  BY <1>1, <1>2 DEF IInv, TypeOK, Entries
<1>5. TypeOK' /\ FramesTyped'
  BY <1>1, <1>3, <1>4 DEF IInv, TypeOK, FramesTyped, WorkerStates
<1>6. ControlAgrees'
  BY <1>1, <1>3 DEF IInv, ControlAgrees, Occupied, Accepted
<1>7. EntriesAgree'
  <2>1. \A s \in Frame : Occupied(s) => frames[s].fn \in Fn
    BY FrameFacts DEF IInv
  <2>2. pc = "jump" => fn \in Fn
    BY CurrentFacts
  <2> QED BY <1>1, <1>2, <1>4, <2>1, <2>2 DEF IInv, EntriesAgree, Occupied, Accepted
<1>8. ModesAgree' /\ mode' # {"aot"}
  BY <1>1, <1>4, OnlyWithJit DEF IInv, ModesAgree, Occupied
<1>9. PointerFramesRun' /\ NoMissedNotify'
  BY <1>1, <1>3 DEF IInv, PointerFramesRun, NoMissedNotify
<1>10. TrapAgrees'
  BY <1>8 DEF TrapAgrees
<1>11. ASSUME "aot" \notin mode, CountsFresh PROVE RequestedOnce'
  <2>1. Len(units[f]) <= 1 /\ Len(units[f]) \in Nat /\ units[f][job[w].unit] = "Compiled"
    BY <1>1, <1>2, <1>11 DEF IInv, RequestedOnce, TypeOK
  <2>2. Last(units[f]) = "Compiled"
    BY <1>2, <2>1 DEF Last
  <2>3. \A v \in Worker : \A g \in Fn : Publishing(v, g)' <=> Publishing(v, g)
    BY <1>1, <1>3 DEF Publishing
  <2>4. \A v \in Worker : worker'[v] = "entry" => worker[v] = "entry"
    BY <1>3
  <2> QED BY <1>1, <1>4, <1>11, <2>2, <2>3, <2>4 DEF IInv, RequestedOnce
<1>12. RequestedOnce'
  BY <1>1, <1>11 DEF RequestedOnce, CountsFresh
<1> QED BY <1>5, <1>6, <1>7, <1>8, <1>9, <1>10, <1>12 DEF IInv

(* A thread that dies leaves its unit as it was, and a successor.          *)
LEMMA RestartPreserves ==
    ASSUME IInv, UNCHANGED <<mode, kind>>, NEW w \in Worker, Restart(w)
    PROVE  IInv'
<1>1. /\ UNCHANGED <<mode, kind, entry, units, calls, frames, current, trapUnit, queue, stop, job>>
      /\ worker[w] = "compile" /\ worker' = [worker EXCEPT ![w] = "loop"]
      /\ pc' = IF pc = "join" THEN "fault" ELSE pc
      /\ fn' = fn
  BY DEF Restart, Goes, machine, fn
<1>2. /\ worker' \in [Worker -> WorkerStates]
      /\ \A v \in Worker : worker'[v] = IF v = w THEN "loop" ELSE worker[v]
  BY <1>1 DEF IInv, TypeOK, WorkerStates
<1>3. TypeOK' /\ FramesTyped'
  BY <1>1, <1>2 DEF IInv, TypeOK, FramesTyped, WorkerStates
<1>4. ControlAgrees'
  BY <1>1, <1>2 DEF IInv, ControlAgrees, Occupied, Accepted
<1>5. EntriesAgree'
  BY <1>1 DEF IInv, EntriesAgree, Occupied, Accepted
<1>6. ModesAgree' /\ mode' # {"aot"}
  BY <1>1, OnlyWithJit DEF IInv, ModesAgree, Occupied
<1>7. PointerFramesRun' /\ NoMissedNotify'
  BY <1>1, <1>2 DEF IInv, PointerFramesRun, NoMissedNotify, ControlAgrees
<1>8. TrapAgrees'
  BY <1>6 DEF TrapAgrees
<1>9. RequestedOnce'
  <2>1. \A v \in Worker : \A g \in Fn : Publishing(v, g)' <=> Publishing(v, g)
    BY <1>1, <1>2 DEF Publishing
  <2>2. \A v \in Worker : worker'[v] = "entry" => worker[v] = "entry"
    BY <1>2
  <2> QED BY <1>1, <2>1, <2>2 DEF IInv, RequestedOnce, CountsFresh
<1> QED BY <1>3, <1>4, <1>5, <1>6, <1>7, <1>8, <1>9 DEF IInv

-----------------------------------------------------------------------------
(* The invariant, and what follows from it.                                *)

THEOREM Invariance == Spec => []IInv
<1>1. ASSUME IInv, [Next]_vars PROVE IInv'
  <2>1. CASE UNCHANGED vars
    BY <1>1, <2>1
       DEF vars, machine, thread, jit, IInv, TypeOK, FramesTyped, ControlAgrees, EntriesAgree,
           ModesAgree, PointerFramesRun, NoMissedNotify, TrapAgrees, TrapFramesRun,
           RequestedOnce, CountsFresh, Publishing, Occupied, Accepted, Settled, fn
  <2>2. CASE Mutator
    <3>1. UNCHANGED <<mode, kind>>
      BY <2>2 DEF Mutator
    <3>2. ASSUME NEW s \in Frame, NEW f \in Fn, PushFrame(s, f) PROVE IInv'
      BY <1>1, <3>1, <3>2, PushFramePreserves
    <3>3. ASSUME NEW s \in Frame, Invoke(s) PROVE IInv'
      BY <1>1, <3>1, <3>3, InvokePreserves
    <3>4. CASE FrameLooksForUnit
      BY <1>1, <3>1, <3>4, FrameLooksForUnitPreserves
    <3>5. CASE HotLooksForUnit
      BY <1>1, <3>1, <3>5, HotLooksForUnitPreserves
    <3>6. CASE EnqueueForCompilation
      BY <1>1, <3>1, <3>6, EnqueuePreserves
    <3>7. CASE Enter
      BY <1>1, <3>1, <3>7, EnterPreserves
    <3>8. CASE EnterTrap
      BY <1>1, <3>1, <3>8, EnterTrapPreserves
    <3>9. CASE TrapCompile
      BY <1>1, <3>1, <3>9, TrapCompilePreserves
    <3>10. CASE JumpToEntry
      BY <1>1, <3>1, <3>10, JumpToEntryPreserves
    <3>11. CASE SetStop \/ NotifyAll \/ Join
      BY <1>1, <3>1, <3>11, ShutdownPreserves
    <3> QED BY <2>2, <3>2, <3>3, <3>4, <3>5, <3>6, <3>7, <3>8, <3>9, <3>10, <3>11 DEF Mutator
  <2>3. ASSUME NEW w \in Worker, Compiling(w) PROVE IInv'
    <3>1. UNCHANGED <<mode, kind>>
      BY <2>3 DEF Compiling
    <3>2. CASE Wait(w) \/ End(w)
      BY <1>1, <3>1, <3>2, WaitPreserves
    <3>3. CASE Take(w)
      BY <1>1, <3>1, <3>3, TakePreserves
    <3>4. CASE Publish(w)
      BY <1>1, <3>1, <3>4, PublishPreserves
    <3>5. CASE Compile(w)
      BY <1>1, <3>1, <3>5, CompilePreserves
    <3>6. CASE SwitchEntry(w)
      BY <1>1, <3>1, <3>6, SwitchEntryPreserves
    <3> QED BY <2>3, <3>2, <3>3, <3>4, <3>5, <3>6 DEF Compiling
  <2>4. ASSUME NEW w \in Worker, Restart(w), UNCHANGED <<mode, kind>> PROVE IInv'
    BY <1>1, <2>4, RestartPreserves
  <2> QED BY <1>1, <2>1, <2>2, <2>3, <2>4 DEF Next, Stopped
<1> QED BY <1>1, Initially, PTL DEF Spec

(* Functions, frames and threads keep their types, for any number of them. *)
THEOREM TypeCorrect == Spec => []TypeOK
<1>1. IInv => TypeOK
  BY DEF IInv
<1> QED BY <1>1, Invariance, PTL

(* A request in the queue always finds a compiler thread awake, and the    *)
(* destructor leaves none asleep, however many threads there are.          *)
THEOREM RequestsFindAThread == Spec => []NoMissedNotify
<1>1. IInv => NoMissedNotify
  BY DEF IInv
<1> QED BY <1>1, Invariance, PTL

(* In every mode, a frame that faults held a checkpoint: a frame made with *)
(* an instruction pointer runs whatever is compiled meanwhile.             *)
THEOREM PointersStayGood == Spec => []PointerFramesRun
<1>1. IInv => PointerFramesRun
  BY DEF IInv
<1> QED BY <1>1, Invariance, PTL

(* With the ahead-of-time mode on its own, frames that wait at the trap of *)
(* a function that compiles all run, in whatever order they enter it.      *)
THEOREM TrapIsReentrant == Spec => [](mode # {"aot", "jit"} => TrapFramesRun)
<1>1. ASSUME IInv, mode # {"aot", "jit"} PROVE TrapFramesRun
  <2>1. mode \in SUBSET {"aot", "jit"}
    BY <1>1, BoundAssumption DEF IInv, TypeOK
  <2>2. CASE mode = {"aot"}
    BY <1>1, <2>2 DEF IInv
  <2>3. CASE "aot" \notin mode
    BY <2>3 DEF TrapFramesRun
  <2> QED BY <1>1, <2>1, <2>2, <2>3
<1>2. IInv => (mode # {"aot", "jit"} => TrapFramesRun)
  BY <1>1
<1> QED BY <1>2, Invariance, PTL

(* As long as no invocation count has come round its 2^16 values, the JIT  *)
(* compiler on its own makes one unit per function.                        *)
THEOREM OneUnitPerFunction == Spec => [](CountsFresh => CompiledOnce)
<1>1. IInv => (CountsFresh => CompiledOnce)
  BY DEF IInv, RequestedOnce, CompiledOnce
<1> QED BY <1>1, Invariance, PTL

(* With one of the two compilers, whoever holds the Trampoline finds code  *)
(* in the current unit and a checkpoint in the frame; for the JIT compiler *)
(* as long as no invocation count has come round.                          *)
THEOREM TrampolinesHaveCode ==
    Spec => [](mode # {"aot", "jit"} /\ ("jit" \in mode => CountsFresh) => TrampolineHasCode)
<1>1. ASSUME IInv, mode # {"aot", "jit"}, "jit" \in mode => CountsFresh,
             NEW s \in Frame, pc # "trap", Occupied(s), frames[s].entry = "Trampoline"
      PROVE  Last(units[frames[s].fn]) = "Compiled" /\ frames[s].resume # "ip"
  <2>1. mode \in SUBSET {"aot", "jit"}
    BY <1>1, BoundAssumption DEF IInv, TypeOK
  <2> DEFINE f == frames[s].fn
  <2>2. f \in Fn /\ entry[f] = "Trampoline" /\ frames[s].resume # "ip"
    BY <1>1, FrameFacts DEF IInv, EntriesAgree
  <2>3. units[f] # <<>> /\ Accepted(f) /\ Settled(f)
    BY <1>1, <2>2 DEF IInv, EntriesAgree, Settled
  <2> HIDE DEF f
  <2>4. CASE mode = {"aot"}
    BY <1>1, <2>2, <2>3, <2>4 DEF IInv, TrapAgrees, f
  <2>5. CASE "aot" \notin mode /\ CountsFresh
    BY <1>1, <2>2, <2>5 DEF IInv, RequestedOnce, f
  <2>6. CASE mode = {}
    BY <1>1, <2>2, <2>6 DEF IInv, ModesAgree
  <2> QED BY <1>1, <2>1, <2>4, <2>5, <2>6
<1>2. IInv => (mode # {"aot", "jit"} /\ ("jit" \in mode => CountsFresh) => TrampolineHasCode)
  BY <1>1 DEF TrampolineHasCode, Occupied
<1> QED BY <1>2, Invariance, PTL
==============================================================================
