------------------------------- MODULE TaskLife -------------------------------
(***************************************************************************)
(* What a cooperative scheduler promises its tasks, with no queues, no     *)
(* frames and no collector: a task is created ready, one task runs at a    *)
(* time, a running task may give way, block on a gate that is not open, or *)
(* end, and a blocked task becomes ready only once its gate is open, and   *)
(* then surely does.  Scheduler.tla implements this, its gates being the   *)
(* futures.                                                                *)
(***************************************************************************)
CONSTANTS Task, Gate, NoGate

VARIABLES
    state,   \* "none", "ready", "running" or "waiting"
    gate,    \* the gate a waiting task waits for
    open     \* the gates opened so far

lifeVars == <<state, gate, open>>

Idle == \A t \in Task : state[t] # "running"

Become(t, from, to) == /\ state[t] = from
                       /\ state' = [state EXCEPT ![t] = to]

Init == /\ state = [t \in Task |-> "none"]
        /\ gate = [t \in Task |-> NoGate]
        /\ open = {}

Create(t) == Become(t, "none", "ready") /\ UNCHANGED <<gate, open>>

Run(t) == Idle /\ Become(t, "ready", "running") /\ UNCHANGED <<gate, open>>

GiveWay(t) == Become(t, "running", "ready") /\ UNCHANGED <<gate, open>>

Finish(t) == Become(t, "running", "none") /\ UNCHANGED <<gate, open>>

Block(t, g) == /\ Become(t, "running", "waiting")
               /\ g \notin open
               /\ gate' = [gate EXCEPT ![t] = g]
               /\ UNCHANGED open

Wake(t) == /\ Become(t, "waiting", "ready")
           /\ gate[t] \in open
           /\ gate' = [gate EXCEPT ![t] = NoGate]
           /\ UNCHANGED open

(* Only code that runs opens a gate.                                       *)
Open(g) == /\ ~Idle
           /\ open' = open \cup {g}
           /\ UNCHANGED <<state, gate>>

Next == \/ \E t \in Task : Create(t) \/ Run(t) \/ GiveWay(t) \/ Finish(t) \/ Wake(t)
        \/ \E t \in Task, g \in Gate : Block(t, g)
        \/ \E g \in Gate : Open(g)

Safety == Init /\ [][Next]_lifeVars

Spec == Safety /\ \A t \in Task : WF_lifeVars(Wake(t))
=============================================================================
