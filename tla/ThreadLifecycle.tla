-------------------------- MODULE ThreadLifecycle --------------------------
(* What SUSE promises of the threads it plans, without its lists, mutexes   *)
(* and semaphores: the states a thread goes through, one executing thread   *)
(* per program, and no admission beyond the multiprogramming degree.        *)
EXTENDS Integers, FiniteSets

CONSTANTS Program, Thread, Owner, MaxMultiprog

VARIABLE state

Running(p) == {t \in Thread : Owner[t] = p /\ state[t] = "EXEC"}
Admitted == {t \in Thread : state[t] \in {"READY", "EXEC", "BLOCKED"}}

Step(t, from, to) == state[t] = from /\ state' = [state EXCEPT ![t] = to]

Create(t) == Step(t, "none", "NEW")

Admit(t) ==
    /\ Cardinality(Admitted) < MaxMultiprog
    /\ Step(t, "NEW", "READY")

Dispatch(t) ==
    /\ Running(Owner[t]) = {}
    /\ Step(t, "READY", "EXEC")

Preempt(t) == Step(t, "EXEC", "READY")
Block(t) == Step(t, "EXEC", "BLOCKED")
Wakeup(t) == Step(t, "BLOCKED", "READY")
Exit(t) == Step(t, "EXEC", "EXIT")

Init == state = [t \in Thread |-> "none"]

Next == \E t \in Thread :
    \/ Create(t) \/ Admit(t) \/ Dispatch(t) \/ Preempt(t)
    \/ Block(t) \/ Wakeup(t) \/ Exit(t)

Spec == Init /\ [][Next]_state
=============================================================================
