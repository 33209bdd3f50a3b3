------------------------------ MODULE SuseTcb ------------------------------
(* The thread control blocks (TCBs) of the SUSE server: the state lists of *)
(* planificacion/suse/suse_scheduler.c, the multiprogramming semaphore and *)
(* move_tcb_to(), the one function that takes a TCB from list to list.     *)
(*                                                                         *)
(* move_tcb_to() keeps state_list_mutex from its first line to its last    *)
(* and sleeps in sem_wait(&available_multiprog) while it does.  It is two  *)
(* actions here, before and after that sleep; every other critical section *)
(* of state_list_mutex is one action that requires listMutex = None.       *)
EXTENDS Integers, Sequences, FiniteSets

CONSTANTS
    Program,        \* client programs, one per socket
    Thread,         \* user-level threads, a (socket, tid) pair each
    Owner,          \* the program of a thread
    Main,           \* the thread of a program with tid 0
    MaxMultiprog,   \* MAX_MULTIPROG of suse.ini
    Lts,            \* the long-term scheduler's thread
    None            \* NULL, or an unlocked mutex

ASSUME TcbAssumption ==
    /\ IsFiniteSet(Thread)
    /\ Owner \in [Thread -> Program]
    /\ Main \in [Program -> Thread]
    /\ \A p \in Program : Owner[Main[p]] = p
    /\ MaxMultiprog \in Nat
    /\ Lts \notin Program
    /\ None \notin Thread \cup Program \cup {Lts}

VARIABLES
    state,          \* tcb->state; "none" before create_tcb
    newList,        \* the list of that name, oldest first
    ready,          \* program->ready, a set: SJF, not its order, chooses
    exec,           \* program->exec
    blockedList,    \* the lists of those names, only searched by tid
    exitList,
    tcbCounter,     \* program->tcb_counter
    available,      \* available_multiprog
    degree,         \* multiprog_degree
    listMutex,      \* who sleeps with state_list_mutex held
    jammed          \* the one that waits there for clientes_mutex

listVars == <<newList, ready, exec, blockedList, exitList>>
tcbVars  == <<state, listVars, tcbCounter, available, degree, listMutex,
              jammed>>

State == {"none", "NEW", "READY", "EXEC", "BLOCKED", "EXIT"}

\* The states that hold a slot of the multiprogramming degree.
Active == {"READY", "EXEC", "BLOCKED"}

Scheduler == Program \cup {Lts}
ThreadsOf(p) == {t \in Thread : Owner[t] = p}
-----------------------------------------------------------------------------
Only(cond, t) == IF cond THEN {t} ELSE {}
One(cond) == IF cond THEN 1 ELSE 0

find_tcb_pos(list, t) == CHOOSE i \in DOMAIN list : list[i] = t

\* commons' list_remove(list, find_tcb_pos(list, t)).
list_remove(list, t) ==
    [i \in 1 .. Len(list) - 1 |->
        list[IF i < find_tcb_pos(list, t) THEN i ELSE i + 1]]

\* A faulty variant, as the properties must find: a blocked thread's slot is
\* not given back.  The other variants below follow the same convention.
decrease_multiprog_keeps_blocked(from) ==
    /\ available' = available + One(from \in {"READY", "EXEC"})
    /\ degree' = degree - One(from \in {"READY", "EXEC"})

decrease_multiprog(from) ==
    /\ available' = available + One(from \in Active)
    /\ degree' = degree - One(from \in Active)

\* Variant: sem_trywait, its result ignored.
increase_multiprog_without_wait ==
    /\ available' = available - 1
    /\ degree' = degree + 1

increase_multiprog ==
    /\ available > 0
    /\ available' = available - 1
    /\ degree' = degree + 1

\* program->exec and tcb_counter after a move; variants that forget what the
\* old state asks for.
exec_after_stale(t, from, dst, old) == IF dst = "EXEC" THEN t ELSE old
exec_after(t, from, dst, old) ==
    CASE dst = "EXEC" -> t
      [] from = "EXEC" -> None
      [] OTHER -> old

count_after_no_wait(from, dst, n) == n + One(dst = "READY")
count_after(from, dst, n) == n - One(from = "READY") + One(dst = "READY")

\* program_remove_tcb_from_state and program_add_tcb_to_state: READY and EXEC.
program_remove_and_add(t, from, dst) ==
    LET p == Owner[t] IN
    /\ from = "READY" => tcbCounter[p] > 0
    /\ ready' = [ready EXCEPT ![p] =
            (@ \ Only(from = "READY", t)) \cup Only(dst = "READY", t)]
    /\ exec' = [exec EXCEPT ![p] = exec_after(t, from, dst, @)]
    /\ tcbCounter' = [tcbCounter EXCEPT ![p] = count_after(from, dst, @)]

\* Nobody holds state_list_mutex, or who locks it does, since it had to wait
\* for clientes_mutex.
list_mutex_locked(self) == listMutex = None \/ jammed = self

\* move_tcb_to up to increase_multiprog(): the TCB leaves the list of its
\* state and enters that of dst, its old slot is given back.  A move to EXIT
\* needs no slot and ends here.  NoRedundantMove (SuseProperties) shows that
\* no caller meets the early return for state = dst, and no caller moves a
\* TCB to NEW or out of EXIT.
MoveBegin(self, t, dst) ==
    LET from == state[t] IN
    /\ list_mutex_locked(self)
    /\ from # dst
    /\ newList' = IF from = "NEW" THEN list_remove(newList, t) ELSE newList
    /\ program_remove_and_add(t, from, dst)
    /\ blockedList' = (blockedList \ Only(from = "BLOCKED", t))
                          \cup Only(dst = "BLOCKED", t)
    /\ exitList' = exitList \cup Only(dst = "EXIT", t)
    /\ decrease_multiprog(from)
    /\ IF dst \in Active
       THEN listMutex' = self /\ UNCHANGED state
       ELSE state' = [state EXCEPT ![t] = dst] /\ listMutex' = None
    /\ jammed' = None

\* The rest of move_tcb_to: a slot is there, the state is set, the mutex freed.
MoveEnd(self, t, dst) ==
    /\ listMutex = self /\ jammed # self
    /\ increase_multiprog
    /\ state' = [state EXCEPT ![t] = dst]
    /\ listMutex' = None
    /\ UNCHANGED <<listVars, jammed>>

TcbInit ==
    /\ state = [t \in Thread |-> "none"]
    /\ newList = <<>>
    /\ ready = [p \in Program |-> {}]
    /\ exec = [p \in Program |-> None]
    /\ blockedList = {}
    /\ exitList = {}
    /\ tcbCounter = [p \in Program |-> 0]
    /\ available = MaxMultiprog
    /\ degree = 0
    /\ listMutex = None
    /\ jammed = None

TcbTypeOK ==
    /\ state \in [Thread -> State]
    /\ newList \in Seq(Thread)
    /\ ready \in [Program -> SUBSET Thread]
    /\ exec \in [Program -> Thread \cup {None}]
    /\ blockedList \in SUBSET Thread
    /\ exitList \in SUBSET Thread
    /\ tcbCounter \in [Program -> Nat]
    /\ available \in Nat
    /\ degree \in Int
    /\ listMutex \in Scheduler \cup {None}
    /\ jammed \in Program \cup {None}
=============================================================================
