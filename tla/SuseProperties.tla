--------------------------- MODULE SuseProperties ---------------------------
(* What is checked of SuseScheduler: its type, its invariants, what its     *)
(* steps may never do, what it implements and what must eventually happen.  *)
EXTENDS SuseScheduler

StPlace == {"none", "start", "recv", "mainwait", "sched", "empty", "park",
            "unparked", "reply", "notify", "join", "joinmiss", "served",
            "check", "end", "create", "log", "crashed"}
LtsPlace == {"wait", "check", "post", "move", "moving", "signal", "done"}
ConsolePlace ==
    {"readline", "ending", "joinlistener", "joinlts", "joinprograms", "ended"}

\* Type invariant: the values each variable of the server can take.  A moved
\* thread never goes back to NEW, a counter never falls below zero.
TypeOK ==
    /\ TcbTypeOK
    /\ newCounter \in Nat
    /\ lpc \in LtsPlace
    /\ current \in Thread \cup {None}
    /\ mainLoaded \in [Program -> BOOLEAN]
    /\ valor \in [Sem -> Int]
    /\ semBlocked \in [Sem -> Seq(Thread)]
    /\ semMutex \in [Sem -> Program \cup {None}]
    /\ pc \in [Program -> StPlace]
    /\ todo \in [Program -> Seq(MoveCall)]
    /\ arg \in [Program -> Thread \cup {None}]
    /\ joined \in [Thread -> Seq(Thread)]
    /\ wakeupList \in [Program -> Seq(Thread)]
    /\ close \in [Program -> BOOLEAN]
    /\ cur \in [Program -> Thread \cup {None}]
    /\ owes \in [Program -> BOOLEAN]
    /\ endsuse \in BOOLEAN
    /\ console \in ConsolePlace
    /\ listening \in BOOLEAN
-----------------------------------------------------------------------------
\* The thread move_tcb_to is moving: out of its old slot, not yet in the new.
Moving ==
    CASE listMutex = None \/ jammed # None -> None
      [] listMutex = Lts -> current
      [] OTHER -> todo[listMutex][1].tcb

HoldsSlot(t) == state[t] \in Active /\ t # Moving

\* Safety: every slot of the multiprogramming degree is free, held by one
\* admitted thread, or in the hand of check_multiprog.  multiprog_degree and
\* the value of available_multiprog never drift from the thread states.
SlotsAccounted ==
    /\ available + degree + One(lpc = "post") = MaxMultiprog
    /\ degree = Cardinality({t \in Thread : HoldsSlot(t)})

\* Safety: between two calls of move_tcb_to every thread is on the one list
\* its state names and on no other, program->exec included, so a program
\* never has two executing threads and a search never misses one.
ListsMatchState ==
    Moving = None =>
        /\ Len(newList) = Cardinality({t \in Thread : state[t] = "NEW"})
        /\ \A t \in Thread : (\E i \in DOMAIN newList : newList[i] = t)
                                 <=> state[t] = "NEW"
        /\ \A p \in Program :
              ready[p] = {t \in ThreadsOf(p) : state[t] = "READY"}
        /\ \A t \in Thread : exec[Owner[t]] = t <=> state[t] = "EXEC"
        /\ blockedList = {t \in Thread : state[t] = "BLOCKED"}
        /\ exitList = {t \in Thread : state[t] = "EXIT"}

PendingWakes(p) == {i \in DOMAIN todo[p] : todo[p][i].wake}

\* Safety: tcb_counter counts the program's ready threads and the wake-ups it
\* was given and has not served, so wait_for_threads sleeps exactly when there
\* is nothing to run and never on a wake-up that already came.
CounterMatches ==
    \A p \in Program :
        tcbCounter[p] = Cardinality(ready[p]) + Len(wakeupList[p])
                            + Cardinality(PendingWakes(p))

\* Safety: the threads that wait on a semaphore are as many as its negative
\* value says, so wakeup() never takes the head of an empty list, and no
\* signal raises the value over SEM_MAX.
SemQueueMatches ==
    \A s \in Sem :
        /\ Len(semBlocked[s]) = IF valor[s] < 0 THEN -valor[s] ELSE 0
        /\ valor[s] <= IF SemInit[s] > SemMax[s] THEN SemInit[s] ELSE SemMax[s]

\* The places a wake-up for t can come from or is on its way in.
InQueue(list, t) == {i \in DOMAIN list : list[i] = t}
Wakers(t) ==
    ({"sem"} \X UNION {{s} \X InQueue(semBlocked[s], t) : s \in Sem})
    \cup ({"wakeup"} \X UNION {{p} \X InQueue(wakeupList[p], t) : p \in Program})
    \cup ({"wake"} \X UNION {{p} \X {i \in PendingWakes(p) : todo[p][i].tcb = t}
                                : p \in Program})
    \cup ({"notify"} \X {p \in Program : pc[p] = "notify" /\ arg[p] = t})
    \cup ({"join"} \X UNION {{u} \X InQueue(joined[u], t)
                                : u \in {v \in Thread : state[v] # "EXIT"}})

\* Safety: a blocked thread waits for exactly one thing: a semaphore's queue,
\* a wake-up on its way to it, or a thread that has not exited.  None is lost
\* and none is woken twice.
BlockedHasOneWaker ==
    \A t \in Thread :
        state[t] = "BLOCKED" /\ t # Moving => Cardinality(Wakers(t)) = 1

LegalMove == {<<"READY", "EXEC">>, <<"EXEC", "READY">>, <<"EXEC", "BLOCKED">>,
              <<"BLOCKED", "READY">>, <<"EXEC", "EXIT">>}

\* Safety: whenever a short-term scheduler calls move_tcb_to, the thread is
\* still in the state the handler chose it for, although mutexes were released
\* since: the early return of move_tcb_to is never taken and no list is
\* searched for a thread that is not on it.
NoRedundantMove ==
    \A p \in Program : todo[p] # <<>> =>
        <<state[todo[p][1].tcb], todo[p][1].to>> \in LegalMove

\* Safety: a client that asked after its last wait, join or close runs the
\* thread that is program->exec, when it sends a request and while it joins.
\* suse_wait, suse_signal, suse_join and suse_close use program->exec without
\* a test for NULL: only a client that went on without asking ends the server.
ExecIsWhatTheClientRuns ==
    \A p \in Program :
        /\ pc[p] \in {"recv", "join", "joinmiss"} /\ mainLoaded[p] /\ ~owes[p]
               => cur[p] # None /\ exec[p] = cur[p]
        /\ pc[p] = "crashed" => owes[p]

\* Safety: a short-term scheduler that waits for a slot inside move_tcb_to
\* always gets it, from the value or from check_multiprog's post.  Only the
\* long-term scheduler can wait there with no slot to come, and only when
\* every slot is held by an admitted thread.
OnlyLtsCanHang ==
    /\ listMutex \in Program /\ jammed = None
           => available > 0 \/ lpc = "post"
    /\ listMutex = Lts /\ available = 0 => degree = MaxMultiprog

\* Safety: each NEW thread has one post of new_counter that the long-term
\* scheduler has not spent, so get_new_tcb never returns NULL and no thread
\* is forgotten in newList.
BeforeTheLastPost == {"readline", "ending", "joinlistener"}
NoLostCreation ==
    /\ lpc \in {"check", "post", "move", "moving", "signal"} => current # None
    /\ lpc # "done" =>
          newCounter + One(lpc \in {"check", "post", "move"})
              = Len(newList) + One(console \notin BeforeTheLastPost)

\* Action property, and a hang of the code: check_multiprog can take the slot
\* a thread leaves for an instant while it moves between two states, and admit
\* a thread there is no room for.  The long-term scheduler then sleeps with
\* state_list_mutex held and no other step can ever free a slot.
HangIsForever ==
    [][lpc = "moving" /\ available = 0
           => lpc' = "moving" /\ available' = 0]_vars

\* Action property, and a deadlock of the code: main joins the short-term
\* schedulers with clientes_mutex held.  One that then moves, creates or logs a
\* thread waits for that mutex with state_list_mutex held; main waits for it,
\* and neither ever goes on, whatever the others do.
JamIsADeadlock ==
    [][jammed # None => jammed' = jammed /\ console' = "joinprograms"]_vars

\* Refinement: the states of the threads follow the abstract life cycle.
Lifecycle == INSTANCE ThreadLifecycle
LifecycleSpec == Lifecycle!Spec

\* Safety, for a server with room for every thread: the long-term scheduler
\* never sleeps on a slot while it holds state_list_mutex.
LtsNeverHangs == lpc = "moving" => available > 0
-----------------------------------------------------------------------------
\* The kernel runs every thread of the server, and a thread that waits for a
\* mutex or a semaphore others keep taking gets it in the end.  Clients and
\* the operator owe nothing.
Fairness ==
    /\ SF_vars(Alive /\ LongTerm)
    /\ \A p \in Program : SF_vars(Alive /\ ShortTerm(p))
    /\ WF_vars(Alive /\ Ending)

FairSpec == Spec /\ Fairness

\* Liveness, with room for every thread: a created thread is admitted, unless
\* a client ends the server.
EveryThreadIsAdmitted ==
    \A t \in Thread : state[t] = "NEW" ~> state[t] # "NEW" \/ ~Alive

Asking(p) == pc[p] \in {"sched", "empty", "park", "unparked"}
Runnable(p) ==
    exec[p] # None \/ ready[p] # {} \/ wakeupList[p] # <<>> \/ PendingWakes(p) # {}

\* Liveness: a client that asks which thread runs is answered once one of its
\* threads can run, also when the thread is woken by another program after
\* its own scheduler went to sleep.
SchedulingIsAnswered ==
    \A p \in Program : Asking(p) /\ Runnable(p) ~> pc[p] = "reply" \/ ~Alive

Searching(p) == pc[p] \in {"join", "joinmiss"}
Hopeless(p) == Searching(p) /\ (arg[p] = exec[p] \/ state[arg[p]] = "none")

\* Action property, and a hang of the code: a thread that joins itself, or one
\* that was never created, is searched for without end, for the scheduler that
\* could change it is the one that searches.
HopelessJoinsLast == [][\A p \in Program : Hopeless(p) => Hopeless(p)']_vars

\* Liveness, with room for every thread: suse_join's search ends for every
\* other thread, although it neither sleeps nor looks at newList, and for no
\* hopeless one.
JoinSearchEnds ==
    /\ \A p \in Program :
          Searching(p) /\ ~Hopeless(p) ~> ~Searching(p) \/ ~Alive
    /\ HopelessJoinsLast

\* Liveness, with room for every thread: after "salir" the listener and the
\* long-term scheduler end, wherever the latter is in its loop.
ShutdownReachesTheJoins ==
    endsuse ~> console \in {"joinprograms", "ended"} \/ ~Alive
=============================================================================
