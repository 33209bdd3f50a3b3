--------------------------- MODULE SuseScheduler ---------------------------
(* The SUSE server: one long-term scheduler thread, one short-term         *)
(* scheduler thread per client program, the listener and the console, over *)
(* the TCBs of SuseTcb and the semaphores of suse.ini.                     *)
(*                                                                         *)
(* A client is the hilolay stub (lib/hilolay/hilolay_alumnos.c).  Only     *)
(* SUSE_SCHEDULE_NEXT is answered: after a wait, a join or a close the     *)
(* client cannot know which thread runs.  It should ask then, and nothing  *)
(* makes it: it may send any operation in the name of any thread.  Which   *)
(* one is chosen when its short-term scheduler receives it.                *)
EXTENDS SuseTcb

CONSTANTS
    Sem,            \* SEM_IDS, with SEM_INIT and SEM_MAX
    SemInit,
    SemMax,
    MayLeave,       \* the programs whose client may disconnect
    MayQuit         \* whether the operator may type "salir"

ASSUME SchedulerAssumption ==
    /\ SemInit \in [Sem -> Nat]
    /\ SemMax \in [Sem -> Nat \ {0}]
    /\ MayLeave \subseteq Program
    /\ MayQuit \in BOOLEAN

VARIABLES
    newCounter,     \* the semaphore new_counter
    lpc,            \* the long-term scheduler's place in its loop
    current,        \* its variable of that name
    mainLoaded,     \* main_loaded_mutex has been unlocked
    valor,          \* semaforo->valor, ->blocked and the owner of ->sem_mutex
    semBlocked,
    semMutex,
    pc,             \* a short-term scheduler's place in its loop
    todo,           \* the calls of move_tcb_to it makes before it goes on
    arg,            \* the thread it joins or wakes up
    joined,         \* tcb->joined
    wakeupList,     \* program->wakeupList and program->close
    close,
    cur,            \* the thread the client runs, by the last answer
    owes,           \* it should ask again
    endsuse,        \* the global of that name
    console,        \* main's place between the console and the joins
    listening       \* the listener is in its loop

ltsVars     == <<newCounter, lpc, current, mainLoaded>>
semVars     == <<valor, semBlocked, semMutex>>
clientVars  == <<cur, owes>>
consoleVars == <<endsuse, console, listening>>
vars == <<tcbVars, ltsVars, semVars, pc, todo, arg, joined, wakeupList, close,
          clientVars, consoleVars>>

\* join_threads() keeps clientes_mutex while it joins the short-term schedulers.
ClientesHeld == console = "joinprograms"

Move(t, dst) == [tcb |-> t, to |-> dst, wake |-> FALSE]
Wake(t) == [tcb |-> t, to |-> "READY", wake |-> TRUE]
MoveCall == [tcb : Thread, to : Active \cup {"EXIT"}, wake : BOOLEAN]

\* wakeup_threads() keeps wakeup_mutex while it moves what it took.
WakeupMutexHeld(p) == todo[p] # <<>> /\ todo[p][1].wake

Goto(p, place) == pc' = [pc EXCEPT ![p] = place]

\* A handler that uses program->exec while it is NULL ends the whole server.
Alive == \A p \in Program : pc[p] # "crashed"
-----------------------------------------------------------------------------
(* The long-term scheduler. *)

LtsNext == IF endsuse THEN "done" ELSE "wait"

\* sem_wait(&new_counter), the test of endsuse and get_new_tcb().
LtsTake ==
    /\ lpc = "wait" /\ newCounter > 0 /\ ~endsuse /\ listMutex = None
    /\ newCounter' = newCounter - 1
    /\ current' = IF newList = <<>> THEN None ELSE newList[1]
    /\ lpc' = "check"
    /\ UNCHANGED <<tcbVars, mainLoaded, semVars, pc, todo, arg, joined,
                   wakeupList, close, clientVars, consoleVars>>

LtsStop ==
    /\ lpc = "wait" /\ newCounter > 0 /\ endsuse
    /\ newCounter' = newCounter - 1
    /\ lpc' = "done"
    /\ UNCHANGED <<tcbVars, current, mainLoaded, semVars, pc, todo, arg,
                   joined, wakeupList, close, clientVars, consoleVars>>

\* check_multiprog(): a slot is taken and given back, without state_list_mutex.
LtsCheckWait ==
    /\ lpc = "check" /\ available > 0
    /\ available' = available - 1
    /\ lpc' = "post"
    /\ UNCHANGED <<state, listVars, tcbCounter, degree, listMutex, jammed,
                   newCounter, current, mainLoaded, semVars, pc, todo, arg, joined,
                   wakeupList, close, clientVars, consoleVars>>

LtsCheckPost ==
    /\ lpc = "post"
    /\ available' = available + 1
    /\ lpc' = IF current = None THEN LtsNext ELSE "move"
    /\ UNCHANGED <<state, listVars, tcbCounter, degree, listMutex, jammed,
                   newCounter, current, mainLoaded, semVars, pc, todo, arg, joined,
                   wakeupList, close, clientVars, consoleVars>>

LtsMoveBegin ==
    /\ lpc = "move"
    /\ MoveBegin(Lts, current, "READY")
    /\ lpc' = "moving"
    /\ UNCHANGED <<newCounter, current, mainLoaded, semVars, pc, todo, arg,
                   joined, wakeupList, close, clientVars, consoleVars>>

LtsMoveEnd ==
    /\ lpc = "moving"
    /\ MoveEnd(Lts, current, "READY")
    /\ lpc' = IF current = Main[Owner[current]] THEN "signal" ELSE LtsNext
    /\ UNCHANGED <<tcbCounter, newCounter, current, mainLoaded, semVars, pc,
                   todo, arg, joined, wakeupList, close, clientVars,
                   consoleVars>>

\* main_exec_signal().
LtsSignalMain ==
    /\ lpc = "signal"
    /\ mainLoaded' = [mainLoaded EXCEPT ![Owner[current]] = TRUE]
    /\ lpc' = LtsNext
    /\ UNCHANGED <<tcbVars, newCounter, current, semVars, pc, todo, arg,
                   joined, wakeupList, close, clientVars, consoleVars>>

LongTerm ==
    \/ LtsTake \/ LtsStop \/ LtsCheckWait \/ LtsCheckPost
    \/ LtsMoveBegin \/ LtsMoveEnd \/ LtsSignalMain
-----------------------------------------------------------------------------
(* A short-term scheduler: the moves its handlers make, then its loop. *)

StMoveBegin(p) ==
    /\ todo[p] # <<>> /\ ~ClientesHeld
    /\ LET call == todo[p][1] IN
       /\ MoveBegin(p, call.tcb, call.to)
       /\ todo' = [todo EXCEPT ![p] = IF call.to = "EXIT" THEN Tail(@) ELSE @]
    /\ UNCHANGED <<ltsVars, semVars, pc, arg, joined, wakeupList, close,
                   clientVars, consoleVars>>

\* wakeup_threads() takes the wake-up it served off tcb_counter; block()
\* unlocks the semaphore after its move.
StMoveEnd(p) ==
    /\ todo[p] # <<>>
    /\ LET call == todo[p][1] IN
       /\ MoveEnd(p, call.tcb, call.to)
       /\ IF call.wake
          THEN /\ tcbCounter[p] > 0
               /\ tcbCounter' = [tcbCounter EXCEPT ![p] = @ - 1]
          ELSE UNCHANGED tcbCounter
    /\ todo' = [todo EXCEPT ![p] = Tail(@)]
    /\ semMutex' = [s \in Sem |-> IF semMutex[s] = p THEN None ELSE semMutex[s]]
    /\ UNCHANGED <<ltsVars, valor, semBlocked, pc, arg, joined, wakeupList,
                   close, clientVars, consoleVars>>

(* move_tcb_to, create_tcb and log_metrics ask for clientes_mutex with      *)
(* state_list_mutex held.  Who finds it taken stays there, and goes on when  *)
(* it is free.  The wait stands in front of what the section does: behind    *)
(* the mutex nobody sees how far it got, and the long-term scheduler, which  *)
(* looks at two semaphores without it, has ended when main takes             *)
(* clientes_mutex.                                                           *)
StJam(p) ==
    /\ ClientesHeld /\ listMutex = None
    /\ \/ /\ todo[p] # <<>> \/ pc[p] = "log"
          /\ UNCHANGED pc
       \/ /\ pc[p] = "recv"
          /\ \E t \in ThreadsOf(p) : state[t] = "none"
          /\ Goto(p, "create")
    /\ listMutex' = p
    /\ jammed' = p
    /\ UNCHANGED <<state, listVars, tcbCounter, available, degree, ltsVars,
                   semVars, todo, arg, joined, wakeupList, close, clientVars,
                   consoleVars>>

\* The thread starts with get_program(); close was never initialised.
StStart(p) ==
    /\ pc[p] = "start" /\ ~ClientesHeld
    /\ Goto(p, IF close[p] THEN "end" ELSE "recv")
    /\ UNCHANGED <<tcbVars, ltsVars, semVars, todo, arg, joined, wakeupList,
                   close, clientVars, consoleVars>>

\* The loop's end: no more rounds once nothing is ready and endsuse is set.
StLoopTest(p) ==
    /\ pc[p] = "check" /\ todo[p] = <<>> /\ listMutex = None
    /\ LET stop == close[p] \/ (ready[p] = {} /\ endsuse) IN
       /\ close' = [close EXCEPT ![p] = stop]
       /\ Goto(p, IF stop THEN "end" ELSE "recv")
    /\ UNCHANGED <<tcbVars, ltsVars, semVars, todo, arg, joined, wakeupList,
                   clientVars, consoleVars>>

(* wakeup_threads() removes element i of a list that shrinks while i grows: *)
(* it takes every other wake-up and leaves the rest for its next call.      *)
Taken(list) == [i \in 1 .. (Len(list) + 1) \div 2 |-> list[2 * i - 1]]
\* Variants: the list emptied whatever was taken; list_get for list_remove.
Left_cleared(list) == <<>>
Left_kept(list) == list
Left(list)  == [i \in 1 .. Len(list) \div 2 |-> list[2 * i]]

StWakeupThreads(p) ==
    /\ pc[p] \in {"served", "empty", "unparked", "joinmiss"} /\ todo[p] = <<>>
    /\ LET taken == Taken(wakeupList[p]) IN
       todo' = [todo EXCEPT ![p] = [i \in DOMAIN taken |-> Wake(taken[i])]]
    /\ wakeupList' = [wakeupList EXCEPT ![p] = Left(@)]
    /\ Goto(p, CASE pc[p] = "served" -> "check"
                 [] pc[p] = "joinmiss" -> "join"
                 [] pc[p] = "empty" /\ wakeupList[p] = <<>> -> "park"
                 [] OTHER -> "sched")
    /\ UNCHANGED <<tcbVars, ltsVars, semVars, arg, joined, close, clientVars,
                   consoleVars>>
-----------------------------------------------------------------------------
(* SUSE_CREATE *)

\* Variant: no sem_post(&new_counter).
create_tcb_no_post(p, t) ==
    /\ list_mutex_locked(p) /\ ~ClientesHeld
    /\ state[t] = "none" /\ Owner[t] = p
    /\ state' = [state EXCEPT ![t] = "NEW"]
    /\ newList' = Append(newList, t)
    /\ listMutex' = None /\ jammed' = None
    /\ UNCHANGED <<ready, exec, blockedList, exitList, tcbCounter, available,
                   degree, newCounter>>

create_tcb(p, t) ==
    /\ list_mutex_locked(p) /\ ~ClientesHeld
    /\ state[t] = "none" /\ Owner[t] = p
    /\ state' = [state EXCEPT ![t] = "NEW"]
    /\ newList' = Append(newList, t)
    /\ newCounter' = newCounter + 1
    /\ listMutex' = None /\ jammed' = None
    /\ UNCHANGED <<ready, exec, blockedList, exitList, tcbCounter, available,
                   degree>>

StCreateMain(p) ==
    /\ pc[p] \in {"recv", "create"} /\ cur[p] = None
    /\ create_tcb(p, Main[p])
    /\ cur' = [cur EXCEPT ![p] = Main[p]]
    /\ Goto(p, "mainwait")
    /\ UNCHANGED <<lpc, current, mainLoaded, semVars, todo, arg, joined,
                   wakeupList, close, owes, consoleVars>>

StMainLoaded(p) ==
    /\ pc[p] = "mainwait" /\ mainLoaded[p]
    /\ todo' = [todo EXCEPT ![p] = <<Move(Main[p], "EXEC")>>]
    /\ Goto(p, "served")
    /\ UNCHANGED <<tcbVars, ltsVars, semVars, arg, joined, wakeupList, close,
                   clientVars, consoleVars>>

\* A program whose main exists, as hilolay_init leaves it, sends a request.
Running(p) == pc[p] = "recv" /\ cur[p] # None

StCreate(p) ==
    /\ pc[p] \in {"recv", "create"} /\ cur[p] # None
    /\ \E t \in ThreadsOf(p) \ {Main[p]} : create_tcb(p, t)
    /\ Goto(p, "served")
    /\ UNCHANGED <<lpc, current, mainLoaded, semVars, todo, arg, joined,
                   wakeupList, close, clientVars, consoleVars>>
-----------------------------------------------------------------------------
(* SUSE_SCHEDULE_NEXT *)

StAskNext(p) ==
    /\ Running(p)
    /\ Goto(p, "sched")
    /\ UNCHANGED <<tcbVars, ltsVars, semVars, todo, arg, joined, wakeupList,
                   close, clientVars, consoleVars>>

\* change_exec_tcb(); variant: the preempted thread moves and the chosen not.
change_exec_only_preempts(p, t) ==
    IF exec[p] = None THEN <<Move(t, "EXEC")>> ELSE <<Move(exec[p], "READY")>>
change_exec(p, t) ==
    (IF exec[p] = None THEN <<>> ELSE <<Move(exec[p], "READY")>>)
        \o <<Move(t, "EXEC")>>

\* schedule_next_for under the mutex.  Which thread has the best estimate
\* depends on measured times: any ready one, or the one that executes.
StSchedule(p) ==
    /\ pc[p] = "sched" /\ todo[p] = <<>> /\ listMutex = None
    /\ \/ /\ ready[p] = {} /\ exec[p] = None
          /\ Goto(p, "empty")
          /\ UNCHANGED todo
       \/ /\ \E t \in ready[p] :
                todo' = [todo EXCEPT ![p] = change_exec(p, t)]
          /\ Goto(p, "reply")
       \/ /\ exec[p] # None
          /\ Goto(p, "reply")
          /\ UNCHANGED todo
    /\ UNCHANGED <<tcbVars, ltsVars, semVars, arg, joined, wakeupList, close,
                   clientVars, consoleVars>>

\* wait_for_threads(): sem_wait and sem_post on tcb_counter.
StUnpark(p) ==
    /\ pc[p] = "park" /\ tcbCounter[p] > 0
    /\ Goto(p, "unparked")
    /\ UNCHANGED <<tcbVars, ltsVars, semVars, todo, arg, joined, wakeupList,
                   close, clientVars, consoleVars>>

\* notify_program()
StReply(p) ==
    /\ pc[p] = "reply" /\ todo[p] = <<>>
    /\ cur' = [cur EXCEPT ![p] = exec[p]]
    /\ owes' = [owes EXCEPT ![p] = FALSE]
    /\ Goto(p, "served")
    /\ UNCHANGED <<tcbVars, ltsVars, semVars, todo, arg, joined, wakeupList,
                   close, consoleVars>>
-----------------------------------------------------------------------------
(* SUSE_WAIT and SUSE_SIGNAL *)

\* A wait, a signal or a close in the name of a thread that does not execute
\* is dropped.
StReject(p) ==
    /\ Running(p) /\ exec[p] # None
    /\ Goto(p, "served")
    /\ UNCHANGED <<tcbVars, ltsVars, semVars, todo, arg, joined, wakeupList,
                   close, clientVars, consoleVars>>

\* The three compare the tid with that of program->exec, which may be NULL.
StCrash(p) ==
    /\ Running(p) /\ exec[p] = None
    /\ Goto(p, "crashed")
    /\ UNCHANGED <<tcbVars, ltsVars, semVars, todo, arg, joined, wakeupList,
                   close, clientVars, consoleVars>>

\* The two tests of semaforo->valor after it changed; variant: the last
\* blocked thread is forgotten.
must_block(v) == v < 0
must_wake_strict(v) == v < 0
must_wake(v) == v <= 0

StWait(p) ==
    /\ Running(p) /\ exec[p] # None
    /\ \E s \in Sem :
        /\ semMutex[s] = None
        /\ valor' = [valor EXCEPT ![s] = @ - 1]
        /\ IF must_block(valor'[s])
           THEN /\ semBlocked' = [semBlocked EXCEPT ![s] = Append(@, exec[p])]
                /\ semMutex' = [semMutex EXCEPT ![s] = p]
                /\ todo' = [todo EXCEPT ![p] = <<Move(exec[p], "BLOCKED")>>]
           ELSE UNCHANGED <<semBlocked, semMutex, todo>>
    /\ owes' = [owes EXCEPT ![p] = TRUE]
    /\ Goto(p, "served")
    /\ UNCHANGED <<tcbVars, ltsVars, arg, joined, wakeupList, close, cur,
                   consoleVars>>

StSignal(p) ==
    /\ Running(p) /\ exec[p] # None
    /\ \E s \in Sem :
        /\ semMutex[s] = None
        /\ valor' = [valor EXCEPT ![s] = @ + One(@ < SemMax[s])]
        /\ IF must_wake(valor'[s])
           THEN /\ arg' = [arg EXCEPT ![p] = Head(semBlocked[s])]
                /\ semBlocked' = [semBlocked EXCEPT ![s] = Tail(@)]
                /\ semMutex' = [semMutex EXCEPT ![s] = p]
                /\ Goto(p, "notify")
           ELSE /\ Goto(p, "served")
                /\ UNCHANGED <<arg, semBlocked, semMutex>>
    /\ UNCHANGED <<tcbVars, ltsVars, todo, joined, wakeupList, close,
                   clientVars, consoleVars>>

\* The signaller posts tcb_counter of the woken thread's program.
\* Variant: only the list is filled.
no_post_tcb_counter(p) == UNCHANGED tcbCounter
sem_post_tcb_counter(p) == tcbCounter' = [tcbCounter EXCEPT ![p] = @ + 1]

\* notify_wakeup(): to the list of the program whose thread wakes up.
StNotifyWakeup(p) ==
    /\ pc[p] = "notify" /\ ~ClientesHeld
    /\ LET target == Owner[arg[p]] IN
       /\ ~WakeupMutexHeld(target)
       /\ wakeupList' = [wakeupList EXCEPT ![target] = Append(@, arg[p])]
       /\ sem_post_tcb_counter(target)
    /\ semMutex' = [s \in Sem |-> IF semMutex[s] = p THEN None ELSE semMutex[s]]
    /\ arg' = [arg EXCEPT ![p] = None]
    /\ Goto(p, "served")
    /\ UNCHANGED <<state, listVars, available, degree, listMutex, jammed,
                   ltsVars, valor, semBlocked, todo, joined, close, clientVars,
                   consoleVars>>
-----------------------------------------------------------------------------
(* SUSE_JOIN, SUSE_CLOSE and the end of a connection *)

\* Any tid: also that of the thread that joins, or one never created.
StAskJoin(p) ==
    /\ Running(p)
    /\ \E t \in ThreadsOf(p) : arg' = [arg EXCEPT ![p] = t]
    /\ Goto(p, "join")
    /\ UNCHANGED <<tcbVars, ltsVars, semVars, todo, joined, wakeupList, close,
                   clientVars, consoleVars>>

\* suse_join's search: ready, exitList, blockedList; otherwise it wakes
\* threads up and searches again, without sleeping.  It uses program->exec
\* only once it has found the thread.
\* Variant: the blocked list is not searched.
joinable_ready(p, t) == t \in ready[p]
joinable(p, t) == t \in ready[p] \/ t \in blockedList

StJoin(p) ==
    /\ pc[p] = "join" /\ todo[p] = <<>> /\ listMutex = None
    /\ LET t == arg[p] IN
       \/ /\ joinable(p, t) /\ exec[p] # None
          /\ joined' = [joined EXCEPT ![t] = Append(@, exec[p])]
          /\ todo' = [todo EXCEPT ![p] = <<Move(exec[p], "BLOCKED")>>]
          /\ arg' = [arg EXCEPT ![p] = None]
          /\ owes' = [owes EXCEPT ![p] = TRUE]
          /\ Goto(p, "served")
       \/ /\ joinable(p, t) /\ exec[p] = None
          /\ Goto(p, "crashed")
          /\ UNCHANGED <<joined, todo, arg, owes>>
       \/ /\ ~joinable(p, t) /\ t \in exitList
          /\ arg' = [arg EXCEPT ![p] = None]
          /\ owes' = [owes EXCEPT ![p] = TRUE]
          /\ Goto(p, "served")
          /\ UNCHANGED <<joined, todo>>
       \/ /\ ~joinable(p, t) /\ t \notin exitList
          /\ Goto(p, "joinmiss")
          /\ UNCHANGED <<joined, todo, arg, owes>>
    /\ UNCHANGED <<tcbVars, ltsVars, semVars, wakeupList, close, cur,
                   consoleVars>>

\* unjoin_exec() and the move to EXIT; variant: to the wrong list.
close_calls_to_new(t) ==
    [i \in DOMAIN joined[t] |-> Move(joined[t][i], "NEW")]
        \o <<Move(t, "EXIT")>>

close_calls(t) ==
    [i \in DOMAIN joined[t] |-> Move(joined[t][i], "READY")]
        \o <<Move(t, "EXIT")>>

StClose(p) ==
    /\ Running(p) /\ exec[p] # None
    /\ todo' = [todo EXCEPT ![p] = close_calls(exec[p])]
    /\ owes' = [owes EXCEPT ![p] = TRUE]
    /\ Goto(p, "log")
    /\ UNCHANGED <<tcbVars, ltsVars, semVars, arg, joined, wakeupList, close,
                   cur, consoleVars>>

\* log_metrics() of the thread that ended: it only reads, under the mutex.
StLogMetrics(p) ==
    /\ pc[p] = "log" /\ todo[p] = <<>>
    /\ list_mutex_locked(p) /\ ~ClientesHeld
    /\ listMutex' = None /\ jammed' = None
    /\ Goto(p, "served")
    /\ UNCHANGED <<state, listVars, tcbCounter, available, degree, ltsVars,
                   semVars, todo, arg, joined, wakeupList, close, clientVars,
                   consoleVars>>

\* recibir_operacion returned -1.
StDisconnect(p) ==
    /\ pc[p] = "recv" /\ p \in MayLeave
    /\ close' = [close EXCEPT ![p] = TRUE]
    /\ Goto(p, "served")
    /\ UNCHANGED <<tcbVars, ltsVars, semVars, todo, arg, joined, wakeupList,
                   clientVars, consoleVars>>

\* The steps the server takes on its own, and those that read a request.
ShortTerm(p) ==
    \/ StMoveBegin(p) \/ StMoveEnd(p) \/ StStart(p) \/ StLoopTest(p)
    \/ StWakeupThreads(p) \/ StMainLoaded(p) \/ StSchedule(p) \/ StUnpark(p)
    \/ StReply(p) \/ StNotifyWakeup(p) \/ StJoin(p) \/ StJam(p)
    \/ StLogMetrics(p)

Request(p) ==
    \/ StCreateMain(p) \/ StCreate(p) \/ StAskNext(p) \/ StReject(p)
    \/ StCrash(p) \/ StWait(p) \/ StSignal(p) \/ StAskJoin(p) \/ StClose(p)
    \/ StDisconnect(p)
-----------------------------------------------------------------------------
(* The listener and the console. *)

\* create_program(): close is whatever malloc returned.
Accept(p) ==
    /\ listening /\ console \in {"readline", "ending"} /\ pc[p] = "none"
    /\ \E garbage \in BOOLEAN : close' = [close EXCEPT ![p] = garbage]
    /\ Goto(p, "start")
    /\ listening' = ~endsuse
    /\ UNCHANGED <<tcbVars, ltsVars, semVars, todo, arg, joined, wakeupList,
                   clientVars, endsuse, console>>

\* accept() fails once main has shut the server's socket down.
ListenerEnd ==
    /\ listening /\ console \notin {"readline", "ending"}
    /\ listening' = FALSE
    /\ UNCHANGED <<tcbVars, ltsVars, semVars, pc, todo, arg, joined,
                   wakeupList, close, clientVars, endsuse, console>>

Quit ==
    /\ MayQuit /\ console = "readline"
    /\ endsuse' = TRUE
    /\ console' = "ending"
    /\ UNCHANGED <<tcbVars, ltsVars, semVars, pc, todo, arg, joined,
                   wakeupList, close, clientVars, listening>>

\* The steps of join_threads().
ShutdownSocket ==
    /\ console = "ending"
    /\ console' = "joinlistener"
    /\ UNCHANGED <<tcbVars, ltsVars, semVars, pc, todo, arg, joined,
                   wakeupList, close, clientVars, endsuse, listening>>

\* The post that gets the long-term scheduler out of sem_wait, and a variant
\* without it.
no_last_post == UNCHANGED newCounter
last_post == newCounter' = newCounter + 1

JoinListener ==
    /\ console = "joinlistener" /\ ~listening
    /\ last_post
    /\ console' = "joinlts"
    /\ UNCHANGED <<tcbVars, lpc, current, mainLoaded, semVars, pc, todo, arg,
                   joined, wakeupList, close, clientVars, endsuse, listening>>

JoinLongTerm ==
    /\ console = "joinlts" /\ lpc = "done"
    /\ console' = "joinprograms"
    /\ UNCHANGED <<tcbVars, ltsVars, semVars, pc, todo, arg, joined,
                   wakeupList, close, clientVars, endsuse, listening>>

\* pthread_join on each short-term scheduler; variant: on none.
programs_detached == TRUE
programs_ended == \A p \in Program : pc[p] \in {"none", "end"}

JoinPrograms ==
    /\ console = "joinprograms" /\ programs_ended
    /\ console' = "ended"
    /\ UNCHANGED <<tcbVars, ltsVars, semVars, pc, todo, arg, joined,
                   wakeupList, close, clientVars, endsuse, listening>>

Ending ==
    ListenerEnd \/ ShutdownSocket \/ JoinListener \/ JoinLongTerm \/ JoinPrograms
-----------------------------------------------------------------------------
Init ==
    /\ TcbInit
    /\ newCounter = 0
    /\ lpc = "wait"
    /\ current = None
    /\ mainLoaded = [p \in Program |-> FALSE]
    /\ valor = SemInit
    /\ semBlocked = [s \in Sem |-> <<>>]
    /\ semMutex = [s \in Sem |-> None]
    /\ pc = [p \in Program |-> "none"]
    /\ todo = [p \in Program |-> <<>>]
    /\ arg = [p \in Program |-> None]
    /\ joined = [t \in Thread |-> <<>>]
    /\ wakeupList = [p \in Program |-> <<>>]
    /\ close = [p \in Program |-> FALSE]
    /\ cur = [p \in Program |-> None]
    /\ owes = [p \in Program |-> FALSE]
    /\ endsuse = FALSE
    /\ console = "readline"
    /\ listening = TRUE

Next ==
    /\ Alive
    /\ \/ LongTerm
       \/ \E p \in Program : ShortTerm(p) \/ Request(p) \/ Accept(p)
       \/ Ending \/ Quit

Spec == Init /\ [][Next]_vars
=============================================================================
