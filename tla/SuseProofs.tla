----------------------------- MODULE SuseProofs -----------------------------
(* Theorems about SuseScheduler, for every set of programs and threads,     *)
(* every MAX_MULTIPROG and every choice of semaphores.                      *)
EXTENDS SuseProperties, FiniteSetTheorems, TLAPS

-----------------------------------------------------------------------------
(* What the helpers return. *)

\* list_remove returns a list of the same threads, whatever it looks for.
LEMMA ListRemoveType ==
    ASSUME NEW S, NEW list \in Seq(S), NEW t
    PROVE  list_remove(list, t) \in Seq(S)
<1> DEFINE n == Len(list)
<1>1. CASE n = 0
  <2>1. 1 .. n - 1 = {} BY <1>1
  <2> QED BY <1>1, <2>1 DEF list_remove
<1>2. CASE n # 0
  <2>1. n - 1 \in Nat BY <1>2
  <2>2. \A i \in 1 .. n - 1 : list[i] \in S /\ list[i + 1] \in S BY <2>1
  <2> QED BY <2>1, <2>2 DEF list_remove
<1> QED BY <1>1, <1>2

\* Both halves of a wake-up list are lists of its threads.
LEMMA HalvesType ==
    ASSUME NEW S, NEW list \in Seq(S)
    PROVE  Taken(list) \in Seq(S) /\ Left(list) \in Seq(S)
<1> DEFINE n == Len(list)
<1>1. n \in Nat OBVIOUS
<1>2. n \div 2 \in Nat /\ (n + 1) \div 2 \in Nat BY <1>1
<1>3. \A i \in 1 .. (n + 1) \div 2 : 2 * i - 1 \in 1 .. n BY <1>1, <1>2
<1>4. \A i \in 1 .. n \div 2 : 2 * i \in 1 .. n BY <1>1, <1>2
<1>5. \A j \in 1 .. n : list[j] \in S OBVIOUS
<1>6. Taken(list) \in Seq(S)
  BY <1>2, <1>3, <1>5 DEF Taken
<1>7. Left(list) \in Seq(S)
  BY <1>2, <1>4, <1>5 DEF Left
<1> QED BY <1>6, <1>7

\* The calls wakeup_threads() makes are well formed, and so are those of the
\* other handlers.
LEMMA WakeCallsType ==
    ASSUME NEW list \in Seq(Thread)
    PROVE  [i \in DOMAIN list |-> Wake(list[i])] \in Seq(MoveCall)
<1>1. \A t \in Thread : Wake(t) \in MoveCall
  BY DEF Wake, MoveCall, Active
<1>2. DOMAIN list = 1 .. Len(list) /\ Len(list) \in Nat OBVIOUS
<1>3. \A i \in 1 .. Len(list) : list[i] \in Thread OBVIOUS
<1> QED BY <1>1, <1>2, <1>3

LEMMA MoveCallType ==
    ASSUME NEW t \in Thread, NEW dst \in Active \cup {"EXIT"}
    PROVE  Move(t, dst) \in MoveCall
BY DEF Move, MoveCall

LEMMA CloseCallsType ==
    ASSUME TypeOK, NEW t \in Thread
    PROVE  close_calls(t) \in Seq(MoveCall)
<1> DEFINE list == joined[t]
<1>1. list \in Seq(Thread) BY DEF TypeOK
<1>2. DOMAIN list = 1 .. Len(list) /\ Len(list) \in Nat BY <1>1
<1>3. \A i \in 1 .. Len(list) : list[i] \in Thread BY <1>1
<1>4. [i \in DOMAIN list |-> Move(list[i], "READY")] \in Seq(MoveCall)
  BY <1>2, <1>3, MoveCallType DEF Active
<1>5. <<Move(t, "EXIT")>> \in Seq(MoveCall)
  BY MoveCallType
<1> QED BY <1>4, <1>5 DEF close_calls

LEMMA ChangeExecType ==
    ASSUME TypeOK, NEW p \in Program, NEW t \in Thread
    PROVE  change_exec(p, t) \in Seq(MoveCall)
<1>1. exec[p] # None => Move(exec[p], "READY") \in MoveCall
  BY MoveCallType DEF TypeOK, TcbTypeOK, Active
<1>2. Move(t, "EXEC") \in MoveCall
  BY MoveCallType DEF Active
<1> QED BY <1>1, <1>2 DEF change_exec

-----------------------------------------------------------------------------
(* The type invariant.                                                      *)

\* A handler that keeps a thread over an unlock keeps one.
ArgIsKept ==
    \A p \in Program :
        pc[p] \in {"notify", "join", "joinmiss"} => arg[p] # None

CurrentIsKept == lpc \in {"move", "moving", "signal"} => current # None

\* SemQueueMatches is part of what makes TypeOK inductive: suse_signal takes
\* the head of a semaphore's queue without looking at its length.
TypeInv == TypeOK /\ SemQueueMatches /\ ArgIsKept /\ CurrentIsKept

LEMMA MoveBeginType ==
    ASSUME TcbTypeOK, NEW self \in Scheduler, NEW t \in Thread,
           NEW dst \in Active \cup {"EXIT"}, MoveBegin(self, t, dst)
    PROVE  TcbTypeOK'
<1> USE TcbAssumption DEF TcbTypeOK, Active, State
<1>1. newList' \in Seq(Thread)
  BY ListRemoveType DEF MoveBegin
<1>2. /\ ready' \in [Program -> SUBSET Thread]
      /\ exec' \in [Program -> Thread \cup {None}]
  BY DEF MoveBegin, program_remove_and_add, Only, exec_after
<1>3. tcbCounter' \in [Program -> Nat]
  BY DEF MoveBegin, program_remove_and_add, count_after, One
<1>4. /\ blockedList' \in SUBSET Thread
      /\ exitList' \in SUBSET Thread
  BY DEF MoveBegin, Only
<1>5. available' \in Nat /\ degree' \in Int
  BY DEF MoveBegin, decrease_multiprog, One
<1>6. /\ state' \in [Thread -> State] /\ listMutex' \in Scheduler \cup {None}
      /\ jammed' \in Program \cup {None}
  <2>0. jammed' = None
    BY DEF MoveBegin
  <2>1. CASE dst \in Active
    <3>1. listMutex' = self /\ state' = state
      BY <2>1 DEF MoveBegin
    <3> QED BY <2>0, <3>1
  <2>2. CASE dst \notin Active
    <3>1. listMutex' = None /\ state' = [state EXCEPT ![t] = dst]
      BY <2>2 DEF MoveBegin
    <3> QED BY <2>0, <3>1
  <2> QED BY <2>1, <2>2
<1> QED BY <1>1, <1>2, <1>3, <1>4, <1>5, <1>6

LEMMA MoveEndType ==
    ASSUME TcbTypeOK, NEW self \in Scheduler, NEW t \in Thread,
           NEW dst \in Active \cup {"EXIT"}, MoveEnd(self, t, dst),
           tcbCounter' \in [Program -> Nat]
    PROVE  TcbTypeOK'
<1> USE DEF TcbTypeOK, Active, State
<1>1. available' \in Nat /\ degree' \in Int
  BY DEF MoveEnd, increase_multiprog
<1>2. state' \in [Thread -> State] /\ listMutex' \in Scheduler \cup {None}
  BY DEF MoveEnd
<1> QED BY <1>1, <1>2 DEF MoveEnd, listVars

LEMMA CreateType ==
    ASSUME TypeOK, NEW p \in Program, NEW t \in Thread, create_tcb(p, t)
    PROVE  TcbTypeOK' /\ newCounter' \in Nat
<1>1. newList' \in Seq(Thread)
  BY DEF TypeOK, TcbTypeOK, create_tcb
<1> QED BY <1>1 DEF TypeOK, TcbTypeOK, create_tcb, State

LEMMA TypeInit == Init => TypeInv
<1> SUFFICES ASSUME Init PROVE TypeInv OBVIOUS
<1> USE TcbAssumption, SchedulerAssumption DEF Init, TcbInit
<1>1. TcbTypeOK
  BY DEF TcbTypeOK, State, Scheduler
<1>2. /\ newCounter \in Nat /\ lpc \in LtsPlace
      /\ current \in Thread \cup {None}
      /\ mainLoaded \in [Program -> BOOLEAN]
  BY DEF LtsPlace
<1>3. /\ valor \in [Sem -> Int] /\ semBlocked \in [Sem -> Seq(Thread)]
      /\ semMutex \in [Sem -> Program \cup {None}]
  OBVIOUS
<1>4. /\ pc \in [Program -> StPlace] /\ todo \in [Program -> Seq(MoveCall)]
      /\ arg \in [Program -> Thread \cup {None}]
      /\ joined \in [Thread -> Seq(Thread)]
      /\ wakeupList \in [Program -> Seq(Thread)]
      /\ close \in [Program -> BOOLEAN]
  BY DEF StPlace
<1>5. /\ cur \in [Program -> Thread \cup {None}]
      /\ owes \in [Program -> BOOLEAN]
      /\ endsuse \in BOOLEAN /\ console \in ConsolePlace
      /\ listening \in BOOLEAN
  BY DEF ConsolePlace
<1>6. SemQueueMatches /\ ArgIsKept /\ CurrentIsKept
  BY DEF SemQueueMatches, ArgIsKept, CurrentIsKept
<1> QED BY <1>1, <1>2, <1>3, <1>4, <1>5, <1>6 DEF TypeInv, TypeOK

\* The three handlers whose effect depends on a test after the change.
LEMMA WakeCountType ==
    ASSUME TypeOK, NEW p \in Program, StMoveEnd(p)
    PROVE  tcbCounter' \in [Program -> Nat]
<1>1. CASE todo[p][1].wake
  <2>1. /\ tcbCounter[p] > 0
        /\ tcbCounter' = [tcbCounter EXCEPT ![p] = @ - 1]
    BY <1>1 DEF StMoveEnd
  <2> QED BY <2>1 DEF TypeOK, TcbTypeOK
<1>2. CASE ~todo[p][1].wake
  BY <1>2 DEF StMoveEnd, TypeOK, TcbTypeOK
<1> QED BY <1>1, <1>2

LEMMA WaitType ==
    ASSUME TypeOK, SemQueueMatches, NEW p \in Program, StWait(p)
    PROVE  /\ valor' \in [Sem -> Int]
           /\ semBlocked' \in [Sem -> Seq(Thread)]
           /\ semMutex' \in [Sem -> Program \cup {None}]
           /\ todo' \in [Program -> Seq(MoveCall)]
           /\ SemQueueMatches'
<1> USE SchedulerAssumption
<1>1. exec[p] \in Thread
  BY TcbAssumption DEF TypeOK, TcbTypeOK, StWait
<1>2. <<Move(exec[p], "BLOCKED")>> \in Seq(MoveCall)
  BY <1>1, MoveCallType DEF Active
<1> PICK s \in Sem :
      /\ valor' = [valor EXCEPT ![s] = @ - 1]
      /\ IF must_block(valor'[s])
         THEN /\ semBlocked' = [semBlocked EXCEPT ![s] = Append(@, exec[p])]
              /\ semMutex' = [semMutex EXCEPT ![s] = p]
              /\ todo' = [todo EXCEPT ![p] = <<Move(exec[p], "BLOCKED")>>]
         ELSE UNCHANGED <<semBlocked, semMutex, todo>>
  BY DEF StWait
<1>3. valor \in [Sem -> Int] /\ valor' \in [Sem -> Int]
  BY DEF TypeOK
<1>4. semBlocked \in [Sem -> Seq(Thread)] /\ semBlocked[s] \in Seq(Thread)
  BY DEF TypeOK
<1>5. CASE must_block(valor'[s])
  <2>1. semBlocked' = [semBlocked EXCEPT ![s] = Append(@, exec[p])]
    BY <1>5
  <2>2. semBlocked' \in [Sem -> Seq(Thread)]
    BY <2>1, <1>1, <1>4
  <2>3. todo' \in [Program -> Seq(MoveCall)]
    BY <1>2, <1>5 DEF TypeOK
  <2>4. semMutex' \in [Sem -> Program \cup {None}]
    BY <1>5, ZenonT(60) DEF TypeOK
  <2>5. SemQueueMatches'
    BY <1>1, <1>3, <1>4, <1>5, <2>1, SMTT(60) DEF must_block, SemQueueMatches
  <2> QED BY <1>3, <2>2, <2>3, <2>4, <2>5
<1>6. CASE ~must_block(valor'[s])
  <2>1. SemQueueMatches'
    BY <1>3, <1>6 DEF must_block, SemQueueMatches
  <2> QED BY <1>3, <1>6, <2>1 DEF TypeOK
<1> QED BY <1>5, <1>6

LEMMA SignalType ==
    ASSUME TypeInv, NEW p \in Program, StSignal(p)
    PROVE  /\ valor' \in [Sem -> Int]
           /\ semBlocked' \in [Sem -> Seq(Thread)]
           /\ semMutex' \in [Sem -> Program \cup {None}]
           /\ arg' \in [Program -> Thread \cup {None}]
           /\ pc' \in [Program -> StPlace]
           /\ SemQueueMatches' /\ ArgIsKept'
<1> USE SchedulerAssumption
<1> PICK s \in Sem :
      /\ valor' = [valor EXCEPT ![s] = @ + One(@ < SemMax[s])]
      /\ IF must_wake(valor'[s])
         THEN /\ arg' = [arg EXCEPT ![p] = Head(semBlocked[s])]
              /\ semBlocked' = [semBlocked EXCEPT ![s] = Tail(@)]
              /\ semMutex' = [semMutex EXCEPT ![s] = p]
              /\ Goto(p, "notify")
         ELSE /\ Goto(p, "served")
              /\ UNCHANGED <<arg, semBlocked, semMutex>>
  BY DEF StSignal
<1>1. valor \in [Sem -> Int] /\ valor' \in [Sem -> Int]
  BY SMTT(60) DEF TypeInv, TypeOK, One
<1>2. semBlocked \in [Sem -> Seq(Thread)] /\ semBlocked[s] \in Seq(Thread)
  BY DEF TypeInv, TypeOK
<1>3. valor'[s] = IF valor[s] < SemMax[s] THEN valor[s] + 1 ELSE valor[s]
  BY <1>1 DEF One
<1>4. CASE must_wake(valor'[s])
  <2>1. /\ arg' = [arg EXCEPT ![p] = Head(semBlocked[s])]
        /\ semBlocked' = [semBlocked EXCEPT ![s] = Tail(@)]
        /\ semMutex' = [semMutex EXCEPT ![s] = p]
        /\ pc' = [pc EXCEPT ![p] = "notify"]
    BY <1>4 DEF Goto
  <2>2. valor[s] < 0 /\ valor'[s] = valor[s] + 1
    BY <1>1, <1>3, <1>4 DEF must_wake
  <2>3. Len(semBlocked[s]) = -valor[s]
    BY <2>2 DEF TypeInv, SemQueueMatches
  <2>4. /\ Head(semBlocked[s]) \in Thread
        /\ Tail(semBlocked[s]) \in Seq(Thread)
        /\ Len(Tail(semBlocked[s])) = Len(semBlocked[s]) - 1
    BY <1>1, <1>2, <2>2, <2>3, SMTT(60)
  <2>5. semBlocked' \in [Sem -> Seq(Thread)]
    BY <1>2, <2>1, <2>4, ZenonT(60)
  <2>6. /\ semMutex' \in [Sem -> Program \cup {None}]
        /\ arg' \in [Program -> Thread \cup {None}]
        /\ pc' \in [Program -> StPlace]
    BY <2>1, <2>4 DEF TypeInv, TypeOK, StPlace
  <2>7. SemQueueMatches'
    BY <1>1, <1>2, <2>1, <2>2, <2>3, <2>4, SMTT(60) DEF TypeInv, SemQueueMatches, One
  <2>8. ArgIsKept'
    BY <2>1, <2>4, TcbAssumption, ZenonT(60) DEF TypeInv, TypeOK, ArgIsKept
  <2> QED BY <1>1, <2>5, <2>6, <2>7, <2>8
<1>5. CASE ~must_wake(valor'[s])
  <2>1. /\ pc' = [pc EXCEPT ![p] = "served"]
        /\ UNCHANGED <<arg, semBlocked, semMutex>>
    BY <1>5 DEF Goto
  <2>2. valor[s] >= 0
    BY <1>1, <1>3, <1>5 DEF must_wake
  <2>3. SemQueueMatches'
    BY <1>1, <1>2, <1>3, <2>1, <2>2 DEF TypeInv, SemQueueMatches, One
  <2>4. ArgIsKept' /\ pc' \in [Program -> StPlace]
    BY <2>1 DEF TypeInv, TypeOK, ArgIsKept, StPlace
  <2> QED BY <1>1, <2>1, <2>3, <2>4 DEF TypeInv, TypeOK
<1> QED BY <1>4, <1>5

LEMMA TypeLongTerm ==
    ASSUME TypeInv, LongTerm
    PROVE  TypeInv'
<1> USE TcbAssumption, SchedulerAssumption
    DEF TypeInv, TypeOK, ArgIsKept, CurrentIsKept, SemQueueMatches, tcbVars,
        listVars, semVars, clientVars, consoleVars, LtsPlace, LtsNext
<1>1. CASE LtsTake BY <1>1 DEF LtsTake, TcbTypeOK
<1>2. CASE LtsStop BY <1>2 DEF LtsStop, TcbTypeOK
<1>3. CASE LtsCheckWait BY <1>3, SMTT(60) DEF LtsCheckWait, TcbTypeOK
<1>4. CASE LtsCheckPost BY <1>4, SMTT(60) DEF LtsCheckPost, TcbTypeOK
<1>5. CASE LtsMoveBegin
  <2>1. TcbTypeOK'
    BY <1>5, MoveBeginType DEF LtsMoveBegin, Scheduler, Active
  <2> QED BY <1>5, <2>1 DEF LtsMoveBegin
<1>6. CASE LtsMoveEnd
  <2>1. TcbTypeOK'
    BY <1>6, MoveEndType DEF LtsMoveEnd, Scheduler, Active, TcbTypeOK
  <2> QED BY <1>6, <2>1 DEF LtsMoveEnd
<1>7. CASE LtsSignalMain BY <1>7 DEF LtsSignalMain, TcbTypeOK
<1> QED BY <1>1, <1>2, <1>3, <1>4, <1>5, <1>6, <1>7 DEF LongTerm

\* A step of a short-term scheduler that changes only where it is, the moves
\* it will make and the wake-ups left to it.
LEMMA TypePlace ==
    ASSUME TypeInv, NEW p \in Program,
           NEW place \in StPlace, Goto(p, place),
           place \in {"notify", "join", "joinmiss"} => arg[p] # None,
           todo' \in [Program -> Seq(MoveCall)],
           wakeupList' \in [Program -> Seq(Thread)],
           UNCHANGED <<tcbVars, ltsVars, semVars, arg, joined, close, clientVars,
                       consoleVars>>
    PROVE  TypeInv'
<1>1. TcbTypeOK'
  BY SMTT(60) DEF TypeInv, TypeOK, TcbTypeOK, tcbVars, listVars
<1>2. pc' \in [Program -> StPlace] /\ ArgIsKept'
  BY DEF TypeInv, TypeOK, ArgIsKept, Goto
<1>3. TypeOK'
  BY <1>1, <1>2 DEF TypeInv, TypeOK, ltsVars, semVars, clientVars, consoleVars
<1>4. SemQueueMatches' /\ CurrentIsKept'
  BY DEF TypeInv, SemQueueMatches, CurrentIsKept, semVars, ltsVars
<1> QED BY <1>2, <1>3, <1>4 DEF TypeInv

LEMMA TypeJam ==
    ASSUME TypeInv, NEW p \in Program, StJam(p)
    PROVE  TypeInv'
<1>1. /\ UNCHANGED <<state, listVars, tcbCounter, available, degree>>
      /\ UNCHANGED <<ltsVars, semVars, todo, arg, joined, wakeupList, close>>
      /\ UNCHANGED <<clientVars, consoleVars>>
      /\ listMutex' = p /\ jammed' = p
      /\ pc' = pc \/ pc' = [pc EXCEPT ![p] = "create"]
  BY DEF StJam, Goto
<1>2. TcbTypeOK'
  BY <1>1 DEF TypeInv, TypeOK, TcbTypeOK, Scheduler, listVars
<1>3. pc' \in [Program -> StPlace] /\ ArgIsKept'
  <2>1. CASE pc' = pc
    BY <1>1, <2>1 DEF TypeInv, TypeOK, ArgIsKept
  <2>2. CASE pc' = [pc EXCEPT ![p] = "create"]
    BY <1>1, <2>2 DEF TypeInv, TypeOK, ArgIsKept, StPlace
  <2> QED BY <1>1, <2>1, <2>2
<1>4. TypeOK'
  BY <1>1, <1>2, <1>3 DEF TypeInv, TypeOK, ltsVars, semVars, clientVars, consoleVars
<1>5. SemQueueMatches' /\ CurrentIsKept'
  BY <1>1 DEF TypeInv, SemQueueMatches, CurrentIsKept, semVars, ltsVars
<1> QED BY <1>3, <1>4, <1>5 DEF TypeInv

LEMMA TypeShortTerm ==
    ASSUME TypeInv, NEW p \in Program, ShortTerm(p)
    PROVE  TypeInv'
<1>0. CASE StJam(p) BY <1>0, TypeJam
<1> USE TcbAssumption, SchedulerAssumption
    DEF TypeInv, TypeOK, ArgIsKept, CurrentIsKept, SemQueueMatches, tcbVars,
        ltsVars, listVars, semVars, clientVars, consoleVars, Goto, StPlace
<1>1. CASE StMoveBegin(p)
  <2>1. todo[p][1] \in MoveCall
    BY <1>1 DEF StMoveBegin
  <2>2. TcbTypeOK'
    BY <1>1, <2>1, MoveBeginType DEF StMoveBegin, Scheduler, MoveCall
  <2>3. todo' \in [Program -> Seq(MoveCall)]
    BY <1>1 DEF StMoveBegin
  <2> QED BY <1>1, <2>2, <2>3 DEF StMoveBegin
<1>2. CASE StMoveEnd(p)
  <2>1. todo[p][1] \in MoveCall
    BY <1>2 DEF StMoveEnd
  <2>2. tcbCounter' \in [Program -> Nat]
    BY <1>2, WakeCountType
  <2>3. TcbTypeOK'
    BY <1>2, <2>1, <2>2, MoveEndType DEF StMoveEnd, Scheduler, MoveCall
  <2> QED BY <1>2, <2>3 DEF StMoveEnd
<1>3. CASE StStart(p) BY <1>3, ZenonT(60) DEF StStart, TcbTypeOK
<1>4. CASE StLoopTest(p) BY <1>4, ZenonT(60) DEF StLoopTest, TcbTypeOK
<1>5. CASE StWakeupThreads(p)
  <2> DEFINE list == wakeupList[p]
  <2>1. Taken(list) \in Seq(Thread) /\ Left(list) \in Seq(Thread)
    BY HalvesType
  <2>2. [i \in DOMAIN Taken(list) |-> Wake(Taken(list)[i])] \in Seq(MoveCall)
    BY <2>1, WakeCallsType
  <2>3. todo' \in [Program -> Seq(MoveCall)]
    BY <1>5, <2>2 DEF StWakeupThreads
  <2>4. wakeupList' \in [Program -> Seq(Thread)]
    BY <1>5, <2>1 DEF StWakeupThreads
  <2> HIDE DEF list
  <2>5. PICK place \in {"check", "join", "park", "sched"} :
            Goto(p, place) /\ (place = "join" => pc[p] = "joinmiss")
    BY <1>5 DEF StWakeupThreads
  <2> QED BY <1>5, <2>3, <2>4, <2>5, TypePlace DEF StWakeupThreads
<1>6. CASE StMainLoaded(p)
  <2>1. Move(Main[p], "EXEC") \in MoveCall
    BY MoveCallType DEF Active
  <2>2. todo' \in [Program -> Seq(MoveCall)]
    BY <1>6, <2>1, SMTT(60) DEF StMainLoaded
  <2> QED BY <1>6, <2>2, SMTT(60) DEF StMainLoaded, TcbTypeOK
<1>7. CASE StSchedule(p)
  <2>1. \A t \in ready[p] : change_exec(p, t) \in Seq(MoveCall)
    BY ChangeExecType DEF TcbTypeOK
  <2>2. todo' \in [Program -> Seq(MoveCall)]
    <3>1. CASE UNCHANGED todo
      BY <3>1
    <3>2. ASSUME NEW t \in ready[p], todo' = [todo EXCEPT ![p] = change_exec(p, t)]
          PROVE  todo' \in [Program -> Seq(MoveCall)]
      BY <2>1, <3>2
    <3> QED BY <1>7, <3>1, <3>2 DEF StSchedule
  <2>3. PICK place \in {"empty", "reply"} : Goto(p, place)
    BY <1>7 DEF StSchedule
  <2>4. wakeupList' \in [Program -> Seq(Thread)]
    BY <1>7 DEF StSchedule
  <2> QED BY <1>7, <2>2, <2>3, <2>4, TypePlace DEF StSchedule
<1>8. CASE StUnpark(p) BY <1>8, ZenonT(60) DEF StUnpark, TcbTypeOK
<1>9. CASE StReply(p) BY <1>9 DEF StReply, TcbTypeOK
<1>10. CASE StNotifyWakeup(p)
  <2>1. TcbTypeOK'
    BY <1>10, SMTT(60) DEF StNotifyWakeup, sem_post_tcb_counter, TcbTypeOK
  <2> QED BY <1>10, <2>1 DEF StNotifyWakeup
<1>11. CASE StJoin(p)
  <2> DEFINE t == arg[p]
  <2>1. CASE /\ joinable(p, t) /\ exec[p] # None
             /\ joined' = [joined EXCEPT ![t] = Append(@, exec[p])]
             /\ todo' = [todo EXCEPT ![p] = <<Move(exec[p], "BLOCKED")>>]
             /\ arg' = [arg EXCEPT ![p] = None]
             /\ owes' = [owes EXCEPT ![p] = TRUE]
             /\ Goto(p, "served")
    <3>1. exec[p] \in Thread /\ t \in Thread
      BY <1>11, <2>1 DEF StJoin, TcbTypeOK
    <3>2. todo' \in [Program -> Seq(MoveCall)]
      BY <2>1, <3>1, MoveCallType DEF Active
    <3>3. joined' \in [Thread -> Seq(Thread)]
      BY <2>1, <3>1
    <3> QED BY <1>11, <2>1, <3>2, <3>3, ZenonT(60) DEF StJoin, TcbTypeOK
  <2>2. CASE UNCHANGED <<joined, todo>> /\ arg' = [arg EXCEPT ![p] = None]
               /\ owes' = [owes EXCEPT ![p] = TRUE] /\ Goto(p, "served")
    BY <1>11, <2>2, SMTT(60) DEF StJoin, TcbTypeOK
  <2>3. CASE UNCHANGED <<joined, todo, arg, owes>>
               /\ (Goto(p, "joinmiss") \/ Goto(p, "crashed"))
    <3>1. PICK place \in {"joinmiss", "crashed"} : Goto(p, place)
      BY <2>3
    <3>2. /\ todo' \in [Program -> Seq(MoveCall)]
          /\ wakeupList' \in [Program -> Seq(Thread)]
          /\ arg[p] # None
      BY <1>11, <2>3 DEF StJoin
    <3> QED BY <1>11, <2>3, <3>1, <3>2, TypePlace DEF StJoin
  <2> QED BY <1>11, <2>1, <2>2, <2>3 DEF StJoin
<1>12. CASE StLogMetrics(p) BY <1>12, ZenonT(60) DEF StLogMetrics, TcbTypeOK
<1> QED BY <1>0, <1>1, <1>2, <1>3, <1>4, <1>5, <1>6, <1>7, <1>8, <1>9, <1>10,
           <1>11, <1>12 DEF ShortTerm

LEMMA TypeRequest ==
    ASSUME TypeInv, NEW p \in Program, Request(p)
    PROVE  TypeInv'
<1> USE TcbAssumption, SchedulerAssumption
    DEF TypeInv, TypeOK, ArgIsKept, CurrentIsKept, SemQueueMatches, tcbVars,
        ltsVars, listVars, semVars, clientVars, consoleVars, Goto, StPlace
<1>1. CASE StCreateMain(p)
  <2>1. TcbTypeOK' /\ newCounter' \in Nat
    BY <1>1, CreateType DEF StCreateMain
  <2> QED BY <1>1, <2>1 DEF StCreateMain
<1>2. CASE StCreate(p)
  <2>1. TcbTypeOK' /\ newCounter' \in Nat
    BY <1>2, CreateType DEF StCreate, ThreadsOf
  <2> QED BY <1>2, <2>1 DEF StCreate
<1>3. CASE StAskNext(p) BY <1>3, ZenonT(60) DEF StAskNext, TcbTypeOK
<1>4. CASE StReject(p) BY <1>4 DEF StReject, TcbTypeOK
<1>5. CASE StWait(p)
  <2>1. /\ UNCHANGED <<tcbVars, ltsVars, arg, joined, wakeupList, close, cur>>
        /\ UNCHANGED consoleVars
        /\ owes' = [owes EXCEPT ![p] = TRUE]
        /\ pc' = [pc EXCEPT ![p] = "served"]
    BY <1>5 DEF StWait
  <2> QED BY <1>5, <2>1, WaitType, ZenonT(60) DEF TcbTypeOK
<1>6. CASE StSignal(p)
  <2>1. /\ UNCHANGED <<tcbVars, ltsVars, todo, joined, wakeupList, close>>
        /\ UNCHANGED <<clientVars, consoleVars>>
    BY <1>6 DEF StSignal
  <2> QED BY <1>6, <2>1, SignalType, ZenonT(60) DEF TcbTypeOK
<1>7. CASE StAskJoin(p) BY <1>7, SMTT(60) DEF StAskJoin, ThreadsOf, TcbTypeOK
<1>8. CASE StClose(p)
  <2>1. exec[p] \in Thread
    BY <1>8 DEF StClose, TcbTypeOK
  <2>2. todo' \in [Program -> Seq(MoveCall)]
    BY <1>8, <2>1, CloseCallsType DEF StClose
  <2> QED BY <1>8, <2>2, SMTT(60) DEF StClose, TcbTypeOK
<1>9. CASE StDisconnect(p) BY <1>9 DEF StDisconnect, TcbTypeOK
<1>10. CASE StCrash(p) BY <1>10, ZenonT(60) DEF StCrash, TcbTypeOK
<1> QED BY <1>1, <1>2, <1>3, <1>4, <1>5, <1>6, <1>7, <1>8, <1>9, <1>10 DEF Request

LEMMA TypeConsole ==
    ASSUME TypeInv, Ending \/ Quit \/ \E p \in Program : Accept(p)
    PROVE  TypeInv'
<1> USE DEF TypeInv, TypeOK, TcbTypeOK, ArgIsKept, CurrentIsKept,
            SemQueueMatches, tcbVars, ltsVars, listVars, semVars, clientVars,
            consoleVars, Goto, StPlace, ConsolePlace
<1>1. CASE Quit BY <1>1 DEF Quit
<1>2. CASE ListenerEnd BY <1>2, ZenonT(60) DEF ListenerEnd
<1>3. CASE ShutdownSocket BY <1>3 DEF ShutdownSocket
<1>4. CASE JoinListener BY <1>4 DEF JoinListener, last_post
<1>5. CASE JoinLongTerm BY <1>5 DEF JoinLongTerm
<1>6. CASE JoinPrograms BY <1>6 DEF JoinPrograms
<1>7. ASSUME NEW p \in Program, Accept(p) PROVE TypeInv' BY <1>7 DEF Accept
<1> QED BY <1>1, <1>2, <1>3, <1>4, <1>5, <1>6, <1>7 DEF Ending

LEMMA TypeStep == TypeInv /\ [Next]_vars => TypeInv'
<1> SUFFICES ASSUME TypeInv, [Next]_vars PROVE TypeInv' OBVIOUS
<1>1. CASE LongTerm BY <1>1, TypeLongTerm
<1>2. CASE \E p \in Program : ShortTerm(p) \/ Request(p)
  BY <1>2, TypeShortTerm, TypeRequest
<1>3. CASE Ending \/ Quit \/ \E p \in Program : Accept(p)
  BY <1>3, TypeConsole
<1>4. CASE UNCHANGED vars
  BY <1>4 DEF TypeInv, TypeOK, TcbTypeOK, ArgIsKept, CurrentIsKept,
              SemQueueMatches, vars, tcbVars, ltsVars, listVars, semVars,
              clientVars, consoleVars
<1> QED BY <1>1, <1>2, <1>3, <1>4 DEF Next

\* The strengthened type invariant holds in every reachable state.
THEOREM TypeCorrect == Spec => []TypeInv
BY TypeInit, TypeStep, PTL DEF Spec

\* Every variable of the server keeps its type: no move takes a NULL thread,
\* and no semaphore of the operating system falls below zero.
THEOREM TypesHold == Spec => []TypeOK
BY TypeCorrect, PTL DEF TypeInv

\* No suse_signal takes the head of an empty queue, and no semaphore passes
\* its maximum.
THEOREM SemQueuesHold == Spec => []SemQueueMatches
BY TypeCorrect, PTL DEF TypeInv

-----------------------------------------------------------------------------
(* The multiprogramming degree: the slots of available_multiprog and the    *)
(* threads that hold them, and what follows from who sleeps in move_tcb_to. *)

\* Places of a short-term scheduler with no move under way.
IdlePlace == {"none", "start", "recv", "mainwait", "empty", "park", "unparked",
              "notify", "joinmiss", "end", "create", "crashed"}

MoverIsKnown ==
    /\ listMutex = Lts <=> lpc = "moving"
    /\ jammed # None => listMutex = jammed /\ console = "joinprograms"
    /\ \A p \in Program :
        /\ listMutex = p /\ jammed = None
               => todo[p] # <<>> /\ todo[p][1].to \in Active
        /\ jammed = p => todo[p] # <<>> \/ pc[p] \in {"create", "log"}
        /\ pc[p] = "create" => jammed = p
        /\ pc[p] \in IdlePlace => todo[p] = <<>>

LEMMA MoverInit == Init => MoverIsKnown
BY TcbAssumption DEF Init, TcbInit, MoverIsKnown

\* Nobody is jammed while clientes_mutex is free, so whoever then locks
\* state_list_mutex finds it free: none of the waits of StJam ever ends.
LEMMA LocksWhenFree ==
    ASSUME MoverIsKnown, NEW p \in Program, ~ClientesHeld, list_mutex_locked(p)
    PROVE  listMutex = None /\ jammed = None
BY TcbAssumption DEF MoverIsKnown, ClientesHeld, list_mutex_locked

LEMMA LtsLocksWhenFree ==
    ASSUME TypeInv, MoverIsKnown, list_mutex_locked(Lts)
    PROVE  listMutex = None /\ jammed = None
BY TcbAssumption DEF MoverIsKnown, list_mutex_locked, TypeInv, TypeOK, TcbTypeOK

LEMMA MoverLongTerm ==
    ASSUME TypeInv, MoverIsKnown, LongTerm
    PROVE  MoverIsKnown'
<1> USE TcbAssumption
    DEF TypeInv, TypeOK, TcbTypeOK, MoverIsKnown, tcbVars, listVars, semVars, clientVars,
        consoleVars, LtsNext, Active
<1>1. CASE LtsTake BY <1>1 DEF LtsTake
<1>2. CASE LtsStop BY <1>2 DEF LtsStop
<1>3. CASE LtsCheckWait BY <1>3 DEF LtsCheckWait
<1>4. CASE LtsCheckPost BY <1>4 DEF LtsCheckPost
<1>5. CASE LtsMoveBegin
  <2>1. listMutex = None /\ jammed = None
    BY <1>5, LtsLocksWhenFree DEF LtsMoveBegin, MoveBegin
  <2> QED BY <1>5, <2>1, SMTT(60) DEF LtsMoveBegin, MoveBegin
<1>6. CASE LtsMoveEnd BY <1>6, SMTT(60) DEF LtsMoveEnd, MoveEnd
<1>7. CASE LtsSignalMain BY <1>7 DEF LtsSignalMain
<1> QED BY <1>1, <1>2, <1>3, <1>4, <1>5, <1>6, <1>7 DEF LongTerm

\* A step of a scheduler that does not hold state_list_mutex.
LEMMA MoverElsewhere ==
    ASSUME MoverIsKnown, NEW p \in Program, listMutex # p,
           UNCHANGED <<listMutex, jammed, lpc, console>>,
           \A r \in Program \ {p} : todo'[r] = todo[r] /\ pc'[r] = pc[r],
           pc'[p] # "create",
           pc'[p] \in IdlePlace => todo'[p] = <<>>
    PROVE  MoverIsKnown'
<1>1. /\ (listMutex = Lts <=> lpc = "moving")'
      /\ jammed' # None => listMutex' = jammed' /\ console' = "joinprograms"
      /\ jammed # p
  BY TcbAssumption DEF MoverIsKnown
<1>2. ASSUME NEW r \in Program \ {p}
      PROVE  /\ listMutex' = r /\ jammed' = None
                    => todo'[r] # <<>> /\ todo'[r][1].to \in Active
             /\ jammed' = r => todo'[r] # <<>> \/ pc'[r] \in {"create", "log"}
             /\ pc'[r] = "create" => jammed' = r
             /\ pc'[r] \in IdlePlace => todo'[r] = <<>>
  BY <1>2 DEF MoverIsKnown
<1> QED BY <1>1, <1>2 DEF MoverIsKnown

LEMMA MoverShortTerm ==
    ASSUME TypeInv, MoverIsKnown, NEW p \in Program, ShortTerm(p)
    PROVE  MoverIsKnown'
<1> USE TcbAssumption
    DEF TypeInv, TypeOK, TcbTypeOK, MoverIsKnown, tcbVars, listVars, ltsVars, semVars,
        clientVars, consoleVars, Goto, IdlePlace
<1>1. CASE StMoveBegin(p)
  <2> DEFINE to == todo[p][1].to
  <2>0. list_mutex_locked(p) /\ ~ClientesHeld
    BY <1>1 DEF StMoveBegin, MoveBegin
  <2>1. /\ listMutex = None /\ jammed = None /\ jammed' = None /\ todo[p] # <<>>
        /\ UNCHANGED <<lpc, console, pc>>
    <3>1. listMutex = None /\ jammed = None
      BY <2>0, LocksWhenFree
    <3> QED BY <1>1, <3>1 DEF StMoveBegin, MoveBegin
  <2>2. \A r \in Program \ {p} : todo'[r] = todo[r]
    BY <1>1 DEF StMoveBegin
  <2>3. pc[p] \notin IdlePlace
    BY <2>1
  <2>4. CASE to \in Active
    <3>1. listMutex' = p
      BY <1>1, <2>4 DEF StMoveBegin, MoveBegin
    <3>2. todo'[p] = todo[p]
      BY <1>1, <2>4, ZenonT(60) DEF StMoveBegin, Active
    <3> QED BY <2>1, <2>2, <2>3, <2>4, <3>1, <3>2, SMTT(60)
  <2>5. CASE to \notin Active
    <3>1. listMutex' = listMutex /\ jammed' = jammed
      BY <1>1, <2>1, <2>5 DEF StMoveBegin, MoveBegin
    <3>2. listMutex # p /\ pc'[p] # "create"
      BY <2>1, <2>3
    <3> HIDE DEF to, MoverIsKnown, IdlePlace
    <3> QED BY <2>1, <2>2, <2>3, <3>1, <3>2, MoverElsewhere
  <2> QED BY <2>4, <2>5
<1>2. CASE StMoveEnd(p) BY <1>2, SMTT(60) DEF StMoveEnd, MoveEnd
<1>3. CASE StStart(p) BY <1>3, SMTT(60) DEF StStart
<1>4. CASE StLoopTest(p) BY <1>4, SMTT(60) DEF StLoopTest
<1>5. CASE StWakeupThreads(p)
  <2> DEFINE taken == Taken(wakeupList[p])
  <2>1. wakeupList[p] = <<>> => taken = <<>>
    BY DEF Taken
  <2>2. todo'[p] = [i \in DOMAIN taken |-> Wake(taken[i])]
    BY <1>5 DEF StWakeupThreads
  <2>3. wakeupList[p] = <<>> => todo'[p] = <<>>
    BY <2>1, <2>2
  <2>4. pc'[p] \in IdlePlace => wakeupList[p] = <<>>
    BY <1>5 DEF StWakeupThreads
  <2>5. listMutex # p /\ pc'[p] # "create"
    <3>1. todo[p] = <<>> /\ pc[p] \notin {"create", "log"} /\ pc'[p] # "create"
      BY <1>5 DEF StWakeupThreads
    <3> QED BY <3>1, SMTT(60)
  <2>6. \A r \in Program \ {p} : todo'[r] = todo[r] /\ pc'[r] = pc[r]
    BY <1>5 DEF StWakeupThreads
  <2>7. UNCHANGED <<listMutex, jammed, lpc, console>>
    BY <1>5 DEF StWakeupThreads
  <2> HIDE DEF MoverIsKnown, IdlePlace, taken
  <2> QED BY <2>3, <2>4, <2>5, <2>6, <2>7, MoverElsewhere
<1>6. CASE StMainLoaded(p) BY <1>6, SMTT(60) DEF StMainLoaded
<1>7. CASE StSchedule(p)
  <2>1. /\ todo[p] = <<>> /\ listMutex = None
        /\ UNCHANGED <<listMutex, jammed, lpc, console>>
    BY <1>7 DEF StSchedule
  <2>2. (pc'[p] = "empty" /\ todo' = todo) \/ pc'[p] = "reply"
    BY <1>7 DEF StSchedule
  <2>3. \A r \in Program \ {p} : todo'[r] = todo[r] /\ pc'[r] = pc[r]
    BY <1>7 DEF StSchedule
  <2>4. pc'[p] # "create" /\ (pc'[p] \in IdlePlace => todo'[p] = <<>>) /\ listMutex # p
    BY <2>1, <2>2, ZenonT(60)
  <2> HIDE DEF MoverIsKnown, IdlePlace
  <2> QED BY <2>1, <2>3, <2>4, MoverElsewhere
<1>8. CASE StUnpark(p) BY <1>8, SMTT(60) DEF StUnpark
<1>9. CASE StReply(p) BY <1>9 DEF StReply
<1>10. CASE StNotifyWakeup(p) BY <1>10 DEF StNotifyWakeup
<1>11. CASE StJoin(p)
  <2>1. /\ todo[p] = <<>> /\ listMutex = None
        /\ UNCHANGED <<listMutex, jammed, lpc, console>>
    BY <1>11 DEF StJoin
  <2>2. (pc'[p] \in {"joinmiss", "crashed"} /\ todo' = todo) \/ pc'[p] = "served"
    BY <1>11 DEF StJoin
  <2>3. \A r \in Program \ {p} : todo'[r] = todo[r] /\ pc'[r] = pc[r]
    BY <1>11 DEF StJoin
  <2>4. pc'[p] # "create" /\ (pc'[p] \in IdlePlace => todo'[p] = <<>>) /\ listMutex # p
    BY <2>1, <2>2, ZenonT(60)
  <2> HIDE DEF MoverIsKnown, IdlePlace
  <2> QED BY <2>1, <2>3, <2>4, MoverElsewhere
<1>12. CASE StJam(p) BY <1>12, SMTT(60) DEF StJam, ClientesHeld
<1>13. CASE StLogMetrics(p)
  <2>1. listMutex = None /\ jammed = None
    BY <1>13, LocksWhenFree DEF StLogMetrics
  <2> QED BY <1>13, <2>1, SMTT(60) DEF StLogMetrics
<1> QED BY <1>1, <1>2, <1>3, <1>4, <1>5, <1>6, <1>7, <1>8, <1>9, <1>10, <1>11,
           <1>12, <1>13 DEF ShortTerm

LEMMA MoverRequest ==
    ASSUME TypeInv, MoverIsKnown, NEW p \in Program, Request(p)
    PROVE  MoverIsKnown'
<1> USE TcbAssumption
    DEF TypeInv, TypeOK, TcbTypeOK, MoverIsKnown, tcbVars, listVars, ltsVars, semVars,
        clientVars, consoleVars, Goto, IdlePlace, Running
<1>0. ASSUME NEW t \in Thread, create_tcb(p, t)
      PROVE  listMutex = None /\ jammed = None
  BY <1>0, LocksWhenFree DEF create_tcb
<1>1. CASE StCreateMain(p)
  <2>1. listMutex = None /\ jammed = None
    BY <1>0, <1>1 DEF StCreateMain
  <2> QED BY <1>1, <2>1, SMTT(60) DEF StCreateMain, create_tcb
<1>2. CASE StCreate(p)
  <2>1. listMutex = None /\ jammed = None
    BY <1>0, <1>2 DEF StCreate, ThreadsOf
  <2> QED BY <1>2, <2>1, SMTT(60) DEF StCreate, create_tcb
<1>3. CASE StAskNext(p) BY <1>3 DEF StAskNext
<1>4. CASE StReject(p) BY <1>4 DEF StReject
<1>5. CASE StWait(p)
  <2>1. listMutex # p /\ pc'[p] = "served"
    BY <1>5 DEF StWait
  <2>2. \A r \in Program \ {p} : todo'[r] = todo[r] /\ pc'[r] = pc[r]
    BY <1>5, ZenonT(60) DEF StWait
  <2>3. UNCHANGED <<listMutex, jammed, lpc, console>>
    BY <1>5 DEF StWait
  <2>4. pc'[p] # "create" /\ pc'[p] \notin IdlePlace
    BY <2>1
  <2> HIDE DEF MoverIsKnown, IdlePlace
  <2> QED BY <2>1, <2>2, <2>3, <2>4, MoverElsewhere
<1>6. CASE StSignal(p)
  <2>0. pc[p] = "recv" /\ todo[p] = <<>> /\ listMutex # p
    BY <1>6 DEF StSignal
  <2>1. listMutex # p /\ pc'[p] \in {"notify", "served"} /\ todo[p] = <<>>
    <3>1. PICK place \in {"notify", "served"} : pc' = [pc EXCEPT ![p] = place]
      BY <1>6, ZenonT(60) DEF StSignal
    <3> QED BY <2>0, <3>1
  <2>2. \A r \in Program \ {p} : pc'[r] = pc[r]
    BY <1>6, SMTT(60) DEF StSignal
  <2>3. UNCHANGED <<listMutex, jammed, lpc, console, todo>>
    BY <1>6 DEF StSignal
  <2>4. pc'[p] # "create" /\ todo'[p] = <<>>
    BY <2>1, <2>3
  <2>5. \A r \in Program \ {p} : todo'[r] = todo[r] /\ pc'[r] = pc[r]
    BY <2>2, <2>3
  <2>6. UNCHANGED <<listMutex, jammed, lpc, console>>
    BY <2>3
  <2> HIDE DEF MoverIsKnown, IdlePlace
  <2> QED BY <2>1, <2>4, <2>5, <2>6, MoverElsewhere
<1>7. CASE StAskJoin(p) BY <1>7 DEF StAskJoin
<1>8. CASE StClose(p) BY <1>8, SMTT(60) DEF StClose
<1>9. CASE StDisconnect(p) BY <1>9 DEF StDisconnect
<1>10. CASE StCrash(p) BY <1>10 DEF StCrash
<1> QED BY <1>1, <1>2, <1>3, <1>4, <1>5, <1>6, <1>7, <1>8, <1>9, <1>10 DEF Request

LEMMA MoverConsole ==
    ASSUME TypeInv, MoverIsKnown, Ending \/ Quit \/ \E p \in Program : Accept(p)
    PROVE  MoverIsKnown'
<1> USE TcbAssumption
    DEF TypeInv, TypeOK, TcbTypeOK, MoverIsKnown, tcbVars, listVars, ltsVars, semVars,
        clientVars, consoleVars, Goto, IdlePlace
<1>1. CASE Quit BY <1>1 DEF Quit
<1>2. CASE ListenerEnd BY <1>2 DEF ListenerEnd
<1>3. CASE ShutdownSocket BY <1>3 DEF ShutdownSocket
<1>4. CASE JoinListener BY <1>4 DEF JoinListener, last_post
<1>5. CASE JoinLongTerm BY <1>5 DEF JoinLongTerm
<1>6. CASE JoinPrograms BY <1>6 DEF JoinPrograms, programs_ended
<1>7. ASSUME NEW p \in Program, Accept(p) PROVE MoverIsKnown' BY <1>7 DEF Accept
<1> QED BY <1>1, <1>2, <1>3, <1>4, <1>5, <1>6, <1>7 DEF Ending
-----------------------------------------------------------------------------
(* The slots. *)

Holders == {t \in Thread : HoldsSlot(t)}

SlotInv == TypeInv /\ MoverIsKnown /\ SlotsAccounted

LEMMA HoldersFinite ==
    /\ IsFiniteSet(Holders)
    /\ Cardinality(Holders) \in Nat
<1>1. Holders \in SUBSET Thread BY DEF Holders
<1>2. IsFiniteSet(Holders) BY <1>1, TcbAssumption, FS_Subset
<1> QED BY <1>2, FS_CardinalityType

LEMMA MovingIsNone == listMutex = None => Moving = None
BY TcbAssumption DEF Moving

\* Moving depends on the mutex and on what its owner is about to do.
LEMMA MovingByLts == listMutex = Lts /\ jammed = None => Moving = current
BY TcbAssumption DEF Moving

LEMMA MovingByProgram ==
    ASSUME NEW p \in Program, listMutex = p
    PROVE  Moving = IF jammed = None THEN todo[p][1].tcb ELSE None
BY TcbAssumption DEF Moving

\* The steps that neither take nor give back a slot.
Quiet ==
    /\ UNCHANGED <<available, degree, listMutex, jammed>>
    /\ \A t \in Thread : state'[t] \in Active <=> state[t] \in Active
    /\ lpc' = "post" <=> lpc = "post"
    /\ listMutex = Lts => current' = current
    /\ \A p \in Program : listMutex = p /\ jammed = None => todo'[p] = todo[p]

LEMMA QuietMoving ==
    ASSUME TypeInv, Quiet
    PROVE  Moving' = Moving
<1>1. CASE listMutex = None \/ jammed # None
  BY <1>1 DEF Quiet, Moving
<1>2. CASE listMutex = Lts /\ jammed = None
  BY <1>2, TcbAssumption DEF Quiet, Moving
<1>3. CASE listMutex \in Program /\ jammed = None
  BY <1>3, TcbAssumption DEF Quiet, Moving
<1> QED BY <1>1, <1>2, <1>3 DEF TypeInv, TypeOK, TcbTypeOK, Scheduler

LEMMA QuietSlots ==
    ASSUME SlotInv, Quiet
    PROVE  SlotsAccounted'
<1>1. Holders' = Holders
  BY QuietMoving DEF SlotInv, Quiet, Holders, HoldsSlot
<1>2. degree' = Cardinality(Holders')
  BY <1>1 DEF SlotInv, SlotsAccounted, Quiet, Holders
<1>3. available' + degree' + One(lpc' = "post") = MaxMultiprog
  BY DEF SlotInv, SlotsAccounted, Quiet, One
<1> QED BY <1>2, <1>3 DEF SlotsAccounted, Holders

\* The thread that starts to move gives its slot back, if it had one.
LEMMA MoveBeginSlots ==
    ASSUME SlotInv, NEW self \in Scheduler, NEW t \in Thread,
           NEW dst \in Active \cup {"EXIT"}, MoveBegin(self, t, dst),
           listMutex = None,
           Moving' = IF dst \in Active THEN t ELSE None,
           lpc' = "post" <=> lpc = "post"
    PROVE  SlotsAccounted'
<1>1. Moving = None
  BY MovingIsNone
<1>2. t \in Holders <=> state[t] \in Active
  BY <1>1, TcbAssumption DEF Holders, HoldsSlot
<1>3. Holders' = Holders \ {t}
  <2>1. ASSUME NEW u \in Thread PROVE HoldsSlot(u)' <=> HoldsSlot(u) /\ u # t
    <3>1. CASE dst \in Active
      BY <1>1, <3>1, TcbAssumption DEF HoldsSlot, MoveBegin
    <3>2. CASE dst \notin Active
      <4>1. state' = [state EXCEPT ![t] = "EXIT"] /\ Moving' = None
        BY <3>2 DEF MoveBegin
      <4> QED BY <1>1, <4>1, TcbAssumption
              DEF HoldsSlot, Active, SlotInv, TypeInv, TypeOK, TcbTypeOK
    <3> QED BY <3>1, <3>2
  <2> QED BY <2>1 DEF Holders
<1>4. Cardinality(Holders') = Cardinality(Holders) - One(state[t] \in Active)
  <2>1. Cardinality(Holders \ {t}) =
            IF t \in Holders THEN Cardinality(Holders) - 1 ELSE Cardinality(Holders)
    BY HoldersFinite, FS_RemoveElement
  <2>2. CASE state[t] \in Active BY <1>2, <1>3, <2>1, <2>2 DEF One
  <2>3. CASE state[t] \notin Active
    BY <1>2, <1>3, <2>1, <2>3, HoldersFinite DEF One
  <2> QED BY <2>2, <2>3
<1>5. degree' = degree - One(state[t] \in Active)
  BY DEF MoveBegin, decrease_multiprog
<1>6. degree = Cardinality(Holders)
  BY DEF SlotInv, SlotsAccounted, Holders
<1>7. degree' = Cardinality(Holders')
  BY <1>4, <1>5, <1>6
<1>8. available' + degree' + One(lpc' = "post") = MaxMultiprog
  BY DEF MoveBegin, decrease_multiprog, SlotInv, SlotsAccounted, TypeInv,
         TypeOK, TcbTypeOK, One
<1> QED BY <1>7, <1>8 DEF SlotsAccounted, Holders

\* The thread that arrives holds the slot that was waited for.
LEMMA MoveEndSlots ==
    ASSUME SlotInv, NEW self \in Scheduler, NEW t \in Thread,
           NEW dst \in Active, MoveEnd(self, t, dst), Moving = t,
           lpc' = "post" <=> lpc = "post"
    PROVE  SlotsAccounted'
<1>1. Moving' = None
  BY TcbAssumption DEF MoveEnd, Moving
<1>2. t \notin Holders
  BY DEF Holders, HoldsSlot
<1>3. Holders' = Holders \cup {t}
  <2>1. state' = [state EXCEPT ![t] = dst]
    BY DEF MoveEnd
  <2>2. ASSUME NEW u \in Thread PROVE HoldsSlot(u)' <=> HoldsSlot(u) \/ u = t
    BY <1>1, <2>1, TcbAssumption
       DEF HoldsSlot, SlotInv, TypeInv, TypeOK, TcbTypeOK
  <2> QED BY <2>2 DEF Holders
<1>4. Cardinality(Holders') = Cardinality(Holders) + 1
  BY <1>2, <1>3, HoldersFinite, FS_AddElement
<1>5. degree' = Cardinality(Holders')
  BY <1>4 DEF MoveEnd, increase_multiprog, SlotInv, SlotsAccounted, Holders
<1>6. available' + degree' + One(lpc' = "post") = MaxMultiprog
  BY DEF MoveEnd, increase_multiprog, SlotInv, SlotsAccounted, TypeInv,
         TypeOK, TcbTypeOK, One
<1> QED BY <1>5, <1>6 DEF SlotsAccounted, Holders

LEMMA SlotsLongTerm ==
    ASSUME SlotInv, LongTerm
    PROVE  SlotsAccounted'
<1> USE TcbAssumption
    DEF SlotInv, TypeInv, TypeOK, TcbTypeOK, MoverIsKnown, tcbVars, listVars, LtsPlace
<1>1. CASE LtsTake
  <2>1. Quiet BY <1>1 DEF LtsTake, Quiet
  <2> QED BY <2>1, QuietSlots
<1>2. CASE LtsStop
  <2>1. Quiet BY <1>2 DEF LtsStop, Quiet
  <2> QED BY <2>1, QuietSlots
<1>3. CASE LtsCheckWait \/ LtsCheckPost
  <2>1. Holders' = Holders
    BY <1>3 DEF LtsCheckWait, LtsCheckPost, Holders, HoldsSlot, Moving
  <2>2. degree' = Cardinality(Holders')
    BY <1>3, <2>1 DEF LtsCheckWait, LtsCheckPost, SlotsAccounted, Holders
  <2>3. lpc' # "post" <=> lpc = "post"
    BY <1>3 DEF LtsCheckWait, LtsCheckPost, LtsNext
  <2>4. available' = available + One(lpc = "post") - One(lpc' = "post") /\ degree' = degree
    BY <1>3, <2>3 DEF LtsCheckWait, LtsCheckPost, One
  <2>5. available' + degree' + One(lpc' = "post") = MaxMultiprog
    <3>1. One(lpc = "post") \in Int /\ One(lpc' = "post") \in Int
      BY DEF One
    <3>2. available \in Int /\ degree \in Int
      BY DEF SlotInv, TypeInv, TypeOK, TcbTypeOK
    <3>3. available + degree + One(lpc = "post") = MaxMultiprog
      BY DEF SlotsAccounted
    <3> HIDE DEF SlotsAccounted, One
    <3> QED BY <2>4, <3>1, <3>2, <3>3, SMTT(60)
  <2> QED BY <2>2, <2>5 DEF SlotsAccounted, Holders
<1>4. CASE LtsMoveBegin
  <2>1. current \in Thread /\ MoveBegin(Lts, current, "READY")
    BY <1>4 DEF LtsMoveBegin, CurrentIsKept
  <2>0. listMutex = None
    BY <2>1, LtsLocksWhenFree DEF MoveBegin
  <2>2. Moving' = current
    BY <1>4, <2>1, MovingByLts DEF LtsMoveBegin, MoveBegin, Active, Moving
  <2>3. lpc # "post" /\ lpc' # "post"
    BY <1>4 DEF LtsMoveBegin
  <2> QED BY <2>0, <2>1, <2>2, <2>3, MoveBeginSlots DEF Scheduler, Active
<1>5. CASE LtsMoveEnd
  <2>1. current \in Thread /\ MoveEnd(Lts, current, "READY")
    BY <1>5 DEF LtsMoveEnd, CurrentIsKept
  <2>2. Moving = current
    BY <2>1, MovingByLts DEF MoveEnd, LtsMoveEnd
  <2>3. lpc # "post" /\ lpc' # "post"
    BY <1>5 DEF LtsMoveEnd, LtsNext
  <2> QED BY <2>1, <2>2, <2>3, MoveEndSlots DEF Scheduler, Active
<1>6. CASE LtsSignalMain
  <2>1. Quiet BY <1>6 DEF LtsSignalMain, Quiet, LtsNext
  <2> QED BY <2>1, QuietSlots
<1> QED BY <1>1, <1>2, <1>3, <1>4, <1>5, <1>6 DEF LongTerm

LEMMA SlotsShortTerm ==
    ASSUME SlotInv, NEW p \in Program, ShortTerm(p)
    PROVE  SlotsAccounted'
<1> USE TcbAssumption
    DEF SlotInv, TypeInv, TypeOK, TcbTypeOK, MoverIsKnown, tcbVars, listVars,
        ltsVars, Goto, IdlePlace
<1>1. CASE StMoveBegin(p)
  <2> DEFINE call == todo[p][1]
  <2>0. call \in MoveCall
    BY <1>1 DEF StMoveBegin
  <2>1. call.tcb \in Thread /\ call.to \in Active \cup {"EXIT"}
    BY <2>0 DEF MoveCall
  <2>2. MoveBegin(p, call.tcb, call.to) /\ UNCHANGED <<lpc, pc>>
    BY <1>1 DEF StMoveBegin
  <2>3. listMutex = None /\ jammed' = None
    BY <1>1, <2>2, LocksWhenFree DEF MoveBegin, StMoveBegin
  <2>4. Moving' = IF call.to \in Active THEN call.tcb ELSE None
    <3>1. CASE call.to \in Active
      <4>1. listMutex' = p /\ todo'[p] = todo[p]
        BY <1>1, <2>2, <2>3, <3>1, ZenonT(60) DEF StMoveBegin, MoveBegin, Active
      <4> QED BY <2>3, <3>1, <4>1, SMTT(60) DEF Moving
    <3>2. CASE call.to \notin Active
      <4>1. listMutex' = None
        BY <2>2, <3>2 DEF MoveBegin
      <4> QED BY <3>2, <4>1 DEF Moving
    <3> QED BY <3>1, <3>2
  <2> QED BY <2>1, <2>2, <2>3, <2>4, MoveBeginSlots DEF Scheduler
<1>2. CASE StMoveEnd(p)
  <2> DEFINE call == todo[p][1]
  <2>1. MoveEnd(p, call.tcb, call.to) /\ lpc' = lpc
    BY <1>2 DEF StMoveEnd
  <2>2. listMutex = p /\ jammed = None
    BY <2>1 DEF MoveEnd
  <2>0. call \in MoveCall /\ call.to \in Active
    BY <2>1, <2>2
  <2>3. call.tcb \in Thread /\ call.to \in Active
    BY <2>0 DEF MoveCall
  <2>4. Moving = call.tcb
    BY <2>1, <2>2, MovingByProgram
  <2> QED BY <2>1, <2>3, <2>4, MoveEndSlots DEF Scheduler
<1>3. CASE StJam(p)
  <2>1. Moving = None /\ Moving' = None
    BY <1>3 DEF StJam, Moving
  <2>2. Holders' = Holders
    BY <1>3, <2>1 DEF StJam, Holders, HoldsSlot
  <2> QED BY <1>3, <2>2 DEF StJam, SlotsAccounted, Holders
<1>4. CASE StStart(p)
  <2>1. Quiet BY <1>4 DEF StStart, Quiet
  <2> QED BY <2>1, QuietSlots
<1>5. CASE StLoopTest(p)
  <2>1. Quiet BY <1>5 DEF StLoopTest, Quiet
  <2> QED BY <2>1, QuietSlots
<1>6. CASE StWakeupThreads(p)
  <2>1. Quiet BY <1>6, ZenonT(60) DEF StWakeupThreads, Quiet
  <2> QED BY <2>1, QuietSlots
<1>7. CASE StMainLoaded(p)
  <2>1. Quiet BY <1>7 DEF StMainLoaded, Quiet
  <2> QED BY <2>1, QuietSlots
<1>8. CASE StSchedule(p)
  <2>1. Quiet BY <1>8 DEF StSchedule, Quiet
  <2> QED BY <2>1, QuietSlots
<1>9. CASE StUnpark(p)
  <2>1. Quiet BY <1>9 DEF StUnpark, Quiet
  <2> QED BY <2>1, QuietSlots
<1>10. CASE StReply(p)
  <2>1. Quiet BY <1>10 DEF StReply, Quiet
  <2> QED BY <2>1, QuietSlots
<1>11. CASE StNotifyWakeup(p)
  <2>1. Quiet BY <1>11 DEF StNotifyWakeup, Quiet
  <2> QED BY <2>1, QuietSlots
<1>12. CASE StJoin(p)
  <2>1. Quiet BY <1>12 DEF StJoin, Quiet
  <2> QED BY <2>1, QuietSlots
<1>13. CASE StLogMetrics(p)
  <2>1. listMutex = None /\ jammed = None
    BY <1>13, LocksWhenFree DEF StLogMetrics
  <2>2. Quiet BY <1>13, <2>1 DEF StLogMetrics, Quiet
  <2> QED BY <2>2, QuietSlots
<1> QED BY <1>1, <1>2, <1>3, <1>4, <1>5, <1>6, <1>7, <1>8, <1>9, <1>10, <1>11,
           <1>12, <1>13 DEF ShortTerm

LEMMA SlotsRequest ==
    ASSUME SlotInv, NEW p \in Program, Request(p)
    PROVE  SlotsAccounted'
<1> USE TcbAssumption
    DEF SlotInv, TypeInv, TypeOK, TcbTypeOK, MoverIsKnown, tcbVars, listVars,
        ltsVars, Goto, IdlePlace, Running
<1>1. ASSUME NEW t \in Thread, create_tcb(p, t), UNCHANGED <<lpc, current, todo>>
      PROVE  Quiet
  <2>1. listMutex = None /\ jammed = None
    BY <1>1, LocksWhenFree DEF create_tcb
  <2> QED BY <1>1, <2>1, SMTT(60) DEF create_tcb, Quiet, Active
<1>2. CASE StCreateMain(p)
  <2>1. Quiet BY <1>1, <1>2 DEF StCreateMain
  <2> QED BY <2>1, QuietSlots
<1>3. CASE StCreate(p)
  <2>1. Quiet BY <1>1, <1>3 DEF StCreate, ThreadsOf
  <2> QED BY <2>1, QuietSlots
<1>4. CASE StAskNext(p)
  <2>1. Quiet BY <1>4 DEF StAskNext, Quiet
  <2> QED BY <2>1, QuietSlots
<1>5. CASE StReject(p)
  <2>1. Quiet BY <1>5 DEF StReject, Quiet
  <2> QED BY <2>1, QuietSlots
<1>6. CASE StWait(p)
  <2>1. listMutex # p /\ UNCHANGED <<tcbVars, ltsVars>>
    BY <1>6 DEF StWait
  <2>2. \A r \in Program \ {p} : todo'[r] = todo[r] /\ pc'[r] = pc[r]
    BY <1>6, SMTT(60) DEF StWait
  <2>3. Quiet BY <2>1, <2>2 DEF Quiet
  <2> QED BY <2>3, QuietSlots
<1>7. CASE StSignal(p)
  <2>1. listMutex # p /\ UNCHANGED <<tcbVars, ltsVars, todo>>
    BY <1>7 DEF StSignal
  <2>2. \A r \in Program \ {p} : pc'[r] = pc[r]
    BY <1>7, SMTT(60) DEF StSignal
  <2>3. Quiet BY <2>1, <2>2 DEF Quiet
  <2> QED BY <2>3, QuietSlots
<1>8. CASE StAskJoin(p)
  <2>1. Quiet BY <1>8 DEF StAskJoin, Quiet
  <2> QED BY <2>1, QuietSlots
<1>9. CASE StClose(p)
  <2>1. Quiet BY <1>9 DEF StClose, Quiet
  <2> QED BY <2>1, QuietSlots
<1>10. CASE StDisconnect(p)
  <2>1. Quiet BY <1>10 DEF StDisconnect, Quiet
  <2> QED BY <2>1, QuietSlots
<1>11. CASE StCrash(p)
  <2>1. Quiet BY <1>11 DEF StCrash, Quiet
  <2> QED BY <2>1, QuietSlots
<1> QED BY <1>2, <1>3, <1>4, <1>5, <1>6, <1>7, <1>8, <1>9, <1>10, <1>11 DEF Request

LEMMA SlotsConsole ==
    ASSUME SlotInv, Ending \/ Quit \/ \E p \in Program : Accept(p)
    PROVE  SlotsAccounted'
<1> USE TcbAssumption
    DEF SlotInv, TypeInv, TypeOK, TcbTypeOK, MoverIsKnown, tcbVars, listVars,
        ltsVars, Goto, IdlePlace
<1>1. CASE Quit \/ Ending
  <2>1. Quiet
    BY <1>1 DEF Quit, Ending, ListenerEnd, ShutdownSocket, JoinListener,
                JoinLongTerm, JoinPrograms, last_post, Quiet
  <2> QED BY <2>1, QuietSlots
<1>2. ASSUME NEW p \in Program, Accept(p) PROVE SlotsAccounted'
  <2>1. Quiet BY <1>2 DEF Accept, Quiet
  <2> QED BY <2>1, QuietSlots
<1> QED BY <1>1, <1>2

LEMMA SlotStep == SlotInv /\ [Next]_vars => SlotInv'
<1> SUFFICES ASSUME SlotInv, [Next]_vars PROVE SlotInv' OBVIOUS
<1>1. TypeInv' BY TypeStep DEF SlotInv
<1>2. CASE LongTerm
  BY <1>1, <1>2, MoverLongTerm, SlotsLongTerm DEF SlotInv
<1>3. CASE \E p \in Program : ShortTerm(p) \/ Request(p)
  BY <1>1, <1>3, MoverShortTerm, MoverRequest, SlotsShortTerm, SlotsRequest
     DEF SlotInv
<1>4. CASE Ending \/ Quit \/ \E p \in Program : Accept(p)
  BY <1>1, <1>4, MoverConsole, SlotsConsole DEF SlotInv
<1>5. CASE UNCHANGED vars
  <2>1. MoverIsKnown'
    BY <1>5 DEF SlotInv, MoverIsKnown, vars, tcbVars, ltsVars, consoleVars
  <2>2. Quiet
    BY <1>5 DEF Quiet, vars, tcbVars, ltsVars
  <2> QED BY <1>1, <2>1, <2>2, QuietSlots DEF SlotInv
<1> QED BY <1>2, <1>3, <1>4, <1>5 DEF Next

LEMMA SlotInit == Init => SlotInv
<1> SUFFICES ASSUME Init PROVE SlotInv OBVIOUS
<1>1. Holders = {}
  BY DEF Init, TcbInit, Holders, HoldsSlot, Active
<1>2. Cardinality(Holders) = 0 /\ degree = 0
  BY <1>1, FS_EmptySet DEF Init, TcbInit
<1>3. available + degree + One(lpc = "post") = MaxMultiprog
  BY TcbAssumption DEF Init, TcbInit, One
<1>4. SlotsAccounted
  BY <1>2, <1>3 DEF SlotsAccounted, Holders
<1> QED BY <1>4, TypeInit, MoverInit DEF SlotInv

\* Every slot is free, held by one admitted thread, or in the hand of
\* check_multiprog: the semaphore, multiprog_degree and the states of the
\* threads agree in every reachable state.
THEOREM SlotsCorrect == Spec => []SlotInv
BY SlotInit, SlotStep, PTL DEF Spec

THEOREM SlotsHold == Spec => []SlotsAccounted
BY SlotsCorrect, PTL DEF SlotInv

\* So the threads that are ready, executing or blocked are never more than
\* MAX_MULTIPROG.
THEOREM DegreeIsBounded == Spec => [](Cardinality(Holders) <= MaxMultiprog)
<1>1. SlotInv => Cardinality(Holders) <= MaxMultiprog
  BY HoldersFinite, TcbAssumption
     DEF SlotInv, SlotsAccounted, Holders, TypeInv, TypeOK, TcbTypeOK, One
<1> QED BY <1>1, SlotsCorrect, PTL
-----------------------------------------------------------------------------
(* The two states the server cannot leave. *)

Hung == lpc = "moving" /\ available = 0

LEMMA HungStep ==
    ASSUME TypeInv, MoverIsKnown, Hung, [Next]_vars
    PROVE  Hung'
<1> USE TcbAssumption
    DEF TypeInv, TypeOK, TcbTypeOK, MoverIsKnown, Hung, tcbVars, ltsVars
<1>1. CASE LongTerm
  BY <1>1 DEF LongTerm, LtsTake, LtsStop, LtsCheckWait, LtsCheckPost,
              LtsMoveBegin, LtsMoveEnd, LtsSignalMain, MoveEnd,
              increase_multiprog
<1>2. ASSUME NEW p \in Program, ShortTerm(p) PROVE Hung'
  <2>1. CASE StMoveBegin(p)
    <3>1. listMutex = None
      BY <2>1, LocksWhenFree DEF StMoveBegin, MoveBegin
    <3> QED BY <3>1
  <2>2. CASE StMoveEnd(p)
    BY <2>2 DEF StMoveEnd, MoveEnd
  <2>3. CASE StJam(p) \/ StLogMetrics(p)
    BY <2>3 DEF StJam, StLogMetrics
  <2>4. CASE StNotifyWakeup(p)
    BY <2>4 DEF StNotifyWakeup
  <2>5. CASE ~(\/ StMoveBegin(p) \/ StMoveEnd(p) \/ StJam(p) \/ StLogMetrics(p)
               \/ StNotifyWakeup(p))
    <3>1. UNCHANGED <<lpc, available>>
      BY <1>2, <2>5 DEF ShortTerm, StStart, StLoopTest, StWakeupThreads,
            StMainLoaded, StSchedule, StUnpark, StReply, StJoin
    <3> QED BY <3>1
  <2> QED BY <2>1, <2>2, <2>3, <2>4, <2>5
<1>3. ASSUME NEW p \in Program, Request(p) PROVE Hung'
  <2>1. UNCHANGED <<lpc, available>>
    BY <1>3 DEF Request, StCreateMain, StCreate, create_tcb, StAskNext,
          StReject, StCrash, StWait, StSignal, StAskJoin, StClose, StDisconnect
  <2> QED BY <2>1
<1>4. CASE Ending \/ Quit \/ \E p \in Program : Accept(p)
  <2>1. UNCHANGED <<lpc, available>>
    BY <1>4 DEF Ending, ListenerEnd, ShutdownSocket, JoinListener,
          JoinLongTerm, JoinPrograms, Quit, Accept
  <2> QED BY <2>1
<1>5. CASE UNCHANGED vars
  BY <1>5 DEF vars
<1> QED BY <1>1, <1>2, <1>3, <1>4, <1>5 DEF Next

\* Once the long-term scheduler sleeps on a slot with state_list_mutex held
\* and no slot free, no step of any program, client or operator wakes it up.
THEOREM HangLasts == Spec => HangIsForever
<1>1. SlotInv /\ [Next]_vars =>
          [lpc = "moving" /\ available = 0
               => lpc' = "moving" /\ available' = 0]_vars
  BY HungStep DEF SlotInv, Hung
<1> QED BY <1>1, SlotsCorrect, PTL DEF Spec, HangIsForever

\* main cannot leave its joins: the one that is jammed has not ended.
LEMMA JoinsLast ==
    ASSUME TypeInv, MoverIsKnown, jammed # None
    PROVE  ClientesHeld /\ ~JoinPrograms
<1>1. console = "joinprograms" /\ jammed \in Program
  BY DEF MoverIsKnown, TypeInv, TypeOK, TcbTypeOK
<1>2. todo[jammed] # <<>> \/ pc[jammed] \in {"create", "log"}
  BY <1>1 DEF MoverIsKnown
<1>3. pc[jammed] \notin {"none", "end"}
  BY <1>1, <1>2 DEF MoverIsKnown, IdlePlace
<1> QED BY <1>1, <1>3 DEF ClientesHeld, JoinPrograms, programs_ended

LEMMA JamStep ==
    ASSUME TypeInv, MoverIsKnown, [Next]_vars, jammed # None
    PROVE  jammed' = jammed /\ console' = "joinprograms"
<1>0. /\ ClientesHeld /\ ~JoinPrograms /\ console = "joinprograms"
      /\ listMutex = jammed /\ listMutex # None
  BY JoinsLast DEF ClientesHeld, MoverIsKnown
<1> USE DEF tcbVars, consoleVars
<1>1. CASE LongTerm
  <2>1. ~LtsMoveBegin
    BY <1>0, LtsLocksWhenFree DEF LtsMoveBegin, MoveBegin
  <2> QED BY <1>0, <1>1, <2>1 DEF LongTerm, LtsTake, LtsStop, LtsCheckWait, LtsCheckPost,
             LtsMoveEnd, MoveEnd, LtsSignalMain
<1>2. ASSUME NEW r \in Program, ShortTerm(r) PROVE UNCHANGED <<jammed, console>>
  BY <1>0, <1>2 DEF ShortTerm, StMoveBegin, StMoveEnd, MoveEnd, StJam, StStart,
        StLoopTest, StWakeupThreads, StMainLoaded, StSchedule, StUnpark, StReply,
        StNotifyWakeup, StJoin, StLogMetrics
<1>3. ASSUME NEW r \in Program, Request(r) PROVE UNCHANGED <<jammed, console>>
  BY <1>0, <1>3 DEF Request, StCreateMain, StCreate, create_tcb, StAskNext, StReject,
        StCrash, StWait, StSignal, StAskJoin, StClose, StDisconnect
<1>4. CASE Ending \/ Quit \/ \E r \in Program : Accept(r)
  BY <1>0, <1>4 DEF Ending, ListenerEnd, ShutdownSocket, JoinListener,
        JoinLongTerm, Quit, Accept
<1>5. CASE UNCHANGED vars
  BY <1>0, <1>5 DEF vars
<1> QED BY <1>0, <1>1, <1>2, <1>3, <1>4, <1>5 DEF Next

\* A short-term scheduler that waits for clientes_mutex with state_list_mutex
\* held waits for ever, and main never leaves its joins: main waits for a
\* thread that has not ended, and that thread for the mutex main keeps.
THEOREM JamLasts == Spec => JamIsADeadlock
<1>1. SlotInv /\ [Next]_vars =>
          [jammed # None => jammed' = jammed /\ console' = "joinprograms"]_vars
  BY JamStep DEF SlotInv
<1> QED BY <1>1, SlotsCorrect, PTL DEF Spec, JamIsADeadlock
=============================================================================
