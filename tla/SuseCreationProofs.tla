------------------------- MODULE SuseCreationProofs -------------------------
(* No created thread is lost: the posts of new_counter and the threads of   *)
(* newList are as many.  It rests on a thread being admitted once: whatever *)
(* the schedulers keep (a list, a queue, a call to make) is an admitted     *)
(* thread, and an admitted thread is never NEW again.                       *)
EXTENDS SuseProofs, SequenceTheorems

Admitted(t) == state[t] \in Active \cup {"EXIT"}
AdmittedAfter(t) == state'[t] \in Active \cup {"EXIT"}
AllAdmitted(list) == \A i \in DOMAIN list : Admitted(list[i])

ReadyKnown ==
    \A p \in Program : \A t \in ready[p] :
        Admitted(t) \/ (lpc = "moving" /\ t = current)
ExecKnown == \A p \in Program : exec[p] # None => Admitted(exec[p])
QueuesKnown == \A s \in Sem : AllAdmitted(semBlocked[s])
WakeupsKnown == \A p \in Program : AllAdmitted(wakeupList[p])
JoinedKnown == \A t \in Thread : AllAdmitted(joined[t])
CallsKnown == \A p \in Program : \A i \in DOMAIN todo[p] : Admitted(todo[p][i].tcb)
ArgKnown == \A p \in Program : pc[p] = "notify" => Admitted(arg[p])
MainKnown ==
    /\ \A p \in Program : mainLoaded[p] => Admitted(Main[p])
    /\ lpc = "signal" => Admitted(current) /\ current = Main[Owner[current]]

Known ==
    /\ ReadyKnown /\ ExecKnown /\ QueuesKnown /\ WakeupsKnown
    /\ JoinedKnown /\ CallsKnown /\ ArgKnown /\ MainKnown

InLine == lpc \in {"check", "post", "move"}

NewListKnown ==
    /\ \A i \in DOMAIN newList :
        /\ state[newList[i]] = "NEW"
        /\ lpc = "moving" => newList[i] # current
        /\ \A j \in DOMAIN newList : newList[i] = newList[j] => i = j
    /\ InLine => newList # <<>> /\ current = newList[1]
    /\ lpc = "moving" => state[current] = "NEW"
    /\ endsuse <=> console # "readline"

PostsMatch ==
    lpc # "done" =>
        newCounter + One(InLine) = Len(newList) + One(console \notin BeforeTheLastPost)

CreationInv == SlotInv /\ Known /\ NewListKnown /\ PostsMatch

-----------------------------------------------------------------------------
\* A short-term scheduler moves admitted threads only.
LEMMA ShortTermStates ==
    ASSUME CreationInv, NEW p \in Program, ShortTerm(p)
    PROVE  \/ state' = state
           \/ \E t \in Thread, dst \in Active \cup {"EXIT"} :
                 /\ Admitted(t)
                 /\ state' = [state EXCEPT ![t] = dst]
<1> USE DEF CreationInv, SlotInv, TypeInv, TypeOK, TcbTypeOK, tcbVars
<1>1. todo[p] # <<>> =>
          /\ todo[p][1] \in MoveCall
          /\ Admitted(todo[p][1].tcb)
  BY DEF Known, CallsKnown
<1>2. todo[p] # <<>> =>
          todo[p][1].tcb \in Thread /\ todo[p][1].to \in Active \cup {"EXIT"}
  BY <1>1 DEF MoveCall
<1>3. CASE StMoveBegin(p)
  BY <1>1, <1>2, <1>3, SMTT(60) DEF StMoveBegin, MoveBegin
<1>4. CASE StMoveEnd(p)
  BY <1>1, <1>2, <1>4 DEF StMoveEnd, MoveEnd
<1>5. CASE ~(StMoveBegin(p) \/ StMoveEnd(p))
  BY <1>5 DEF ShortTerm, StJam, StStart, StLoopTest, StWakeupThreads,
        StMainLoaded, StSchedule, StUnpark, StReply, StNotifyWakeup, StJoin,
        StLogMetrics
<1> QED BY <1>3, <1>4, <1>5

\* What a step does to the states: nothing, or it creates, or it moves one
\* thread among the admitted states.
LEMMA StatesStep ==
    ASSUME CreationInv, [Next]_vars
    PROVE  \/ state' = state
           \/ \E t \in Thread : /\ state[t] = "none"
                                /\ state' = [state EXCEPT ![t] = "NEW"]
           \/ \E t \in Thread, dst \in Active \cup {"EXIT"} :
                 /\ Admitted(t) \/ (lpc = "moving" /\ t = current)
                 /\ state' = [state EXCEPT ![t] = dst]
<1> USE DEF CreationInv, SlotInv, TypeInv, TypeOK, TcbTypeOK, tcbVars
<1>1. CASE LongTerm
  <2>1. CASE LtsMoveBegin
    BY <2>1 DEF LtsMoveBegin, MoveBegin, Active
  <2>2. CASE LtsMoveEnd
    <3>1. lpc = "moving" /\ current \in Thread
      BY <2>2 DEF LtsMoveEnd, CurrentIsKept
    <3>2. state' = [state EXCEPT ![current] = "READY"]
      BY <2>2 DEF LtsMoveEnd, MoveEnd
    <3> QED BY <3>1, <3>2 DEF Active
  <2>3. CASE LtsTake \/ LtsStop \/ LtsCheckWait \/ LtsCheckPost \/ LtsSignalMain
    BY <2>3 DEF LtsTake, LtsStop, LtsCheckWait, LtsCheckPost, LtsSignalMain
  <2> QED BY <1>1, <2>1, <2>2, <2>3 DEF LongTerm
<1>2. ASSUME NEW p \in Program, ShortTerm(p)
      PROVE  \/ state' = state
             \/ \E t \in Thread, dst \in Active \cup {"EXIT"} :
                   /\ Admitted(t)
                   /\ state' = [state EXCEPT ![t] = dst]
  BY <1>2, ShortTermStates
<1>3. ASSUME NEW p \in Program, Request(p)
      PROVE  \/ state' = state
             \/ \E t \in Thread : /\ state[t] = "none"
                                  /\ state' = [state EXCEPT ![t] = "NEW"]
  BY <1>3, TcbAssumption DEF Request, StCreateMain, StCreate, create_tcb, ThreadsOf, StAskNext,
        StReject, StCrash, StWait, StSignal, StAskJoin, StClose, StDisconnect
<1>4. CASE Ending \/ Quit \/ \E p \in Program : Accept(p)
  BY <1>4 DEF Ending, ListenerEnd, ShutdownSocket, JoinListener,
        JoinLongTerm, JoinPrograms, Quit, Accept
<1>5. CASE UNCHANGED vars
  BY <1>5 DEF vars
<1> QED BY <1>1, <1>2, <1>3, <1>4, <1>5 DEF Next

\* An admitted thread stays one.
LEMMA AdmittedStay ==
    ASSUME CreationInv, [Next]_vars, NEW t \in Thread, Admitted(t)
    PROVE  AdmittedAfter(t)
BY StatesStep DEF CreationInv, SlotInv, TypeInv, TypeOK, TcbTypeOK, Admitted, AdmittedAfter, Active

USE DEF Admitted, AdmittedAfter

\* Sequences of admitted threads, when threads are added and taken.
LEMMA AllAdmittedKept ==
    ASSUME CreationInv, [Next]_vars, NEW list \in Seq(Thread), AllAdmitted(list)
    PROVE  \A i \in DOMAIN list : AdmittedAfter(list[i])
BY AdmittedStay DEF AllAdmitted

LEMMA AppendAdmitted ==
    ASSUME CreationInv, [Next]_vars, NEW list \in Seq(Thread), AllAdmitted(list),
           NEW t \in Thread, Admitted(t)
    PROVE  \A i \in DOMAIN Append(list, t) : AdmittedAfter(Append(list, t)[i])
<1>1. \A i \in DOMAIN Append(list, t) :
          Append(list, t)[i] \in Thread /\ Admitted(Append(list, t)[i])
  BY DEF AllAdmitted
<1> QED BY <1>1, AdmittedStay

LEMMA TailAdmitted ==
    ASSUME CreationInv, [Next]_vars, NEW list \in Seq(Thread), AllAdmitted(list),
           list # <<>>
    PROVE  /\ AdmittedAfter(Head(list))
           /\ \A i \in DOMAIN Tail(list) : AdmittedAfter(Tail(list)[i])
<1>1. Head(list) \in Thread /\ Admitted(Head(list))
  BY DEF AllAdmitted
<1>2. \A i \in DOMAIN Tail(list) :
          Tail(list)[i] \in Thread /\ Admitted(Tail(list)[i])
  BY DEF AllAdmitted
<1> QED BY <1>1, <1>2, AdmittedStay

LEMMA HalvesAdmitted ==
    ASSUME CreationInv, [Next]_vars, NEW list \in Seq(Thread), AllAdmitted(list)
    PROVE  /\ \A i \in DOMAIN Taken(list) : AdmittedAfter(Taken(list)[i])
           /\ \A i \in DOMAIN Left(list) : AdmittedAfter(Left(list)[i])
<1> DEFINE n == Len(list)
<1>1. n \in Nat /\ DOMAIN list = 1 .. n OBVIOUS
<1>2. \A i \in DOMAIN Taken(list) : 2 * i - 1 \in 1 .. n /\ Taken(list)[i] = list[2 * i - 1]
  BY <1>1 DEF Taken
<1>3. \A i \in DOMAIN Left(list) : 2 * i \in 1 .. n /\ Left(list)[i] = list[2 * i]
  BY <1>1 DEF Left
<1>4. \A j \in 1 .. n : AdmittedAfter(list[j])
  BY <1>1, AllAdmittedKept
<1> QED BY <1>2, <1>3, <1>4


\* A family of queues, one of which may have got an admitted thread.
LEMMA FamilyAppended ==
    ASSUME CreationInv, [Next]_vars, NEW S, NEW q \in S, NEW f \in [S -> Seq(Thread)],
           \A r \in S : AllAdmitted(f[r]), NEW t \in Thread, Admitted(t),
           NEW g, g = [f EXCEPT ![q] = Append(@, t)]
    PROVE  \A r \in S : \A i \in DOMAIN g[r] : AdmittedAfter(g[r][i])
<1>1. f[q] \in Seq(Thread) /\ AllAdmitted(f[q])
  OBVIOUS
<1>2. \A i \in DOMAIN Append(f[q], t) : AdmittedAfter(Append(f[q], t)[i])
  BY <1>1, AppendAdmitted
<1>3. \A r \in S \ {q} : g[r] = f[r] /\ f[r] \in Seq(Thread) /\ AllAdmitted(f[r])
  OBVIOUS
<1>4. \A r \in S \ {q} : \A i \in DOMAIN g[r] : AdmittedAfter(g[r][i])
  BY <1>3, AllAdmittedKept
<1>5. g[q] = Append(f[q], t)
  OBVIOUS
<1>6. \A i \in DOMAIN g[q] : AdmittedAfter(g[q][i])
  BY <1>2, <1>5
<1> QED BY <1>4, <1>6

\* What a step leaves alone still holds admitted threads only.
LEMMA KnownKept ==
    ASSUME CreationInv, [Next]_vars
    PROVE  /\ UNCHANGED <<ready, lpc, current>> => ReadyKnown'
           /\ UNCHANGED exec => ExecKnown'
           /\ UNCHANGED semBlocked => QueuesKnown'
           /\ UNCHANGED wakeupList => WakeupsKnown'
           /\ UNCHANGED joined => JoinedKnown'
           /\ UNCHANGED todo => CallsKnown'
           /\ UNCHANGED <<lpc, current, mainLoaded>> => MainKnown'
<1> USE DEF CreationInv, SlotInv, TypeInv, TypeOK, TcbTypeOK, Known
<1>1. ASSUME UNCHANGED <<ready, lpc, current>> PROVE ReadyKnown'
  BY <1>1, AdmittedStay DEF ReadyKnown
<1>2. ASSUME UNCHANGED exec PROVE ExecKnown'
  BY <1>2, AdmittedStay DEF ExecKnown
<1>3. ASSUME UNCHANGED semBlocked PROVE QueuesKnown'
  BY <1>3, AllAdmittedKept DEF QueuesKnown, AllAdmitted
<1>4. ASSUME UNCHANGED wakeupList PROVE WakeupsKnown'
  BY <1>4, AllAdmittedKept DEF WakeupsKnown, AllAdmitted
<1>5. ASSUME UNCHANGED joined PROVE JoinedKnown'
  BY <1>5, AllAdmittedKept DEF JoinedKnown, AllAdmitted
<1>6. ASSUME UNCHANGED todo PROVE CallsKnown'
  <2>1. \A p \in Program : \A i \in DOMAIN todo[p] : todo[p][i] \in MoveCall
    OBVIOUS
  <2>2. \A p \in Program : \A i \in DOMAIN todo[p] : todo[p][i].tcb \in Thread
    BY <2>1 DEF MoveCall
  <2> QED BY <1>6, <2>2, AdmittedStay DEF CallsKnown
<1>7. ASSUME UNCHANGED <<lpc, current, mainLoaded>> PROVE MainKnown'
  BY <1>7, AdmittedStay, TcbAssumption DEF MainKnown, CurrentIsKept
<1> QED BY <1>1, <1>2, <1>3, <1>4, <1>5, <1>6, <1>7

\* The other programs' calls, and what is left of one's own.
LEMMA CallsElsewhere ==
    ASSUME CreationInv, [Next]_vars, NEW p \in Program, NEW calls,
           todo' = [todo EXCEPT ![p] = calls],
           \A i \in DOMAIN calls : AdmittedAfter(calls[i].tcb)
    PROVE  CallsKnown'
<1>0. \A t \in Thread : Admitted(t) => AdmittedAfter(t)
  BY AdmittedStay
<1> USE DEF CreationInv, SlotInv, TypeInv, TypeOK, Known
<1>1. \A r \in Program : \A i \in DOMAIN todo[r] : todo[r][i] \in MoveCall
  OBVIOUS
<1>2. \A r \in Program : \A i \in DOMAIN todo[r] : todo[r][i].tcb \in Thread
  BY <1>1 DEF MoveCall
<1>3. \A r \in Program : \A i \in DOMAIN todo[r] : AdmittedAfter(todo[r][i].tcb)
  BY <1>0, <1>2 DEF CallsKnown
<1> QED BY <1>3 DEF CallsKnown

LEMMA CallsTail ==
    ASSUME CreationInv, [Next]_vars, NEW p \in Program, todo[p] # <<>>,
           todo' = [todo EXCEPT ![p] = Tail(@)]
    PROVE  CallsKnown'
<1>0. \A t \in Thread : Admitted(t) => AdmittedAfter(t)
  BY AdmittedStay
<1> DEFINE rest == Tail(todo[p])
<1>5. ASSUME \A i \in DOMAIN rest : AdmittedAfter(rest[i].tcb) PROVE CallsKnown'
  <2>1. todo' = [todo EXCEPT ![p] = rest] OBVIOUS
  <2> HIDE DEF rest
  <2> QED BY <1>5, <2>1, CallsElsewhere
<1> USE DEF CreationInv, SlotInv, TypeInv, TypeOK, Known
<1>1. \A i \in DOMAIN Tail(todo[p]) :
          i + 1 \in DOMAIN todo[p] /\ Tail(todo[p])[i] = todo[p][i + 1]
  OBVIOUS
<1>2. \A i \in DOMAIN todo[p] : todo[p][i] \in MoveCall
  OBVIOUS
<1>3. \A i \in DOMAIN todo[p] : todo[p][i].tcb \in Thread
  BY <1>2 DEF MoveCall
<1>4. \A i \in DOMAIN Tail(todo[p]) : AdmittedAfter(Tail(todo[p])[i].tcb)
  BY <1>0, <1>1, <1>3, ZenonT(60) DEF CallsKnown
<1> QED BY <1>4, <1>5

LEMMA KnownLongTerm ==
    ASSUME CreationInv, Alive, LongTerm
    PROVE  Known'
<1>1. [Next]_vars BY DEF Next
<1>0. \A t \in Thread : Admitted(t) => AdmittedAfter(t)
  BY <1>1, AdmittedStay
<1>2. UNCHANGED <<pc, arg, semBlocked, wakeupList, joined, todo>>
  BY DEF LongTerm, LtsTake, LtsStop, LtsCheckWait, LtsCheckPost, LtsMoveBegin,
         LtsMoveEnd, LtsSignalMain, semVars
<1>3. QueuesKnown' /\ WakeupsKnown' /\ JoinedKnown' /\ CallsKnown'
  BY <1>1, <1>2, KnownKept
<1>4. ArgKnown'
  BY <1>0, <1>2
     DEF ArgKnown, CreationInv, Known, SlotInv, TypeInv, TypeOK, ArgIsKept
<1>5. ReadyKnown' /\ ExecKnown' /\ MainKnown'
  <2> USE TcbAssumption
      DEF CreationInv, SlotInv, TypeInv, TypeOK, TcbTypeOK, CurrentIsKept, Known, tcbVars, listVars
  <2>1. CASE LtsTake \/ LtsStop \/ LtsCheckWait \/ LtsCheckPost
    <3>1. UNCHANGED <<ready, exec, mainLoaded>> /\ lpc # "moving" /\ lpc' # "moving" /\ lpc' # "signal"
      BY <2>1 DEF LtsTake, LtsStop, LtsCheckWait, LtsCheckPost, LtsNext
    <3>2. ExecKnown' BY <1>1, <3>1, KnownKept
    <3>3. ReadyKnown' BY <1>0, <3>1 DEF ReadyKnown
    <3>4. MainKnown' BY <1>0, <3>1 DEF MainKnown
    <3> QED BY <3>2, <3>3, <3>4
  <2>2. CASE LtsMoveBegin
    <3>1. /\ lpc # "moving" /\ lpc' = "moving" /\ UNCHANGED <<current, mainLoaded>>
          /\ current \in Thread
      BY <2>2 DEF LtsMoveBegin
    <3>2. state[current] = "NEW"
      BY <2>2, SMTT(60) DEF LtsMoveBegin, NewListKnown, InLine
    <3>3. /\ UNCHANGED exec
          /\ ready' = [ready EXCEPT ![Owner[current]] = @ \cup {current}]
      BY <2>2, <3>1, <3>2 DEF LtsMoveBegin, MoveBegin, program_remove_and_add, Only, exec_after
    <3>4. ExecKnown' BY <1>1, <3>3, KnownKept
    <3>5. ReadyKnown' BY <1>0, <3>1, <3>3 DEF ReadyKnown
    <3>6. MainKnown' BY <1>0, <3>1 DEF MainKnown
    <3> QED BY <3>4, <3>5, <3>6
  <2>3. CASE LtsMoveEnd
    <3>1. /\ lpc = "moving" /\ lpc' # "moving" /\ current \in Thread
          /\ UNCHANGED <<ready, exec, current, mainLoaded>>
      BY <2>3 DEF LtsMoveEnd, MoveEnd, LtsNext
    <3>2. state' = [state EXCEPT ![current] = "READY"]
      BY <2>3 DEF LtsMoveEnd, MoveEnd
    <3>3. /\ AdmittedAfter(current)
          /\ lpc' = "signal" => current = Main[Owner[current]]
      BY <2>3, <3>1, <3>2 DEF LtsMoveEnd, LtsNext, Admitted, Active
    <3>4. ExecKnown' BY <1>1, <3>1, KnownKept
    <3>5. ReadyKnown' BY <1>0, <3>1, <3>3, SMTT(60) DEF ReadyKnown
    <3>6. MainKnown' BY <1>0, <3>1, <3>3 DEF MainKnown
    <3> QED BY <3>4, <3>5, <3>6
  <2>4. CASE LtsSignalMain
    <3>1. /\ lpc = "signal" /\ lpc' \notin {"moving", "signal"} /\ current \in Thread
          /\ UNCHANGED <<ready, exec, current>>
          /\ mainLoaded' = [mainLoaded EXCEPT ![Owner[current]] = TRUE]
      BY <2>4 DEF LtsSignalMain, LtsNext
    <3>2. ExecKnown' BY <1>1, <3>1, KnownKept
    <3>3. ReadyKnown' BY <1>0, <3>1 DEF ReadyKnown
    <3>4. MainKnown'
      BY <1>0, <3>1 DEF MainKnown
    <3> QED BY <3>2, <3>3, <3>4
  <2> QED BY <2>1, <2>2, <2>3, <2>4 DEF LongTerm
<1> QED BY <1>3, <1>4, <1>5 DEF Known

LEMMA PairOfCalls ==
    ASSUME NEW S, NEW a \in S, NEW b \in S
    PROVE  /\ DOMAIN (<<a>> \o <<b>>) = 1 .. 2
           /\ (<<a>> \o <<b>>)[1] = a
           /\ (<<a>> \o <<b>>)[2] = b
<1> DEFINE s == <<a>>
           r == <<b>>
<1>1. s \in Seq(S) /\ r \in Seq(S) /\ Len(s) = 1 /\ Len(r) = 1 /\ s[1] = a /\ r[1] = b
  OBVIOUS
<1> HIDE DEF s, r
<1>5. /\ s \o r \in Seq(S) /\ Len(s \o r) = Len(s) + Len(r)
      /\ \A i \in 1 .. Len(s) + Len(r) :
            (s \o r)[i] = IF i <= Len(s) THEN s[i] ELSE r[i - Len(s)]
  BY <1>1, ConcatProperties, Zenon
<1> DEFINE sr == s \o r
<1> HIDE DEF sr
<1>2. sr \in Seq(S) /\ Len(sr) = 2
  BY <1>1, <1>5 DEF sr
<1>4. sr[1] = s[1] /\ sr[2] = r[1]
  BY <1>1, <1>5 DEF sr
<1>3. DOMAIN sr = 1 .. 2
  BY <1>2
<1> QED BY <1>1, <1>3, <1>4 DEF s, r, sr

LEMMA KnownShortTerm ==
    ASSUME CreationInv, Alive, NEW p \in Program, ShortTerm(p)
    PROVE  Known'
<1>1. [Next]_vars BY DEF Next
<1>0. \A t \in Thread : Admitted(t) => AdmittedAfter(t)
  BY <1>1, AdmittedStay
<1>2. UNCHANGED <<lpc, current, mainLoaded, semBlocked, joined>> \/ StJoin(p)
  BY DEF ShortTerm, StMoveBegin, StMoveEnd, StJam, StStart, StLoopTest,
         StWakeupThreads, StMainLoaded, StSchedule, StUnpark, StReply,
         StNotifyWakeup, StLogMetrics, ltsVars, semVars
<1>3. UNCHANGED <<lpc, current, mainLoaded, semBlocked>>
  BY <1>2 DEF StJoin, ltsVars, semVars
<1>4. QueuesKnown' /\ MainKnown'
  BY <1>1, <1>3, KnownKept
<1>5. ArgKnown'
  <2>1. \A r \in Program : pc'[r] = "notify" => pc[r] = "notify" /\ arg'[r] = arg[r]
    BY DEF ShortTerm, StMoveBegin, StMoveEnd, StJam, StStart, StLoopTest,
         StWakeupThreads, StMainLoaded, StSchedule, StUnpark, StReply,
         StNotifyWakeup, StJoin, StLogMetrics, Goto, CreationInv, SlotInv, TypeInv, TypeOK
  <2> QED BY <1>0, <2>1
          DEF ArgKnown, CreationInv, Known, SlotInv, TypeInv, TypeOK, ArgIsKept
<1>6. ReadyKnown' /\ ExecKnown' /\ CallsKnown' /\ WakeupsKnown' /\ JoinedKnown'
  <2> USE TcbAssumption
      DEF CreationInv, SlotInv, TypeInv, TypeOK, TcbTypeOK, Known, tcbVars, listVars
  <2>1. CASE StMoveBegin(p)
    <3> DEFINE t == todo[p][1]
    <3>1. t \in MoveCall /\ Admitted(t.tcb)
      BY <2>1, SMTT(60) DEF StMoveBegin, CallsKnown
    <3>2. t.tcb \in Thread /\ t.to \in Active \cup {"EXIT"}
      BY <3>1 DEF MoveCall
    <3>3. AdmittedAfter(t.tcb)
      BY <1>0, <3>1, <3>2
    <3>4. MoveBegin(p, t.tcb, t.to) /\ UNCHANGED <<wakeupList, joined>>
      BY <2>1 DEF StMoveBegin
    <3>5. WakeupsKnown' /\ JoinedKnown' BY <1>1, <3>4, KnownKept, SMTT(60)
    <3>6. \A r \in Program : ready'[r] \subseteq ready[r] \cup {t.tcb}
      BY <3>2, <3>4, ZenonT(60) DEF MoveBegin, program_remove_and_add, Only
    <3>7. ReadyKnown'
      BY <1>0, <1>3, <3>3, <3>6, ZenonT(60) DEF ReadyKnown
    <3>8. \A r \in Program : exec'[r] \in {exec[r], t.tcb, None}
      BY <3>2, <3>4, ZenonT(60) DEF MoveBegin, program_remove_and_add, exec_after
    <3>9. ExecKnown'
      <4>1. \A r \in Program : exec[r] # None => AdmittedAfter(exec[r])
        BY <1>0 DEF ExecKnown
      <4> HIDE DEF t
      <4> QED BY <3>3, <3>8, <4>1 DEF ExecKnown
    <3>10. CallsKnown'
      <4>1. CASE t.to = "EXIT"
        BY <1>1, <2>1, <4>1, CallsTail DEF StMoveBegin
      <4>2. CASE t.to # "EXIT"
        BY <1>1, <2>1, <4>2, KnownKept DEF StMoveBegin
      <4> QED BY <4>1, <4>2
    <3> QED BY <3>5, <3>7, <3>9, <3>10
  <2>2. CASE StMoveEnd(p)
    <3>1. /\ UNCHANGED <<ready, exec, wakeupList, joined>>
          /\ todo[p] # <<>> /\ todo' = [todo EXCEPT ![p] = Tail(@)]
      BY <2>2 DEF StMoveEnd, MoveEnd
    <3> QED BY <1>1, <1>3, <3>1, KnownKept, CallsTail
  <2>3. CASE StWakeupThreads(p)
    <3> DEFINE taken == Taken(wakeupList[p])
    <3>1. /\ UNCHANGED <<ready, exec, joined>>
          /\ wakeupList' = [wakeupList EXCEPT ![p] = Left(@)]
          /\ todo' = [todo EXCEPT ![p] = [i \in DOMAIN taken |-> Wake(taken[i])]]
      BY <2>3 DEF StWakeupThreads
    <3>2. /\ \A i \in DOMAIN taken : AdmittedAfter(taken[i])
          /\ \A i \in DOMAIN Left(wakeupList[p]) : AdmittedAfter(Left(wakeupList[p])[i])
      BY <1>1, HalvesAdmitted DEF WakeupsKnown
    <3>3. \A i \in DOMAIN taken : Wake(taken[i]).tcb = taken[i]
      BY DEF Wake
    <3>4. CallsKnown'
      <4> DEFINE calls == [i \in DOMAIN taken |-> Wake(taken[i])]
      <4>1. todo' = [todo EXCEPT ![p] = calls]
        BY <3>1
      <4>2. \A i \in DOMAIN calls : AdmittedAfter(calls[i].tcb)
        BY <3>2, <3>3
      <4> HIDE DEF calls
      <4> QED BY <1>1, <4>1, <4>2, CallsElsewhere
    <3>5. WakeupsKnown'
      <4> DEFINE left == Left(wakeupList[p])
                 g == [wakeupList EXCEPT ![p] = left]
      <4>1. \A r \in Program \ {p} : \A i \in DOMAIN wakeupList[r] :
                AdmittedAfter(wakeupList[r][i])
        BY <1>1, AllAdmittedKept DEF WakeupsKnown
      <4>2. wakeupList' = g
        BY <3>1
      <4>3. \A i \in DOMAIN left : AdmittedAfter(left[i])
        BY <3>2
      <4> HIDE DEF left
      <4>4. \A r \in Program : g[r] = IF r = p THEN left ELSE wakeupList[r]
        OBVIOUS
      <4> HIDE DEF g
      <4>5. \A r \in Program : \A i \in DOMAIN g[r] : AdmittedAfter(g[r][i])
        BY <4>1, <4>3, <4>4
      <4> QED BY <4>2, <4>5 DEF WakeupsKnown, AllAdmitted, Admitted, AdmittedAfter
    <3> QED BY <1>1, <1>3, <3>1, <3>4, <3>5, KnownKept
  <2>4. CASE StMainLoaded(p)
    <3>1. /\ UNCHANGED <<ready, exec, joined, wakeupList>> /\ mainLoaded[p]
          /\ todo' = [todo EXCEPT ![p] = <<Move(Main[p], "EXEC")>>]
      BY <2>4 DEF StMainLoaded
    <3>2. AdmittedAfter(Main[p])
      BY <1>0, <3>1 DEF MainKnown
    <3>3. CallsKnown'
      <4> DEFINE calls == <<Move(Main[p], "EXEC")>>
      <4>1. todo' = [todo EXCEPT ![p] = calls]
        BY <3>1
      <4>2. \A i \in DOMAIN calls : calls[i].tcb = Main[p]
        BY DEF Move
      <4> HIDE DEF calls
      <4> QED BY <1>1, <3>2, <4>1, <4>2, CallsElsewhere, ZenonT(60)
    <3> QED BY <1>1, <1>3, <3>1, <3>3, KnownKept
  <2>5. CASE StSchedule(p)
    <3>1. UNCHANGED <<ready, exec, joined, wakeupList>> /\ listMutex = None
      BY <2>5 DEF StSchedule
    <3>2. CallsKnown'
      <4>1. CASE UNCHANGED todo BY <1>1, <4>1, KnownKept
      <4>2. ASSUME NEW t \in ready[p], todo' = [todo EXCEPT ![p] = change_exec(p, t)]
            PROVE  CallsKnown'
        <5>1. lpc # "moving"
          BY <3>1 DEF MoverIsKnown
        <5>2. t \in Thread /\ AdmittedAfter(t)
          BY <1>0, <5>1 DEF ReadyKnown
        <5>3. exec[p] # None => exec[p] \in Thread /\ AdmittedAfter(exec[p])
          BY <1>0 DEF ExecKnown
        <5> DEFINE calls == change_exec(p, t)
        <5>4. \A i \in DOMAIN calls : AdmittedAfter(calls[i].tcb)
          <6>1. CASE exec[p] = None
            <7>1. calls = <<Move(t, "EXEC")>>
              BY <6>1 DEF change_exec, Move
            <7> QED BY <5>2, <7>1 DEF Move
          <6>2. CASE exec[p] # None
            <7>0. Move(exec[p], "READY") \in MoveCall /\ Move(t, "EXEC") \in MoveCall
              BY <5>2, <5>3, <6>2 DEF Move, MoveCall, Active
            <7>1. calls = <<Move(exec[p], "READY")>> \o <<Move(t, "EXEC")>>
              BY <6>2 DEF change_exec
            <7>2. /\ calls[1] = Move(exec[p], "READY")
                  /\ calls[2] = Move(t, "EXEC")
                  /\ DOMAIN calls = 1 .. 2
              <8> HIDE DEF calls
              <8> QED BY <7>0, <7>1, PairOfCalls
            <7>3. Move(exec[p], "READY").tcb = exec[p] /\ Move(t, "EXEC").tcb = t
              BY DEF Move
            <7> HIDE DEF calls
            <7> QED BY <5>2, <5>3, <6>2, <7>2, <7>3, SMTT(60)
          <6> QED BY <6>1, <6>2
        <5>5. todo' = [todo EXCEPT ![p] = calls]
          BY <4>2
        <5> HIDE DEF calls
        <5> QED BY <1>1, <5>4, <5>5, CallsElsewhere
      <4> QED BY <2>5, <4>1, <4>2 DEF StSchedule
    <3> QED BY <1>1, <1>3, <3>1, <3>2, KnownKept
  <2>6. CASE StNotifyWakeup(p)
    <3>1. UNCHANGED <<ready, exec, joined, todo>>
      BY <2>6 DEF StNotifyWakeup
    <3>2. /\ arg[p] \in Thread /\ Admitted(arg[p])
          /\ wakeupList' = [wakeupList EXCEPT ![Owner[arg[p]]] = Append(@, arg[p])]
      BY <2>6 DEF StNotifyWakeup, ArgIsKept, ArgKnown
    <3>3. WakeupsKnown'
      <4>1. /\ Owner[arg[p]] \in Program
            /\ wakeupList \in [Program -> Seq(Thread)]
            /\ \A r \in Program : AllAdmitted(wakeupList[r])
        BY <3>2 DEF WakeupsKnown
      <4> HIDE DEF CreationInv, Admitted, AdmittedAfter
      <4>2. \A r \in Program : \A i \in DOMAIN wakeupList'[r] :
                AdmittedAfter(wakeupList'[r][i])
        BY <1>1, <3>2, <4>1, FamilyAppended, Zenon
      <4> QED BY <4>2 DEF WakeupsKnown, AllAdmitted, Admitted, AdmittedAfter
    <3> QED BY <1>1, <1>3, <3>1, <3>3, KnownKept
  <2>7. CASE StJoin(p)
    <3>1. UNCHANGED <<ready, exec, wakeupList>>
      BY <2>7 DEF StJoin
    <3>2. CASE UNCHANGED <<joined, todo>>
      BY <1>1, <1>3, <3>1, <3>2, KnownKept
    <3>3. CASE /\ exec[p] # None
               /\ joined' = [joined EXCEPT ![arg[p]] = Append(@, exec[p])]
               /\ todo' = [todo EXCEPT ![p] = <<Move(exec[p], "BLOCKED")>>]
      <4>1. exec[p] \in Thread /\ Admitted(exec[p]) /\ arg[p] \in Thread
        BY <2>7, <3>3 DEF ExecKnown, StJoin, ArgIsKept
      <4>2. JoinedKnown'
        <5>1. /\ joined \in [Thread -> Seq(Thread)]
              /\ \A r \in Thread : AllAdmitted(joined[r])
          BY DEF JoinedKnown
        <5> HIDE DEF CreationInv, Admitted, AdmittedAfter
        <5>2. \A r \in Thread : \A i \in DOMAIN joined'[r] :
                  AdmittedAfter(joined'[r][i])
          BY <1>1, <3>3, <4>1, <5>1, FamilyAppended, Zenon
        <5> QED BY <5>2 DEF JoinedKnown, AllAdmitted, Admitted, AdmittedAfter
      <4>3. CallsKnown'
        <5> DEFINE calls == <<Move(exec[p], "BLOCKED")>>
        <5>1. todo' = [todo EXCEPT ![p] = calls]
          BY <3>3
        <5>2. \A i \in DOMAIN calls : calls[i].tcb = exec[p]
          BY DEF Move
        <5> HIDE DEF calls
        <5> QED BY <1>0, <1>1, <4>1, <5>1, <5>2, CallsElsewhere, ZenonT(60)
      <4> QED BY <1>1, <1>3, <3>1, <4>2, <4>3, KnownKept
    <3> QED BY <2>7, <3>2, <3>3 DEF StJoin
  <2>8. CASE \/ StJam(p) \/ StStart(p) \/ StLoopTest(p) \/ StUnpark(p)
             \/ StReply(p) \/ StLogMetrics(p)
    <3>1. UNCHANGED <<ready, exec, wakeupList, joined, todo>>
      BY <2>8 DEF StJam, StStart, StLoopTest, StUnpark, StReply, StLogMetrics,
             listVars
    <3> QED BY <1>1, <1>3, <3>1, KnownKept
  <2> QED BY <2>1, <2>2, <2>3, <2>4, <2>5, <2>6, <2>7, <2>8 DEF ShortTerm
<1> QED BY <1>4, <1>5, <1>6 DEF Known

\* Two lists of calls, one after the other.
LEMMA BothParts ==
    ASSUME NEW s \in Seq(MoveCall), NEW r \in Seq(MoveCall),
           \A i \in DOMAIN s : AdmittedAfter(s[i].tcb),
           \A i \in DOMAIN r : AdmittedAfter(r[i].tcb)
    PROVE  \A i \in DOMAIN (s \o r) : AdmittedAfter((s \o r)[i].tcb)
<1>1. /\ DOMAIN (s \o r) = 1 .. Len(s) + Len(r)
      /\ \A i \in 1 .. Len(s) : (s \o r)[i] = s[i]
      /\ \A i \in Len(s) + 1 .. Len(s) + Len(r) : (s \o r)[i] = r[i - Len(s)]
  BY ConcatProperties
<1>2. DOMAIN s = 1 .. Len(s) /\ DOMAIN r = 1 .. Len(r)
  OBVIOUS
<1>3. \A i \in 1 .. Len(s) + Len(r) :
          i \in 1 .. Len(s) \/ (i \in Len(s) + 1 .. Len(s) + Len(r) /\ i - Len(s) \in 1 .. Len(r))
  OBVIOUS
<1> QED BY <1>1, <1>2, <1>3

LEMMA WaitKnown ==
    ASSUME CreationInv, Alive, NEW p \in Program, StWait(p)
    PROVE  QueuesKnown' /\ CallsKnown'
<1>1. [Next]_vars BY DEF Next, Request
<1>0. \A t \in Thread : Admitted(t) => AdmittedAfter(t)
  BY <1>1, AdmittedStay
<1> USE TcbAssumption DEF CreationInv, SlotInv, TypeInv, TypeOK, TcbTypeOK, Known
<1>2. exec[p] \in Thread /\ Admitted(exec[p]) /\ AdmittedAfter(exec[p])
  <2>1. exec[p] \in Thread BY DEF StWait
  <2> QED BY <1>0, <2>1, ZenonT(60) DEF ExecKnown
<1>3. PICK s \in Sem :
          \/ UNCHANGED <<semBlocked, todo>>
          \/ /\ semBlocked' = [semBlocked EXCEPT ![s] = Append(@, exec[p])]
             /\ todo' = [todo EXCEPT ![p] = <<Move(exec[p], "BLOCKED")>>]
  BY DEF StWait
<1>4. CASE UNCHANGED <<semBlocked, todo>>
  BY <1>1, <1>4, KnownKept
<1>5. CASE /\ semBlocked' = [semBlocked EXCEPT ![s] = Append(@, exec[p])]
           /\ todo' = [todo EXCEPT ![p] = <<Move(exec[p], "BLOCKED")>>]
  <2>1. QueuesKnown'
    <3>1. /\ semBlocked \in [Sem -> Seq(Thread)]
          /\ \A r \in Sem : AllAdmitted(semBlocked[r])
      BY DEF QueuesKnown
    <3> HIDE DEF CreationInv, Admitted, AdmittedAfter
    <3>2. \A r \in Sem : \A i \in DOMAIN semBlocked'[r] :
              AdmittedAfter(semBlocked'[r][i])
      BY <1>1, <1>2, <1>5, <3>1, FamilyAppended, Zenon
    <3> QED BY <3>2 DEF QueuesKnown, AllAdmitted, Admitted, AdmittedAfter
  <2> DEFINE calls == <<Move(exec[p], "BLOCKED")>>
  <2>2. todo' = [todo EXCEPT ![p] = calls]
    BY <1>5
  <2>3. \A i \in DOMAIN calls : calls[i].tcb = exec[p]
    BY DEF Move
  <2> HIDE DEF calls
  <2>4. CallsKnown'
    BY <1>1, <1>2, <2>2, <2>3, CallsElsewhere, ZenonT(60)
  <2> QED BY <2>1, <2>4
<1> QED BY <1>3, <1>4, <1>5

LEMMA SignalKnown ==
    ASSUME CreationInv, Alive, NEW p \in Program, StSignal(p)
    PROVE  QueuesKnown' /\ ArgKnown'
<1>1. [Next]_vars BY DEF Next, Request
<1>0. \A t \in Thread : Admitted(t) => AdmittedAfter(t)
  BY <1>1, AdmittedStay
<1> USE DEF CreationInv, SlotInv, TypeInv, TypeOK, TcbTypeOK, Known
<1>3. PICK s \in Sem :
          /\ valor' = [valor EXCEPT ![s] = @ + One(@ < SemMax[s])]
          /\ IF must_wake(valor'[s])
             THEN /\ arg' = [arg EXCEPT ![p] = Head(semBlocked[s])]
                  /\ semBlocked' = [semBlocked EXCEPT ![s] = Tail(@)]
                  /\ Goto(p, "notify")
             ELSE Goto(p, "served") /\ UNCHANGED <<arg, semBlocked>>
  BY DEF StSignal
<1>4. CASE ~must_wake(valor'[s])
  <2>1. Goto(p, "served") /\ UNCHANGED <<arg, semBlocked>>
    BY <1>3, <1>4
  <2>2. ArgKnown'
    BY <1>0, <2>1 DEF ArgKnown, ArgIsKept, Goto
  <2> QED BY <1>1, <2>1, <2>2, KnownKept
<1>5. CASE must_wake(valor'[s])
  <2>1. /\ arg' = [arg EXCEPT ![p] = Head(semBlocked[s])]
        /\ semBlocked' = [semBlocked EXCEPT ![s] = Tail(@)]
        /\ Goto(p, "notify")
    BY <1>3, <1>5
  <2>2. semBlocked[s] # <<>>
    <3>1. valor[s] \in Int /\ SemMax[s] \in Nat \ {0} /\ semBlocked[s] \in Seq(Thread)
      BY SchedulerAssumption
    <3>2. valor'[s] = valor[s] + One(valor[s] < SemMax[s]) /\ valor'[s] <= 0
      BY <1>3, <1>5 DEF must_wake
    <3>3. valor[s] < 0
      <4>1. CASE valor[s] < SemMax[s]
        BY <3>1, <3>2, <4>1 DEF One
      <4>2. CASE ~(valor[s] < SemMax[s])
        BY <3>1, <3>2, <4>2 DEF One
      <4> QED BY <4>1, <4>2
    <3>4. Len(semBlocked[s]) = -valor[s]
      BY <3>3 DEF SemQueueMatches
    <3> QED BY <3>1, <3>3, <3>4
  <2>3. /\ AdmittedAfter(Head(semBlocked[s]))
        /\ \A i \in DOMAIN Tail(semBlocked[s]) : AdmittedAfter(Tail(semBlocked[s])[i])
    BY <1>1, <2>2, TailAdmitted DEF QueuesKnown
  <2>4. QueuesKnown'
    BY <1>1, <2>1, <2>3, AllAdmittedKept, ZenonT(60) DEF QueuesKnown, AllAdmitted
  <2>5. ArgKnown'
    BY <1>0, <2>1, <2>3, SMTT(60) DEF ArgKnown, ArgIsKept, Goto
  <2> QED BY <2>4, <2>5
<1> QED BY <1>4, <1>5

LEMMA CloseKnown ==
    ASSUME CreationInv, Alive, NEW p \in Program, StClose(p)
    PROVE  CallsKnown'
<1>1. [Next]_vars BY DEF Next, Request
<1>0. \A t \in Thread : Admitted(t) => AdmittedAfter(t)
  BY <1>1, AdmittedStay
<1> USE TcbAssumption DEF CreationInv, SlotInv, TypeInv, TypeOK, TcbTypeOK, Known
<1> DEFINE t == exec[p]
           wakes == [i \in DOMAIN joined[t] |-> Move(joined[t][i], "READY")]
           last == <<Move(t, "EXIT")>>
<1>2. t \in Thread /\ AdmittedAfter(t)
  BY <1>1, AdmittedStay, ZenonT(60) DEF StClose, ExecKnown
<1>3. \A i \in DOMAIN joined[t] : joined[t][i] \in Thread /\ AdmittedAfter(joined[t][i])
  <2>1. joined[t] \in Seq(Thread) /\ AllAdmitted(joined[t])
    BY <1>2 DEF JoinedKnown
  <2>2. \A i \in DOMAIN joined[t] : joined[t][i] \in Thread /\ Admitted(joined[t][i])
    BY <2>1 DEF AllAdmitted
  <2> QED BY <1>0, <2>2
<1>4. wakes \in Seq(MoveCall) /\ last \in Seq(MoveCall)
  <2>1. /\ DOMAIN joined[t] = 1 .. Len(joined[t]) /\ Len(joined[t]) \in Nat
        /\ \A i \in DOMAIN joined[t] : Move(joined[t][i], "READY") \in MoveCall
    BY <1>2, <1>3, SMTT(60) DEF Move, MoveCall, Active
  <2>2. Move(t, "EXIT") \in MoveCall
    BY <1>2 DEF Move, MoveCall
  <2> QED BY <2>1, <2>2
<1>5. /\ \A i \in DOMAIN wakes : AdmittedAfter(wakes[i].tcb)
      /\ \A i \in DOMAIN last : AdmittedAfter(last[i].tcb)
  BY <1>2, <1>3, SMTT(60) DEF Move
<1>6. todo' = [todo EXCEPT ![p] = wakes \o last]
  BY DEF StClose, close_calls
<1> HIDE DEF wakes, last
<1>7. \A i \in DOMAIN (wakes \o last) : AdmittedAfter((wakes \o last)[i].tcb)
  BY <1>4, <1>5, BothParts
<1> QED BY <1>1, <1>6, <1>7, CallsElsewhere

LEMMA KnownRequest ==
    ASSUME CreationInv, Alive, NEW p \in Program, Request(p)
    PROVE  Known'
<1>1. [Next]_vars BY DEF Next
<1>0. \A t \in Thread : Admitted(t) => AdmittedAfter(t)
  BY <1>1, AdmittedStay
<1>2. UNCHANGED <<ready, exec, lpc, current, mainLoaded, wakeupList, joined>>
  BY DEF Request, StCreateMain, StCreate, create_tcb, StAskNext, StReject, StCrash, StWait,
         StSignal, StAskJoin, StClose, StDisconnect, ltsVars, tcbVars, listVars
<1>3. ReadyKnown' /\ ExecKnown' /\ MainKnown' /\ WakeupsKnown' /\ JoinedKnown'
  BY <1>1, <1>2, KnownKept
<1>4. UNCHANGED semBlocked => QueuesKnown'
  BY <1>1, KnownKept
<1>5. UNCHANGED todo => CallsKnown'
  BY <1>1, KnownKept
<1>6. (\A r \in Program : pc'[r] = "notify" => pc[r] = "notify" /\ arg'[r] = arg[r])
          => ArgKnown'
  BY <1>0 DEF ArgKnown, CreationInv, Known, SlotInv, TypeInv, TypeOK, ArgIsKept
<1>7. CASE StWait(p)
  <2>1. \A r \in Program : pc'[r] = "notify" => pc[r] = "notify" /\ arg'[r] = arg[r]
    BY <1>7 DEF StWait, Goto, CreationInv, SlotInv, TypeInv, TypeOK
  <2> QED BY <1>3, <1>6, <1>7, <2>1, WaitKnown DEF Known
<1>8. CASE StSignal(p)
  <2>1. UNCHANGED todo BY <1>8 DEF StSignal
  <2> QED BY <1>3, <1>5, <1>8, <2>1, SignalKnown DEF Known
<1>9. CASE StClose(p)
  <2>1. UNCHANGED semBlocked BY <1>9 DEF StClose, semVars
  <2>2. \A r \in Program : pc'[r] = "notify" => pc[r] = "notify" /\ arg'[r] = arg[r]
    BY <1>9 DEF StClose, Goto, CreationInv, SlotInv, TypeInv, TypeOK
  <2> QED BY <1>3, <1>4, <1>6, <1>9, <2>1, <2>2, CloseKnown DEF Known
<1>10. CASE ~(StWait(p) \/ StSignal(p) \/ StClose(p))
  <2>1. UNCHANGED <<semBlocked, todo>>
    BY <1>10 DEF Request, StCreateMain, StCreate, StAskNext, StReject,
           StCrash, StAskJoin, StDisconnect, semVars
  <2>2. \A r \in Program : pc'[r] = "notify" => pc[r] = "notify" /\ arg'[r] = arg[r]
    BY <1>10 DEF Request, StCreateMain, StCreate, StAskNext, StReject, StCrash, StAskJoin,
           StDisconnect, Goto, CreationInv, SlotInv, TypeInv, TypeOK
  <2> QED BY <1>3, <1>4, <1>5, <1>6, <2>1, <2>2 DEF Known
<1> QED BY <1>7, <1>8, <1>9, <1>10

LEMMA KnownConsole ==
    ASSUME CreationInv, [Next]_vars,
           Ending \/ Quit \/ (\E p \in Program : Accept(p)) \/ UNCHANGED vars
    PROVE  Known'
<1>0. \A t \in Thread : Admitted(t) => AdmittedAfter(t)
  BY AdmittedStay
<1>1. UNCHANGED <<ready, exec, lpc, current, mainLoaded, wakeupList, joined,
                  semBlocked, todo, arg>>
  BY DEF Ending, ListenerEnd, ShutdownSocket, JoinListener, JoinLongTerm,
         JoinPrograms, Quit, Accept, vars, ltsVars, tcbVars, listVars, semVars
<1>2. \A r \in Program : pc'[r] = "notify" => pc[r] = "notify"
  BY DEF Ending, ListenerEnd, ShutdownSocket, JoinListener, JoinLongTerm,
         JoinPrograms, Quit, Accept, vars, Goto, CreationInv, SlotInv, TypeInv, TypeOK
<1>3. ArgKnown'
  BY <1>0, <1>1, <1>2 DEF ArgKnown, CreationInv, Known, SlotInv, TypeInv, TypeOK, ArgIsKept
<1> QED BY <1>1, <1>3, KnownKept DEF Known
-----------------------------------------------------------------------------
\* The head leaves a list without repetitions: what remains is the rest.
LEMMA HeadRemoved ==
    ASSUME NEW list \in Seq(Thread), list # <<>>,
           \A i, j \in DOMAIN list : list[i] = list[j] => i = j
    PROVE  /\ Len(list_remove(list, list[1])) = Len(list) - 1
           /\ DOMAIN list_remove(list, list[1]) = 1 .. Len(list) - 1
           /\ \A i \in 1 .. Len(list) - 1 :
                  list_remove(list, list[1])[i] = list[i + 1]
<1>1. Len(list) \in Nat \ {0} /\ DOMAIN list = 1 .. Len(list)
  OBVIOUS
<1>2. find_tcb_pos(list, list[1]) = 1
  BY <1>1 DEF find_tcb_pos
<1>3. list_remove(list, list[1]) = [i \in 1 .. Len(list) - 1 |-> list[i + 1]]
  BY <1>1, <1>2 DEF list_remove
<1>4. Len(list) - 1 \in Nat
  BY <1>1
<1> QED BY <1>3, <1>4

\* What the line keeps when its variables do not change and NEW threads stay.
LEMMA LineKept ==
    ASSUME CreationInv, UNCHANGED <<newList, lpc, current, newCounter, endsuse, console>>,
           \A t \in Thread : state[t] = "NEW" => state'[t] = "NEW"
    PROVE  NewListKnown' /\ PostsMatch'
<1>1. newList \in Seq(Thread) /\ (lpc = "moving" => current \in Thread)
  BY DEF CreationInv, SlotInv, TypeInv, TypeOK, TcbTypeOK, CurrentIsKept
<1>2. \A i \in DOMAIN newList : newList[i] \in Thread
  BY <1>1
<1>3. InLine' = InLine
  BY DEF InLine
<1>4. NewListKnown'
  BY <1>1, <1>2, <1>3 DEF CreationInv, NewListKnown
<1>5. PostsMatch'
  BY <1>3 DEF CreationInv, PostsMatch
<1> QED BY <1>4, <1>5

LEMMA LineShortTerm ==
    ASSUME CreationInv, NEW p \in Program, ShortTerm(p)
    PROVE  NewListKnown' /\ PostsMatch'
<1>1. \A t \in Thread : state[t] = "NEW" => state'[t] = "NEW"
  BY ShortTermStates DEF CreationInv, SlotInv, TypeInv, TypeOK, TcbTypeOK, Active
<1>2. UNCHANGED <<lpc, current, newCounter, endsuse, console>>
  BY DEF ShortTerm, StMoveBegin, StMoveEnd, StJam, StStart, StLoopTest,
         StWakeupThreads, StMainLoaded, StSchedule, StUnpark, StReply,
         StNotifyWakeup, StJoin, StLogMetrics, ltsVars, consoleVars
<1>3. UNCHANGED newList
  <2>1. CASE StMoveBegin(p)
    <3>1. Admitted(todo[p][1].tcb)
      BY <2>1 DEF StMoveBegin, CreationInv, SlotInv, TypeInv, TypeOK, Known, CallsKnown
    <3>2. state[todo[p][1].tcb] # "NEW"
      BY <3>1 DEF Active
    <3> QED BY <2>1, <3>2 DEF StMoveBegin, MoveBegin
  <2>2. CASE ~StMoveBegin(p)
    BY <2>2 DEF ShortTerm, StMoveEnd, MoveEnd, StJam, StStart, StLoopTest,
         StWakeupThreads, StMainLoaded, StSchedule, StUnpark, StReply,
         StNotifyWakeup, StJoin, StLogMetrics, tcbVars, listVars
  <2> QED BY <2>1, <2>2
<1> QED BY <1>1, <1>2, <1>3, LineKept

\* create_tcb: the new thread joins the end of the line, with its post.
LEMMA LineCreate ==
    ASSUME CreationInv, NEW p \in Program, NEW t \in Thread, create_tcb(p, t),
           UNCHANGED <<lpc, current, endsuse, console>>
    PROVE  NewListKnown' /\ PostsMatch'
<1> DEFINE list == Append(newList, t)
<1>1. /\ newList \in Seq(Thread) /\ (lpc = "moving" => current \in Thread)
      /\ newCounter \in Nat /\ state \in [Thread -> State]
  BY DEF CreationInv, SlotInv, TypeInv, TypeOK, TcbTypeOK, CurrentIsKept
<1>2. /\ newList' = list /\ state[t] = "none" /\ newCounter' = newCounter + 1
      /\ state' = [state EXCEPT ![t] = "NEW"]
  BY DEF create_tcb
<1>3. /\ DOMAIN list = 1 .. Len(newList) + 1 /\ Len(list) = Len(newList) + 1
      /\ list[Len(newList) + 1] = t
      /\ \A i \in 1 .. Len(newList) : list[i] = newList[i]
      /\ DOMAIN newList = 1 .. Len(newList) /\ Len(newList) \in Nat
  BY <1>1
<1>4. \A i \in 1 .. Len(newList) : newList[i] \in Thread /\ newList[i] # t
  BY <1>1, <1>2 DEF CreationInv, NewListKnown
<1>5. InLine' = InLine
  BY DEF InLine
<1> HIDE DEF list
<1>6. \A i \in DOMAIN list :
        /\ state'[list[i]] = "NEW"
        /\ lpc = "moving" => list[i] # current
        /\ \A j \in DOMAIN list : list[i] = list[j] => i = j
  <2>1. ASSUME NEW i \in 1 .. Len(newList)
        PROVE  /\ state'[list[i]] = "NEW"
               /\ lpc = "moving" => list[i] # current
               /\ \A j \in DOMAIN list : list[i] = list[j] => i = j
    <3>1. list[i] = newList[i] /\ newList[i] \in Thread /\ newList[i] # t
      BY <1>3, <1>4
    <3>2. /\ state[newList[i]] = "NEW" /\ (lpc = "moving" => newList[i] # current)
          /\ \A j \in DOMAIN newList : newList[i] = newList[j] => i = j
      BY <1>3 DEF CreationInv, NewListKnown
    <3>3. \A j \in DOMAIN list : list[i] = list[j] => i = j
      BY <1>3, <3>1, <3>2
    <3> QED BY <1>1, <1>2, <3>1, <3>2, <3>3
  <2>2. /\ state'[t] = "NEW" /\ (lpc = "moving" => t # current)
        /\ \A j \in DOMAIN list : list[j] = t => j = Len(newList) + 1
    BY <1>1, <1>2, <1>3, <1>4 DEF CreationInv, NewListKnown
  <2> QED BY <1>3, <2>1, <2>2
<1>7. NewListKnown'
  <2>1. InLine => list # <<>> /\ current = list[1]
    BY <1>3 DEF CreationInv, NewListKnown
  <2>2. lpc = "moving" => state'[current] = "NEW"
    BY <1>1, <1>2 DEF CreationInv, NewListKnown
  <2>3. endsuse <=> console # "readline"
    BY DEF CreationInv, NewListKnown
  <2> QED BY <1>2, <1>5, <1>6, <2>1, <2>2, <2>3 DEF NewListKnown
<1>8. PostsMatch'
  <2> DEFINE served == One(InLine)
             last == One(console \notin BeforeTheLastPost)
  <2>1. served \in Int /\ last \in Int
    BY DEF One
  <2>2. lpc # "done" => newCounter + served = Len(newList) + last
    BY DEF CreationInv, PostsMatch
  <2>3. served' = served /\ last' = last
    BY <1>5
  <2>4. Len(newList') = Len(newList) + 1
    BY <1>2, <1>3
  <2>5. PostsMatch' = (lpc' # "done" => newCounter' + served' = Len(newList') + last')
    BY DEF PostsMatch
  <2>6. /\ newCounter \in Nat /\ Len(newList) \in Nat
        /\ newCounter' = newCounter + 1 /\ lpc' = lpc
    BY <1>1, <1>2, <1>3
  <2> HIDE DEF served, last
  <2>7. lpc' # "done" => newCounter' + served' = Len(newList') + last'
    BY <2>1, <2>2, <2>3, <2>4, <2>6
  <2> QED BY <2>5, <2>7
<1> QED BY <1>7, <1>8

LEMMA LineRequest ==
    ASSUME CreationInv, NEW p \in Program, Request(p)
    PROVE  NewListKnown' /\ PostsMatch'
<1>1. CASE StCreateMain(p)
  <2>1. Main[p] \in Thread BY TcbAssumption
  <2> QED BY <1>1, <2>1, LineCreate DEF StCreateMain, consoleVars
<1>2. CASE StCreate(p)
  <2>1. PICK t \in ThreadsOf(p) \ {Main[p]} : create_tcb(p, t)
    BY <1>2 DEF StCreate
  <2>2. t \in Thread BY DEF ThreadsOf
  <2> QED BY <1>2, <2>1, <2>2, LineCreate DEF StCreate, consoleVars
<1>3. CASE ~(StCreateMain(p) \/ StCreate(p))
  <2>1. UNCHANGED <<state, newList, lpc, current, newCounter, endsuse, console>>
    BY <1>3 DEF Request, StAskNext, StReject, StCrash, StWait, StSignal, StAskJoin,
           StClose, StDisconnect, tcbVars, listVars, ltsVars, consoleVars
  <2> QED BY <2>1, LineKept
<1> QED BY <1>1, <1>2, <1>3

\* The long-term scheduler takes a post with the head of the line, and the
\* head out of the line when it moves it.
LEMMA LineLongTerm ==
    ASSUME CreationInv, LongTerm
    PROVE  NewListKnown' /\ PostsMatch'
<1>1. /\ newList \in Seq(Thread) /\ newCounter \in Nat /\ state \in [Thread -> State]
      /\ DOMAIN newList = 1 .. Len(newList) /\ Len(newList) \in Nat
      /\ \A i \in DOMAIN newList : newList[i] \in Thread
      /\ (lpc \in {"moving", "signal"} => current \in Thread)
  BY DEF CreationInv, SlotInv, TypeInv, TypeOK, TcbTypeOK, CurrentIsKept
<1>2. UNCHANGED <<endsuse, console>>
  BY DEF LongTerm, LtsTake, LtsStop, LtsCheckWait, LtsCheckPost, LtsMoveBegin,
         LtsMoveEnd, LtsSignalMain, consoleVars
<1> USE DEF CreationInv
<1>4. CASE LtsTake
  <2>1. /\ lpc = "wait" /\ newCounter > 0 /\ ~endsuse /\ lpc' = "check"
        /\ newCounter' = newCounter - 1 /\ UNCHANGED <<state, newList>>
        /\ current' = IF newList = <<>> THEN None ELSE newList[1]
    BY <1>4 DEF LtsTake, tcbVars, listVars
  <2>2. console = "readline" /\ ~InLine /\ InLine'
    BY <2>1 DEF NewListKnown, InLine
  <2>3. newCounter = Len(newList)
    <3>1. One(InLine) = 0 /\ One(console \notin BeforeTheLastPost) = 0
      BY <2>2 DEF One, BeforeTheLastPost
    <3> QED BY <1>1, <2>1, <3>1 DEF PostsMatch
  <2>4. newList # <<>>
    BY <1>1, <2>1, <2>3
  <2>5. NewListKnown'
    BY <1>2, <2>1, <2>4 DEF NewListKnown
  <2>6. newCounter' + One(InLine)' = Len(newList')
    <3>1. One(InLine)' = 1 BY <2>2 DEF One
    <3> QED BY <1>1, <2>1, <2>3, <3>1
  <2>7. One(console \notin BeforeTheLastPost)' = 0
    BY <1>2, <2>2 DEF One, BeforeTheLastPost
  <2>8. PostsMatch'
    BY <1>1, <2>1, <2>6, <2>7 DEF PostsMatch
  <2> QED BY <2>5, <2>8
<1>5. CASE LtsStop
  <2>1. lpc = "wait" /\ lpc' = "done" /\ UNCHANGED <<state, newList>>
    BY <1>5 DEF LtsStop, tcbVars, listVars
  <2> QED BY <1>2, <2>1 DEF NewListKnown, PostsMatch, InLine
<1>6. CASE LtsCheckWait \/ LtsCheckPost
  <2>1. /\ InLine /\ UNCHANGED <<state, newList, newCounter, current>>
        /\ lpc # "done" /\ lpc # "moving"
    BY <1>6 DEF LtsCheckWait, LtsCheckPost, InLine, listVars
  <2>2. newList # <<>> /\ current = newList[1]
    BY <2>1 DEF NewListKnown
  <2>3. current # None
    BY <1>1, <2>2, TcbAssumption
  <2>4. InLine' /\ lpc' # "moving" /\ lpc' # "done"
    BY <1>6, <2>3 DEF LtsCheckWait, LtsCheckPost, InLine
  <2>5. NewListKnown'
    BY <1>2, <2>1, <2>2, <2>4 DEF NewListKnown
  <2>6. InLine' = InLine BY <2>1, <2>4 DEF InLine
  <2>7. PostsMatch' BY <1>2, <2>1, <2>6 DEF PostsMatch
  <2> QED BY <2>5, <2>7
<1>7. CASE LtsMoveBegin
  <2>1. /\ lpc = "move" /\ lpc' = "moving" /\ UNCHANGED <<newCounter, current>>
        /\ MoveBegin(Lts, current, "READY")
    BY <1>7 DEF LtsMoveBegin
  <2>2. InLine /\ ~InLine'
    BY <2>1 DEF InLine
  <2>3. newList # <<>> /\ current = newList[1] /\ 1 \in DOMAIN newList
    BY <1>1, <2>2 DEF NewListKnown
  <2>4. state[current] = "NEW"
    BY <2>3, SMTT(60) DEF NewListKnown
  <2>5. UNCHANGED state /\ newList' = list_remove(newList, newList[1])
    BY <2>1, <2>3, <2>4, SMTT(60) DEF MoveBegin, Active
  <2>6. \A i, j \in DOMAIN newList : newList[i] = newList[j] => i = j
    BY SMTT(60) DEF NewListKnown
  <2>7. /\ Len(newList') = Len(newList) - 1
        /\ DOMAIN newList' = 1 .. Len(newList) - 1
        /\ \A i \in 1 .. Len(newList) - 1 : newList'[i] = newList[i + 1]
    BY <1>1, <2>3, <2>5, <2>6, HeadRemoved
  <2>8. \A i \in 1 .. Len(newList) - 1 : i + 1 \in DOMAIN newList /\ i + 1 # 1
    BY <1>1
  <2>9. \A i \in DOMAIN newList' :
          /\ state[newList'[i]] = "NEW"
          /\ newList'[i] # current
          /\ \A j \in DOMAIN newList' : newList'[i] = newList'[j] => i = j
    <3>1. ASSUME NEW i \in DOMAIN newList'
          PROVE  /\ state[newList'[i]] = "NEW"
                 /\ newList'[i] # current
                 /\ \A j \in DOMAIN newList' : newList'[i] = newList'[j] => i = j
      <4>1. newList'[i] = newList[i + 1] /\ i + 1 \in DOMAIN newList /\ i + 1 # 1
        BY <2>7, <2>8
      <4>2. state[newList'[i]] = "NEW"
        BY <4>1 DEF NewListKnown
      <4>3. newList'[i] # current
        BY <2>3, <2>6, <4>1
      <4>4. ASSUME NEW j \in DOMAIN newList', newList'[i] = newList'[j]
            PROVE  i = j
        <5>1. newList[i + 1] = newList[j + 1] /\ j + 1 \in DOMAIN newList
          BY <2>7, <2>8, <4>1, <4>4
        <5>2. i + 1 = j + 1
          BY <2>6, <4>1, <5>1
        <5> QED BY <1>1, <2>7, <5>2
      <4> QED BY <4>2, <4>3, <4>4
    <3> QED BY <3>1
  <2>10. NewListKnown'
    BY <1>2, <2>1, <2>2, <2>4, <2>5, <2>9 DEF NewListKnown
  <2>11. One(InLine) = 1 /\ One(InLine)' = 0
    BY <2>2 DEF One
  <2>12. /\ One(console \notin BeforeTheLastPost)' = One(console \notin BeforeTheLastPost)
         /\ One(console \notin BeforeTheLastPost) \in Int
    BY <1>2 DEF One
  <2>13. PostsMatch'
    BY <1>1, <2>1, <2>7, <2>11, <2>12 DEF PostsMatch
  <2> QED BY <2>10, <2>13
<1>8. CASE LtsMoveEnd
  <2>1. /\ lpc = "moving" /\ lpc' \in {"signal", "wait", "done"}
        /\ UNCHANGED <<newCounter, current, newList>>
        /\ state' = [state EXCEPT ![current] = "READY"]
    BY <1>8 DEF LtsMoveEnd, LtsNext, MoveEnd, listVars
  <2>2. \A i \in DOMAIN newList :
            newList[i] # current /\ state'[newList[i]] = "NEW"
    BY <1>1, <2>1 DEF NewListKnown
  <2>3. ~InLine /\ ~InLine' BY <2>1 DEF InLine
  <2>4. NewListKnown'
    BY <1>2, <2>1, <2>2, <2>3 DEF NewListKnown
  <2>5. InLine' = InLine BY <2>1 DEF InLine
  <2>6. PostsMatch' BY <1>2, <2>1, <2>5 DEF PostsMatch
  <2> QED BY <2>4, <2>6
<1>9. CASE LtsSignalMain
  <2>1. /\ lpc = "signal" /\ lpc' \in {"wait", "done"}
        /\ UNCHANGED <<newCounter, current, newList, state>>
    BY <1>9 DEF LtsSignalMain, LtsNext, tcbVars, listVars
  <2>2. ~InLine /\ ~InLine' /\ InLine' = InLine BY <2>1 DEF InLine
  <2>3. NewListKnown' BY <1>2, <2>1, <2>2 DEF NewListKnown
  <2>4. PostsMatch' BY <1>2, <2>1, <2>2 DEF PostsMatch
  <2> QED BY <2>3, <2>4
<1> QED BY <1>4, <1>5, <1>6, <1>7, <1>8, <1>9 DEF LongTerm

\* The listener and the console: main's last post gets no thread, and comes
\* after endsuse.
LEMMA LineConsole ==
    ASSUME CreationInv,
           Ending \/ Quit \/ (\E p \in Program : Accept(p)) \/ UNCHANGED vars
    PROVE  NewListKnown' /\ PostsMatch'
<1>1. UNCHANGED <<state, newList, lpc, current>>
  BY DEF Ending, ListenerEnd, ShutdownSocket, JoinListener, JoinLongTerm,
         JoinPrograms, Quit, Accept, vars, ltsVars, tcbVars, listVars
<1>2. InLine' = InLine BY <1>1 DEF InLine
<1>3. endsuse' <=> console' # "readline"
  BY DEF Ending, ListenerEnd, ShutdownSocket, JoinListener, JoinLongTerm,
         JoinPrograms, Quit, Accept, vars, consoleVars, CreationInv, NewListKnown
<1>4. NewListKnown'
  BY <1>1, <1>2, <1>3 DEF CreationInv, NewListKnown
<1>5. CASE JoinListener
  <2>1. /\ console = "joinlistener" /\ console' = "joinlts"
        /\ newCounter' = newCounter + 1
    BY <1>5 DEF JoinListener, last_post
  <2>2. /\ One(console \notin BeforeTheLastPost) = 0
        /\ One(console \notin BeforeTheLastPost)' = 1
    BY <2>1 DEF One, BeforeTheLastPost
  <2>3. newCounter \in Nat /\ One(InLine) \in Int /\ Len(newList) \in Nat
    BY DEF CreationInv, SlotInv, TypeInv, TypeOK, TcbTypeOK, One
  <2>4. PostsMatch'
    BY <1>1, <1>2, <2>1, <2>2, <2>3 DEF CreationInv, PostsMatch
  <2> QED BY <1>4, <2>4
<1>6. CASE ~JoinListener
  <2>1. /\ newCounter' = newCounter
        /\ console' \in BeforeTheLastPost <=> console \in BeforeTheLastPost
    BY <1>6 DEF Ending, ListenerEnd, ShutdownSocket, JoinLongTerm, JoinPrograms,
           Quit, Accept, vars, consoleVars, ltsVars, BeforeTheLastPost
  <2>2. One(console \notin BeforeTheLastPost)' = One(console \notin BeforeTheLastPost)
    BY <2>1 DEF One
  <2>3. PostsMatch'
    BY <1>1, <1>2, <2>1, <2>2 DEF CreationInv, PostsMatch
  <2> QED BY <1>4, <2>3
<1> QED BY <1>5, <1>6
-----------------------------------------------------------------------------
LEMMA CreationInit == Init => CreationInv
<1> SUFFICES ASSUME Init PROVE CreationInv
  OBVIOUS
<1>1. SlotInv BY SlotInit
<1>2. Known
  BY DEF Init, TcbInit, Known, ReadyKnown, ExecKnown, QueuesKnown, WakeupsKnown,
         JoinedKnown, CallsKnown, ArgKnown, MainKnown, AllAdmitted
<1>3. NewListKnown
  BY DEF Init, TcbInit, NewListKnown, InLine
<1>4. PostsMatch
  BY DEF Init, TcbInit, PostsMatch, InLine, BeforeTheLastPost, One
<1> QED BY <1>1, <1>2, <1>3, <1>4 DEF CreationInv

LEMMA CreationStep == CreationInv /\ [Next]_vars => CreationInv'
<1> SUFFICES ASSUME CreationInv, [Next]_vars PROVE CreationInv'
  OBVIOUS
<1>1. SlotInv' BY SlotStep DEF CreationInv
<1>2. Known' /\ NewListKnown' /\ PostsMatch'
  <2>1. CASE Alive /\ LongTerm
    BY <2>1, KnownLongTerm, LineLongTerm
  <2>2. ASSUME NEW p \in Program, Alive, ShortTerm(p)
        PROVE  Known' /\ NewListKnown' /\ PostsMatch'
    BY <2>2, KnownShortTerm, LineShortTerm
  <2>3. ASSUME NEW p \in Program, Alive, Request(p)
        PROVE  Known' /\ NewListKnown' /\ PostsMatch'
    BY <2>3, KnownRequest, LineRequest
  <2>4. CASE Ending \/ Quit \/ (\E p \in Program : Accept(p)) \/ UNCHANGED vars
    BY <2>4, KnownConsole, LineConsole
  <2> QED BY <2>1, <2>2, <2>3, <2>4 DEF Next
<1> QED BY <1>1, <1>2 DEF CreationInv

\* The invariant of this module holds of every server.
THEOREM CreationCorrect == Spec => []CreationInv
<1> QED BY CreationInit, CreationStep, PTL DEF Spec

\* No created thread is lost: get_new_tcb never returns NULL, and a thread of
\* newList has a post of new_counter to be admitted by.
THEOREM CreationsHold == Spec => []NoLostCreation
<1>1. CreationInv => NoLostCreation
  <2> SUFFICES ASSUME CreationInv PROVE NoLostCreation
    OBVIOUS
  <2>1. lpc \in {"check", "post", "move", "moving", "signal"} => current # None
    <3>1. CASE InLine
      <4>1. newList # <<>> /\ current = newList[1]
        BY <3>1 DEF CreationInv, NewListKnown
      <4>2. newList[1] \in Thread
        BY <4>1 DEF CreationInv, SlotInv, TypeInv, TypeOK, TcbTypeOK
      <4> QED BY <4>1, <4>2, TcbAssumption
    <3>2. CASE lpc \in {"moving", "signal"}
      BY <3>2, TcbAssumption DEF CreationInv, SlotInv, TypeInv, CurrentIsKept
    <3> QED BY <3>1, <3>2 DEF InLine
  <2> QED BY <2>1 DEF CreationInv, PostsMatch, InLine, NoLostCreation
<1> QED BY <1>1, CreationCorrect, PTL
=============================================================================
