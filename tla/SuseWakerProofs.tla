-------------------------- MODULE SuseWakerProofs --------------------------
(* A blocked thread has one waker, and what rests on it: no scheduler moves *)
(* a thread that has changed since it was chosen, the lists and counters    *)
(* agree with the states, the executing thread is the client's, and the     *)
(* server implements ThreadLifecycle.                                       *)
(*                                                                          *)
(* WakerInv is inductive.  Its part of wakers (ThreadsWait) needs the rest: *)
(* a thread is woken only where it is listed (ListsMatchPlace), by calls    *)
(* that are still legal when they are made (AllCallsKnown), for a client    *)
(* that runs program->exec (ClientKnown).  One lemma per action shows that  *)
(* it is kept; the generic steps before them say what a step must leave     *)
(* alone for the other programs' schedulers and threads to stay right.      *)
EXTENDS SuseCreationProofs

\* The elements of a list, and the calls of move_tcb_to that p still makes.
Members(list) == {list[i] : i \in DOMAIN list}
Distinct(list) == \A i, j \in DOMAIN list : list[i] = list[j] => i = j
Calls(p) == Members(todo[p])

\* The list a thread is on: that of its state, or of where it is moving.
Destination == IF listMutex = Lts THEN "READY" ELSE todo[listMutex][1].to
Place(t) == IF t = Moving THEN Destination ELSE state[t]

\* Also while a thread moves, every list holds the threads placed on it.
ListsMatchPlace ==
    \A t \in Thread :
        /\ t \in ready[Owner[t]] <=> Place(t) = "READY"
        /\ exec[Owner[t]] = t <=> Place(t) = "EXEC"
        /\ t \in blockedList <=> Place(t) = "BLOCKED"
        /\ t \in exitList <=> Place(t) = "EXIT"
        /\ t \in Members(newList) <=> Place(t) = "NEW"

\* What a program's scheduler keeps are the program's threads.
OwnThreadsOf(p) ==
    /\ ready[p] \subseteq ThreadsOf(p)
    /\ exec[p] # None => exec[p] \in ThreadsOf(p)
    /\ Members(wakeupList[p]) \subseteq ThreadsOf(p)
    /\ \A c \in Calls(p) : c.tcb \in ThreadsOf(p)
    /\ pc[p] \in {"join", "joinmiss"} => arg[p] \in ThreadsOf(p)
JoinedAreOwn == \A u \in Thread : Members(joined[u]) \subseteq ThreadsOf(Owner[u])
OwnThreads == JoinedAreOwn /\ \A p \in Program : OwnThreadsOf(p)

\* Every call a scheduler is still to make is legal, not the next one only.
LegalCall(c) ==
    /\ <<state[c.tcb], c.to>> \in LegalMove
    /\ c.wake => c.to = "READY" /\ state[c.tcb] = "BLOCKED"

\* No thread is moved twice; a thread that executes, exits or blocks is the
\* last one moved.
CallsDiffer(list) == \A i, j \in DOMAIN list : list[i].tcb = list[j].tcb => i = j
CallsEnd(list) ==
    \A i \in DOMAIN list :
        /\ list[i].to \in {"EXEC", "EXIT"} => i = Len(list)
        /\ list[i].to = "BLOCKED" => Len(list) = 1

\* Who executes is moved before another thread is moved to EXEC.
ExecIsFreed(p) ==
    \A c \in Calls(p) : c.to = "EXEC" => exec[p] = None \/ exec[p] = todo[p][1].tcb

\* suse_close wakes those that joined the thread, and nobody else.
Closing(p, u) == \E c \in Calls(p) : c.tcb = u /\ c.to = "EXIT"
CloseWakes(p) ==
    /\ \A c \in Calls(p) :
          ~c.wake /\ c.to = "READY" /\ state[c.tcb] = "BLOCKED" =>
              \E u \in Thread : Closing(p, u) /\ c.tcb \in Members(joined[u])
    /\ \A u \in Thread : Closing(p, u) =>
          \A t \in Members(joined[u]) : state[t] = "BLOCKED" =>
              \E c \in Calls(p) : c.tcb = t /\ c.to = "READY"

\* What is known of the calls a scheduler is still to make.
CallsKnownOf(p) ==
    /\ \A c \in Calls(p) : LegalCall(c)
    /\ CallsDiffer(todo[p]) /\ CallsEnd(todo[p])
    /\ ExecIsFreed(p) /\ CloseWakes(p)
AllCallsKnown == \A p \in Program : CallsKnownOf(p)

\* No thread is twice in a queue.
QueuesDistinct ==
    /\ \A s \in Sem : Distinct(semBlocked[s])
    /\ \A p \in Program : Distinct(wakeupList[p])
    /\ \A u \in Thread : Distinct(joined[u])

\* The places a wake-up for t can come from or is on its way in.
WaitsOn(t, kind, x) ==
    \/ kind = "sem" /\ x \in Sem /\ t \in Members(semBlocked[x])
    \/ kind = "notify" /\ x \in Program /\ pc[x] = "notify" /\ arg[x] = t
    \/ kind = "wakeup" /\ x \in Program /\ t \in Members(wakeupList[x])
    \/ kind = "wake" /\ x \in Program /\ \E c \in Calls(x) : c.wake /\ c.tcb = t
    \/ kind = "join" /\ x \in Thread /\ state[x] # "EXIT" /\ t \in Members(joined[x])

Kind == {"sem", "notify", "wakeup", "wake", "join"}
Waker == Sem \cup Program \cup Thread

\* The move of t to BLOCKED is still to be made; or it was, and no wake-up since.
Blocking(t) == \E c \in Calls(Owner[t]) : c.tcb = t /\ c.to = "BLOCKED"
Parked(t) == state[t] = "BLOCKED" \/ Blocking(t)

\* A parked thread waits for one thing.  What it waits for finds it parked,
\* or waits for it to be: nobody takes a thread from a semaphore before it is
\* on blockedList.  A joined thread that closes still lists those it woke.
WaitsRight(t) ==
    /\ \A k1, k2 \in Kind, x1, x2 \in Waker :
          WaitsOn(t, k1, x1) /\ WaitsOn(t, k2, x2) => k1 = k2 /\ x1 = x2
    /\ \A k \in Kind, x \in Waker : WaitsOn(t, k, x) =>
          \/ state[t] = "BLOCKED"
          \/ k \in {"sem", "join"} /\ Blocking(t)
          \/ k = "join" /\ Closing(Owner[t], x)
    /\ Parked(t) => \E k \in Kind, x \in Waker : WaitsOn(t, k, x)
    /\ \A s \in Sem : WaitsOn(t, "sem", s) /\ Blocking(t) => semMutex[s] = Owner[t]
ThreadsWait == \A t \in Thread : WaitsRight(t)

\* What the client knows, by the place of its scheduler.
Serving == {"recv", "served", "check", "notify", "create", "log", "join", "joinmiss"}
ClientKnownOf(p) ==
    /\ pc[p] \in {"none", "start"} => cur[p] = None
    /\ cur[p] = None => \A t \in ThreadsOf(p) : state[t] = "none"
    /\ cur[p] # None /\ pc[p] # "mainwait" => mainLoaded[p]
    /\ pc[p] = "mainwait" =>
          /\ cur[p] = Main[p]
          /\ \A t \in ThreadsOf(p) : state[t] \in {"none", "NEW", "READY"}
    /\ pc[p] \in Serving /\ cur[p] # None /\ ~owes[p] =>
          /\ exec[p] = cur[p] \/ (todo[p] # <<>> /\ todo[p][1] = Move(cur[p], "EXEC"))
          /\ \A c \in Calls(p) : c.wake \/ c.to = "EXEC"
    /\ pc[p] \in {"join", "joinmiss"} => cur[p] # None /\ \A c \in Calls(p) : c.wake
    /\ pc[p] = "crashed" => owes[p]
    /\ pc[p] = "reply" =>
          \/ \E c \in Calls(p) : c.to = "EXEC"
          \/ exec[p] # None /\ todo[p] = <<>>
ClientKnown == \A p \in Program : ClientKnownOf(p)

\* A short-term scheduler gave back a slot before it waits for one.
SlotToCome ==
    listMutex \in Program /\ jammed = None => degree < MaxMultiprog

WakerPart ==
    /\ ListsMatchPlace /\ OwnThreads /\ AllCallsKnown /\ QueuesDistinct
    /\ ThreadsWait /\ ClientKnown /\ SlotToCome

WakerInv == CreationInv /\ WakerPart

-----------------------------------------------------------------------------
(* Lists as sets of what is on them. *)

LEMMA MembersOfFew ==
    ASSUME NEW a
    PROVE  /\ Members(<<>>) = {} /\ Members(<<a>>) = {a}
           /\ CallsDiffer(<<>>) /\ CallsEnd(<<>>)
           /\ Distinct(<<>>)
BY DEF Members, CallsDiffer, CallsEnd, Distinct

LEMMA MembersType ==
    ASSUME NEW S, NEW list \in Seq(S)
    PROVE  Members(list) \in SUBSET S /\ (list # <<>> => list[1] \in Members(list))
<1>1. DOMAIN list = 1 .. Len(list) /\ Len(list) \in Nat /\ \A i \in 1 .. Len(list) : list[i] \in S
  OBVIOUS
<1>2. list # <<>> => 1 \in DOMAIN list
  BY <1>1
<1> QED BY <1>1, <1>2 DEF Members

LEMMA MembersAppend ==
    ASSUME NEW S, NEW list \in Seq(S), NEW t \in S
    PROVE  /\ Members(Append(list, t)) = Members(list) \cup {t}
           /\ Distinct(list) /\ t \notin Members(list) => Distinct(Append(list, t))
<1> DEFINE long == Append(list, t)
           n == Len(list)
<1>1. /\ n \in Nat /\ DOMAIN list = 1 .. n /\ DOMAIN long = 1 .. n + 1
      /\ long[n + 1] = t /\ \A i \in 1 .. n : long[i] = list[i]
  OBVIOUS
<1> HIDE DEF long, n
<1>2. \A i \in 1 .. n + 1 : i \in 1 .. n \/ i = n + 1
  BY <1>1
<1>3. \A i \in 1 .. n : i \in 1 .. n + 1
  BY <1>1
<1>4. n + 1 \in 1 .. n + 1
  BY <1>1
<1>5. Members(long) = Members(list) \cup {t}
  BY <1>1, <1>2, <1>3, <1>4 DEF Members
<1>6. ASSUME Distinct(list), t \notin Members(list) PROVE Distinct(long)
  BY <1>1, <1>2, <1>6 DEF Distinct, Members
<1> QED BY <1>5, <1>6 DEF long

LEMMA MembersTail ==
    ASSUME NEW S, NEW list \in Seq(S), list # <<>>
    PROVE  /\ Head(list) = list[1]
           /\ Members(list) = {list[1]} \cup Members(Tail(list))
           /\ Distinct(list) => Distinct(Tail(list)) /\ list[1] \notin Members(Tail(list))
<1> DEFINE rest == Tail(list)
           n == Len(list)
<1>1. /\ n \in Nat \ {0} /\ DOMAIN list = 1 .. n /\ Head(list) = list[1]
      /\ DOMAIN rest = 1 .. n - 1 /\ \A i \in 1 .. n - 1 : rest[i] = list[i + 1]
  OBVIOUS
<1> HIDE DEF rest, n
<1>2. \A i \in 1 .. n - 1 : i + 1 \in 1 .. n /\ i + 1 # 1
  BY <1>1
<1>3. \A i \in 1 .. n : i = 1 \/ (i - 1 \in 1 .. n - 1 /\ (i - 1) + 1 = i)
  BY <1>1
<1>4. Members(list) = {list[1]} \cup Members(rest)
  <2>1. Members(list) \subseteq {list[1]} \cup Members(rest)
    <3> SUFFICES ASSUME NEW i \in 1 .. n, i # 1 PROVE list[i] \in Members(rest)
      BY <1>1 DEF Members
    <3>1. rest[i - 1] = list[i] /\ i - 1 \in DOMAIN rest
      BY <1>1, <1>3
    <3> QED BY <3>1 DEF Members
  <2>2. {list[1]} \cup Members(rest) \subseteq Members(list)
    BY <1>1, <1>2 DEF Members
  <2> QED BY <2>1, <2>2
<1>5. ASSUME Distinct(list) PROVE Distinct(rest) /\ list[1] \notin Members(rest)
  <2>1. ASSUME NEW i \in 1 .. n - 1, NEW j \in 1 .. n - 1, rest[i] = rest[j] PROVE i = j
    <3>1. list[i + 1] = list[j + 1] /\ i + 1 \in 1 .. n /\ j + 1 \in 1 .. n
      BY <1>1, <1>2, <2>1
    <3>2. i + 1 = j + 1 BY <1>1, <1>5, <3>1, ZenonT(60) DEF Distinct
    <3> QED BY <3>2
  <2>2. ASSUME NEW i \in 1 .. n - 1 PROVE rest[i] # list[1]
    <3>1. 1 \in 1 .. n /\ i + 1 \in 1 .. n /\ i + 1 # 1 /\ rest[i] = list[i + 1]
      BY <1>1, <1>2
    <3> QED BY <1>1, <1>5, <3>1, SMTT(60) DEF Distinct
  <2> QED BY <1>1, <2>1, <2>2 DEF Distinct, Members
<1> QED BY <1>1, <1>4, <1>5 DEF rest

\* The calls behind the first one.
LEMMA RestOfCalls ==
    ASSUME NEW list \in Seq(MoveCall), list # <<>>, CallsDiffer(list), CallsEnd(list)
    PROVE  /\ Members(Tail(list)) = Members(list) \ {list[1]}
           /\ CallsDiffer(Tail(list)) /\ CallsEnd(Tail(list))
           /\ \A c \in Members(Tail(list)) : c.tcb # list[1].tcb
           /\ list[1].to \in {"EXEC", "EXIT", "BLOCKED"} => Tail(list) = <<>>
           /\ Tail(list) # <<>> => \A c \in Members(list) : c.to # "BLOCKED"
<1> DEFINE rest == Tail(list)
           n == Len(list)
<1>1. /\ n \in Nat \ {0} /\ DOMAIN list = 1 .. n /\ Head(list) = list[1]
      /\ rest \in Seq(MoveCall) /\ Len(rest) = n - 1
      /\ DOMAIN rest = 1 .. n - 1 /\ \A i \in 1 .. n - 1 : rest[i] = list[i + 1]
  OBVIOUS
<1>2. n = 1 => rest = <<>>
  BY <1>1
<1>3. Members(list) = {list[1]} \cup Members(rest)
  BY MembersTail, SMTT(60)
<1> HIDE DEF rest
<1>c. \A i \in 1 .. n : /\ list[i].to \in {"EXEC", "EXIT"} => i = n
                        /\ list[i].to = "BLOCKED" => n = 1
  BY <1>1 DEF CallsEnd
<1> HIDE DEF n
<1>4. \A i \in 1 .. n - 1 : i + 1 \in 1 .. n /\ i + 1 # 1
  BY <1>1
<1>5. \A c \in Members(rest) : c.tcb # list[1].tcb
  <2> SUFFICES ASSUME NEW i \in 1 .. n - 1 PROVE rest[i].tcb # list[1].tcb
    BY <1>1 DEF Members
  <2>1. rest[i] = list[i + 1] /\ i + 1 \in 1 .. n /\ i + 1 # 1 /\ 1 \in 1 .. n
    BY <1>1, <1>4
  <2> QED BY <1>1, <2>1 DEF CallsDiffer
<1>6. CallsDiffer(rest)
  <2> SUFFICES ASSUME NEW i \in 1 .. n - 1, NEW j \in 1 .. n - 1, rest[i].tcb = rest[j].tcb
               PROVE  i = j
    BY <1>1 DEF CallsDiffer
  <2>1. list[i + 1].tcb = list[j + 1].tcb /\ i + 1 \in 1 .. n /\ j + 1 \in 1 .. n
    BY <1>1, <1>4
  <2>2. i + 1 = j + 1 BY <1>1, <2>1 DEF CallsDiffer
  <2> QED BY <2>2
<1>7. CallsEnd(rest)
  <2> SUFFICES ASSUME NEW i \in 1 .. n - 1
               PROVE  /\ rest[i].to \in {"EXEC", "EXIT"} => i = n - 1
                      /\ rest[i].to # "BLOCKED"
    BY <1>1 DEF CallsEnd
  <2>1. rest[i] = list[i + 1] /\ i + 1 \in 1 .. n /\ n # 1
    BY <1>1, <1>4
  <2>2. PICK j \in 1 .. n : j = i + 1
    BY <2>1
  <2> PICK c : c = list[j] OBVIOUS
  <2>3. rest[i] = c BY <2>1, <2>2
  <2>4. /\ c.to \in {"EXEC", "EXIT"} => j = n
        /\ c.to # "BLOCKED"
    BY <1>c, <2>1
  <2> QED BY <1>1, <2>2, <2>3, <2>4
<1>8. list[1].to \in {"EXEC", "EXIT", "BLOCKED"} => n = 1
  <2>1. 1 \in DOMAIN list BY <1>1
  <2> QED BY <2>1 DEF CallsEnd, n
<1>9. ASSUME rest # <<>>, NEW c \in Members(list) PROVE c.to # "BLOCKED"
  <2>1. PICK i \in DOMAIN list : c = list[i] BY DEF Members
  <2> QED BY <1>2, <1>9, <2>1 DEF CallsEnd, n
<1> QED BY <1>2, <1>3, <1>5, <1>6, <1>7, <1>8, <1>9 DEF rest

\* Both halves of a wake-up list: what is taken and what is left.
LEMMA MembersHalves ==
    ASSUME NEW S, NEW list \in Seq(S)
    PROVE  /\ Members(list) = Members(Taken(list)) \cup Members(Left(list))
           /\ Distinct(list) => /\ Distinct(Taken(list)) /\ Distinct(Left(list))
                                /\ Members(Taken(list)) \cap Members(Left(list)) = {}
<1> DEFINE n == Len(list)
           odd == Taken(list)
           even == Left(list)
<1>1. n \in Nat /\ DOMAIN list = 1 .. n
  OBVIOUS
<1>2. /\ n \div 2 \in Nat /\ (n + 1) \div 2 \in Nat
      /\ \A i \in 1 .. (n + 1) \div 2 : 2 * i - 1 \in 1 .. n
      /\ \A i \in 1 .. n \div 2 : 2 * i \in 1 .. n
      /\ \A j \in 1 .. n : \/ \E i \in 1 .. (n + 1) \div 2 : j = 2 * i - 1
                           \/ \E i \in 1 .. n \div 2 : j = 2 * i
  <2>1. n \div 2 \in Nat /\ (n + 1) \div 2 \in Nat BY <1>1
  <2>2. \A i \in 1 .. (n + 1) \div 2 : 2 * i - 1 \in 1 .. n BY <1>1, <2>1
  <2>3. \A i \in 1 .. n \div 2 : 2 * i \in 1 .. n BY <1>1, <2>1
  <2>4. ASSUME NEW j \in 1 .. n
        PROVE  \/ \E i \in 1 .. (n + 1) \div 2 : j = 2 * i - 1
               \/ \E i \in 1 .. n \div 2 : j = 2 * i
    <3>1. CASE j % 2 = 0
      <4>1. j = 2 * (j \div 2) /\ j \div 2 \in 1 .. n \div 2
        BY <1>1, <3>1
      <4> QED BY <4>1
    <3>2. CASE j % 2 # 0
      <4>1. j = 2 * ((j + 1) \div 2) - 1 /\ (j + 1) \div 2 \in 1 .. (n + 1) \div 2
        BY <1>1, <3>2
      <4> QED BY <4>1
    <3> QED BY <3>1, <3>2
  <2> QED BY <2>1, <2>2, <2>3, <2>4
<1>3. /\ DOMAIN odd = 1 .. (n + 1) \div 2 /\ \A i \in DOMAIN odd : odd[i] = list[2 * i - 1]
      /\ DOMAIN even = 1 .. n \div 2 /\ \A i \in DOMAIN even : even[i] = list[2 * i]
  BY DEF Taken, Left
<1> HIDE DEF n, odd, even
<1>4. Members(list) \subseteq Members(odd) \cup Members(even)
  <2> SUFFICES ASSUME NEW j \in 1 .. n PROVE list[j] \in Members(odd) \cup Members(even)
    BY <1>1 DEF Members
  <2>1. CASE \E i \in 1 .. (n + 1) \div 2 : j = 2 * i - 1
    <3>1. \E i \in DOMAIN odd : list[j] = odd[i] BY <1>3, <2>1
    <3> QED BY <3>1 DEF Members
  <2>2. CASE \E i \in 1 .. n \div 2 : j = 2 * i
    <3>1. \E i \in DOMAIN even : list[j] = even[i] BY <1>3, <2>2
    <3> QED BY <3>1 DEF Members
  <2> QED BY <1>2, <2>1, <2>2
<1>o. \A i \in DOMAIN odd : /\ i \in Int /\ 2 * i - 1 \in DOMAIN list
                           /\ odd[i] = list[2 * i - 1]
  BY <1>1, <1>2, <1>3
<1>e. \A i \in DOMAIN even : /\ i \in Int /\ 2 * i \in DOMAIN list
                            /\ even[i] = list[2 * i]
  BY <1>1, <1>2, <1>3
<1>5. Members(odd) \cup Members(even) \subseteq Members(list)
  BY <1>o, <1>e DEF Members
<1>6. ASSUME Distinct(list)
      PROVE  Distinct(odd) /\ Distinct(even) /\ Members(odd) \cap Members(even) = {}
  <2>1. ASSUME NEW i \in DOMAIN odd, NEW j \in DOMAIN odd, odd[i] = odd[j] PROVE i = j
    <3> PICK a \in DOMAIN list : a = 2 * i - 1 /\ odd[i] = list[a] BY <1>o
    <3> PICK b \in DOMAIN list : b = 2 * j - 1 /\ odd[j] = list[b] BY <1>o
    <3>1. a = b BY <1>6, <2>1 DEF Distinct
    <3> QED BY <1>o, <3>1
  <2>2. ASSUME NEW i \in DOMAIN even, NEW j \in DOMAIN even, even[i] = even[j] PROVE i = j
    <3> PICK a \in DOMAIN list : a = 2 * i /\ even[i] = list[a] BY <1>e
    <3> PICK b \in DOMAIN list : b = 2 * j /\ even[j] = list[b] BY <1>e
    <3>1. a = b BY <1>6, <2>2 DEF Distinct
    <3> QED BY <1>e, <3>1
  <2>3. ASSUME NEW i \in DOMAIN odd, NEW j \in DOMAIN even PROVE odd[i] # even[j]
    <3> PICK a \in DOMAIN list : a = 2 * i - 1 /\ odd[i] = list[a] BY <1>o
    <3> PICK b \in DOMAIN list : b = 2 * j /\ even[j] = list[b] BY <1>e
    <3>1. a # b BY <1>o, <1>e
    <3> QED BY <1>6, <3>1 DEF Distinct
  <2> QED BY <2>1, <2>2, <2>3 DEF Distinct, Members
<1> QED BY <1>4, <1>5, <1>6 DEF odd, even

-----------------------------------------------------------------------------
(* The calls that the handlers make. *)

LEMMA WakesOf ==
    ASSUME NEW list \in Seq(Thread), Distinct(list)
    PROVE  LET calls == [i \in DOMAIN list |-> Wake(list[i])] IN
           /\ Members(calls) = {Wake(t) : t \in Members(list)}
           /\ CallsDiffer(calls) /\ CallsEnd(calls)
<1> DEFINE calls == [i \in DOMAIN list |-> Wake(list[i])]
<1>1. DOMAIN calls = DOMAIN list /\ \A i \in DOMAIN list : calls[i] = Wake(list[i])
  OBVIOUS
<1>2. \A t : Wake(t).tcb = t /\ Wake(t).to = "READY"
  BY DEF Wake
<1> HIDE DEF calls
<1>3. Members(calls) = {Wake(t) : t \in Members(list)}
  BY <1>1 DEF Members
<1>4. CallsDiffer(calls) /\ CallsEnd(calls)
  BY <1>1, <1>2 DEF CallsDiffer, CallsEnd, Distinct
<1> QED BY <1>3, <1>4 DEF calls

LEMMA CloseCalls ==
    ASSUME NEW t \in Thread, joined[t] \in Seq(Thread), Distinct(joined[t]),
           t \notin Members(joined[t])
    PROVE  /\ Members(close_calls(t)) =
                  {Move(u, "READY") : u \in Members(joined[t])} \cup {Move(t, "EXIT")}
           /\ CallsDiffer(close_calls(t)) /\ CallsEnd(close_calls(t))
<1> DEFINE wakes == [i \in DOMAIN joined[t] |-> Move(joined[t][i], "READY")]
           exit == <<Move(t, "EXIT")>>
           n == Len(joined[t])
<1>1. n \in Nat /\ DOMAIN joined[t] = 1 .. n /\ \A i \in 1 .. n : joined[t][i] \in Thread
  OBVIOUS
<1>2. \A u \in Thread : Move(u, "READY") \in MoveCall /\ Move(u, "EXIT") \in MoveCall
  BY MoveCallType DEF Active
<1>3. wakes \in Seq(MoveCall) /\ Len(wakes) = n
  BY <1>1, <1>2
<1>4. exit \in Seq(MoveCall) /\ Len(exit) = 1 /\ exit[1] = Move(t, "EXIT")
  BY <1>2
<1>5. \A i \in 1 .. n : wakes[i] = Move(joined[t][i], "READY")
  BY <1>1
<1> HIDE DEF wakes, exit
<1>6. /\ wakes \o exit \in Seq(MoveCall) /\ Len(wakes \o exit) = Len(wakes) + Len(exit)
      /\ \A i \in 1 .. Len(wakes) + Len(exit) :
            (wakes \o exit)[i] = IF i <= Len(wakes) THEN wakes[i] ELSE exit[i - Len(wakes)]
  <2>1. wakes \in Seq(MoveCall) /\ exit \in Seq(MoveCall) BY <1>3, <1>4
  <2> QED BY <2>1, ConcatProperties, ZenonT(60)
<1> DEFINE calls == wakes \o exit
<1> HIDE DEF calls
<1>61. calls \in Seq(MoveCall) /\ Len(calls) = n + 1
  BY <1>3, <1>4, <1>6 DEF calls
<1>62. \A i \in 1 .. n + 1 : calls[i] = IF i <= n THEN wakes[i] ELSE exit[i - n]
  BY <1>3, <1>4, <1>6 DEF calls
<1>63. n + 1 \in 1 .. n + 1 /\ ~(n + 1 <= n) /\ (n + 1) - n = 1
  BY <1>1
<1>7. DOMAIN calls = 1 .. n + 1 /\ calls[n + 1] = Move(t, "EXIT")
  <2>1. DOMAIN calls = 1 .. n + 1 BY <1>1, <1>61
  <2>2. calls[n + 1] = exit[(n + 1) - n] BY <1>62, <1>63
  <2> QED BY <1>4, <1>63, <2>1, <2>2
<1>8. \A i \in 1 .. n : i \in 1 .. n + 1 /\ calls[i] = Move(joined[t][i], "READY")
  BY <1>1, <1>5, <1>62
<1>9. \A i \in 1 .. n + 1 : i \in 1 .. n \/ i = n + 1
  BY <1>1
<1>10. \A u : /\ Move(u, "READY").tcb = u /\ Move(u, "READY").to = "READY"
              /\ Move(u, "EXIT").tcb = u /\ Move(u, "EXIT").to = "EXIT"
  BY DEF Move
<1>11. n + 1 \in 1 .. n + 1
  BY <1>1
<1> HIDE DEF n
<1>12. Members(calls) = {Move(u, "READY") : u \in Members(joined[t])} \cup {Move(t, "EXIT")}
  <2>1. Members(calls) \subseteq
            {Move(u, "READY") : u \in Members(joined[t])} \cup {Move(t, "EXIT")}
    BY <1>1, <1>7, <1>8, <1>9 DEF Members
  <2>2. Move(t, "EXIT") \in Members(calls)
    BY <1>7, <1>11 DEF Members
  <2>3. ASSUME NEW i \in 1 .. n PROVE Move(joined[t][i], "READY") \in Members(calls)
    BY <1>7, <1>8 DEF Members
  <2>4. {Move(u, "READY") : u \in Members(joined[t])} \subseteq Members(calls)
    BY <1>1, <2>3 DEF Members
  <2> QED BY <2>1, <2>2, <2>4
<1>13. CallsDiffer(calls)
  <2>1. ASSUME NEW i \in 1 .. n, NEW j \in 1 .. n, calls[i].tcb = calls[j].tcb PROVE i = j
    BY <1>1, <1>8, <1>10, <2>1 DEF Distinct
  <2>2. ASSUME NEW i \in 1 .. n PROVE calls[i].tcb # calls[n + 1].tcb
    BY <1>1, <1>7, <1>8, <1>10 DEF Members
  <2> QED BY <1>7, <1>9, <2>1, <2>2 DEF CallsDiffer
<1>14. CallsEnd(calls)
  <2>1. \A i \in 1 .. n : calls[i].to = "READY" BY <1>8, <1>10
  <2>2. calls[n + 1].to = "EXIT" BY <1>7, <1>10
  <2> QED BY <1>61, <1>7, <1>9, <2>1, <2>2 DEF CallsEnd
<1> QED BY <1>12, <1>13, <1>14 DEF calls, wakes, exit, close_calls

LEMMA ChangeExec ==
    ASSUME TypeOK, NEW p \in Program, NEW t \in Thread, exec[p] # t
    PROVE  LET calls == change_exec(p, t) IN
           /\ Members(calls) = {Move(t, "EXEC")}
                  \cup (IF exec[p] = None THEN {} ELSE {Move(exec[p], "READY")})
           /\ CallsDiffer(calls) /\ CallsEnd(calls)
           /\ calls[1].tcb = IF exec[p] = None THEN t ELSE exec[p]
<1>1. \A u : /\ Move(u, "READY").tcb = u /\ Move(u, "READY").to = "READY"
             /\ Move(u, "EXEC").tcb = u /\ Move(u, "EXEC").to = "EXEC"
  BY DEF Move
<1>2. CASE exec[p] = None
  <2> DEFINE one == <<Move(t, "EXEC")>>
  <2>1. one \in Seq({Move(t, "EXEC")})
    OBVIOUS
  <2>2. change_exec(p, t) = one
    <3>1. change_exec(p, t) = <<>> \o one
      BY <1>2 DEF change_exec
    <3> HIDE DEF one
    <3>2. <<>> \o one = one BY <2>1, ConcatEmptySeq
    <3> QED BY <3>1, <3>2
  <2>3. DOMAIN one = 1 .. 1 /\ Len(one) = 1 /\ one[1] = Move(t, "EXEC")
    OBVIOUS
  <2> HIDE DEF one
  <2>4. Members(one) = {Move(t, "EXEC")} /\ CallsDiffer(one) /\ CallsEnd(one)
    BY <1>1, <2>3 DEF Members, CallsDiffer, CallsEnd
  <2> QED BY <1>1, <1>2, <2>2, <2>3, <2>4
<1>3. CASE exec[p] # None
  <2> DEFINE two == <<Move(exec[p], "READY")>> \o <<Move(t, "EXEC")>>
  <2>1. change_exec(p, t) = two
    BY <1>3 DEF change_exec
  <2>2. exec[p] \in Thread
    BY <1>3 DEF TypeOK, TcbTypeOK
  <2>3. Move(exec[p], "READY") \in MoveCall /\ Move(t, "EXEC") \in MoveCall
    BY <2>2, MoveCallType DEF Active
  <2>4. DOMAIN two = 1 .. 2 /\ two[1] = Move(exec[p], "READY") /\ two[2] = Move(t, "EXEC")
    BY <2>3, PairOfCalls
  <2>5. two \in Seq(MoveCall)
    BY <2>1, <2>2, ChangeExecType
  <2>6. Len(two) = 2
    BY <2>4, <2>5
  <2> HIDE DEF two
  <2>7. \A i \in 1 .. 2 : i = 1 \/ i = 2
    OBVIOUS
  <2>8. 1 \in 1 .. 2 /\ 2 \in 1 .. 2
    OBVIOUS
  <2>9. Members(two) = {Move(exec[p], "READY"), Move(t, "EXEC")}
    BY <2>4, <2>7, <2>8 DEF Members
  <2>10. CallsDiffer(two)
    BY <1>1, <2>4, <2>7 DEF CallsDiffer
  <2>11. CallsEnd(two)
    BY <1>1, <2>4, <2>6, <2>7 DEF CallsEnd
  <2> QED BY <1>1, <1>3, <2>1, <2>4, <2>9, <2>10, <2>11
<1> QED BY <1>2, <1>3
-----------------------------------------------------------------------------
(* What the invariant says of one call and of one thread. *)

LEMMA CallFacts ==
    ASSUME TypeOK, NEW p \in Program
    PROVE  /\ \A c \in Calls(p) : /\ c \in MoveCall /\ c.tcb \in Thread
                                  /\ c.to \in Active \cup {"EXIT"} /\ c.wake \in BOOLEAN
           /\ todo[p] # <<>> => todo[p][1] \in Calls(p)
           /\ todo[p] = <<>> => Calls(p) = {}
<1>1. todo[p] \in Seq(MoveCall)
  BY DEF TypeOK
<1>2. Calls(p) \in SUBSET MoveCall /\ (todo[p] # <<>> => todo[p][1] \in Calls(p))
  BY <1>1, MembersType DEF Calls
<1>3. todo[p] = <<>> => Calls(p) = {}
  BY MembersOfFew DEF Calls
<1>4. \A c \in MoveCall : c.tcb \in Thread /\ c.to \in Active \cup {"EXIT"} /\ c.wake \in BOOLEAN
  BY DEF MoveCall
<1> QED BY <1>2, <1>3, <1>4

\* Who waits for clientes_mutex moves nobody.
LEMMA MovesOnly ==
    ASSUME MoverIsKnown, TypeInv, listMutex = None \/ jammed # None
    PROVE  Moving = None
<1>1. listMutex # Lts \/ jammed = None
  BY TcbAssumption DEF MoverIsKnown, TypeInv, TypeOK, TcbTypeOK
<1>2. CASE listMutex = None BY <1>2, MovingIsNone
<1>3. CASE jammed # None /\ listMutex # Lts BY <1>3 DEF Moving
<1> QED BY <1>1, <1>2, <1>3

\* A thread that moves belongs to the program whose scheduler moves it, or is
\* the one that is admitted.
LEMMA WhoMoves ==
    ASSUME WakerInv, NEW t \in Thread, t = Moving
    PROVE  \/ /\ listMutex = Lts /\ lpc = "moving" /\ t = current
              /\ Destination = "READY" /\ state[t] = "NEW"
           \/ /\ listMutex = Owner[t] /\ jammed = None /\ todo[Owner[t]] # <<>>
              /\ todo[Owner[t]][1] \in Calls(Owner[t])
              /\ todo[Owner[t]][1].tcb = t /\ Destination = todo[Owner[t]][1].to
              /\ LegalCall(todo[Owner[t]][1])
<1> USE DEF WakerInv, WakerPart, CreationInv, SlotInv, TypeInv, TypeOK, TcbTypeOK
<1>1. t # None BY TcbAssumption
<1>2. listMutex # None /\ jammed = None BY <1>1, MovesOnly
<1>3. CASE listMutex = Lts
  BY <1>2, <1>3, MovingByLts DEF Destination, MoverIsKnown, NewListKnown
<1>4. CASE listMutex \in Program
  <2> PICK p \in Program : p = listMutex BY <1>4
  <2>1. p # Lts BY TcbAssumption
  <2>2. t = todo[p][1].tcb
    BY <1>2, MovingByProgram
  <2>3. todo[p] # <<>>
    BY <1>2 DEF MoverIsKnown
  <2>4. todo[p][1] \in Calls(p)
    BY <2>3, CallFacts
  <2>5. Owner[t] = p /\ LegalCall(todo[p][1])
    BY <2>2, <2>4 DEF OwnThreads, OwnThreadsOf, ThreadsOf, AllCallsKnown, CallsKnownOf
  <2>6. Destination = todo[p][1].to
    BY <2>1 DEF Destination
  <2> QED BY <1>2, <2>2, <2>3, <2>4, <2>5, <2>6
<1> QED BY <1>2, <1>3, <1>4 DEF Scheduler

\* While a scheduler has no calls to make, its executing thread executes.
LEMMA ExecExecutes ==
    ASSUME WakerInv, NEW p \in Program, todo[p] = <<>>, exec[p] # None
    PROVE  exec[p] \in Thread /\ Owner[exec[p]] = p /\ state[exec[p]] = "EXEC"
<1>1. exec[p] \in Thread /\ Owner[exec[p]] = p
  BY DEF WakerInv, WakerPart, OwnThreads, OwnThreadsOf, ThreadsOf
<1>2. Place(exec[p]) = "EXEC"
  BY <1>1 DEF WakerInv, WakerPart, ListsMatchPlace
<1>3. exec[p] # Moving
  BY <1>1, <1>2, WhoMoves DEF Place
<1> QED BY <1>1, <1>2, <1>3 DEF Place

-----------------------------------------------------------------------------
(* The waits of one thread, when they stay, become one, or end. *)

LEMMA OneWait ==
    ASSUME NEW t \in Thread, WaitsRight(t), NEW k \in Kind, NEW x \in Waker, WaitsOn(t, k, x)
    PROVE  \A k2 \in Kind, x2 \in Waker : WaitsOn(t, k2, x2) <=> k2 = k /\ x2 = x
BY DEF WaitsRight

LEMMA NoWait ==
    ASSUME NEW t \in Thread, WaitsRight(t), ~Parked(t),
           \A x \in Thread : ~(Closing(Owner[t], x) /\ WaitsOn(t, "join", x))
    PROVE  \A k \in Kind, x \in Waker : ~WaitsOn(t, k, x)
BY DEF WaitsRight, Parked, WaitsOn

LEMMA WaitsKept ==
    ASSUME NEW t \in Thread, WaitsRight(t),
           \A k \in Kind, x \in Waker : WaitsOn(t, k, x)' <=> WaitsOn(t, k, x),
           Parked(t)' <=> Parked(t),
           state[t] = "BLOCKED" => state'[t] = "BLOCKED",
           \A x \in Thread : Closing(Owner[t], x) /\ WaitsOn(t, "join", x)
               => Closing(Owner[t], x)',
           \A s \in Sem : WaitsOn(t, "sem", s) /\ Blocking(t)' => semMutex'[s] = Owner[t]
    PROVE  WaitsRight(t)'
<1>1. \A s \in Sem : "sem" \in Kind /\ s \in Waker
  BY DEF Kind, Waker
<1>2. ASSUME NEW k \in Kind, NEW x \in Waker, WaitsOn(t, k, x)
      PROVE  \/ state'[t] = "BLOCKED"
             \/ k \in {"sem", "join"} /\ Blocking(t)'
             \/ k = "join" /\ Closing(Owner[t], x)'
  <2>1. CASE state[t] = "BLOCKED" BY <2>1
  <2>2. CASE k \in {"sem", "join"} /\ Blocking(t) BY <2>2 DEF Parked
  <2>3. CASE k = "join" /\ Closing(Owner[t], x)
    <3>1. x \in Thread BY <1>2, <2>3 DEF WaitsOn
    <3> QED BY <1>2, <2>3, <3>1
  <2> QED BY <1>2, <2>1, <2>2, <2>3 DEF WaitsRight
<1> QED BY <1>1, <1>2 DEF WaitsRight

LEMMA WaitsBecomeOne ==
    ASSUME NEW t \in Thread, NEW k \in Kind, NEW x \in Waker,
           \A k2 \in Kind, x2 \in Waker : WaitsOn(t, k2, x2)' <=> k2 = k /\ x2 = x,
           \/ state'[t] = "BLOCKED"
           \/ k \in {"sem", "join"} /\ Blocking(t)'
           \/ k = "join" /\ Closing(Owner[t], x)',
           k = "sem" /\ Blocking(t)' => semMutex'[x] = Owner[t]
    PROVE  WaitsRight(t)'
<1>1. \A s \in Sem : "sem" \in Kind /\ s \in Waker
  BY DEF Kind, Waker
<1> QED BY <1>1 DEF WaitsRight

LEMMA WaitsEnd ==
    ASSUME NEW t \in Thread, ~Parked(t)',
           \A k \in Kind, x \in Waker : ~WaitsOn(t, k, x)'
    PROVE  WaitsRight(t)'
<1>1. \A s \in Sem : "sem" \in Kind /\ s \in Waker
  BY DEF Kind, Waker
<1> QED BY <1>1 DEF WaitsRight

\* What a scheduler's calls say of the waits.
Waking(p, t) == \E c \in Calls(p) : c.wake /\ c.tcb = t
Notifying(p, t) == pc[p] = "notify" /\ arg[p] = t

LEMMA WaitKinds ==
    ASSUME NEW t, NEW x
    PROVE  /\ WaitsOn(t, "sem", x) <=> x \in Sem /\ t \in Members(semBlocked[x])
           /\ WaitsOn(t, "notify", x) <=> x \in Program /\ Notifying(x, t)
           /\ WaitsOn(t, "wakeup", x) <=> x \in Program /\ t \in Members(wakeupList[x])
           /\ WaitsOn(t, "wake", x) <=> x \in Program /\ Waking(x, t)
           /\ WaitsOn(t, "join", x) <=>
                  x \in Thread /\ state[x] # "EXIT" /\ t \in Members(joined[x])
BY DEF WaitsOn, Waking, Notifying

\* The same waits before and after, kind by kind.
LEMMA SameWaits ==
    ASSUME NEW t,
           \A s \in Sem : t \in Members(semBlocked'[s]) <=> t \in Members(semBlocked[s]),
           \A p \in Program :
               /\ Notifying(p, t)' <=> Notifying(p, t)
               /\ t \in Members(wakeupList'[p]) <=> t \in Members(wakeupList[p])
               /\ Waking(p, t)' <=> Waking(p, t),
           \A u \in Thread : state'[u] # "EXIT" /\ t \in Members(joined'[u])
               <=> state[u] # "EXIT" /\ t \in Members(joined[u])
    PROVE  \A k \in Kind, x \in Waker : WaitsOn(t, k, x)' <=> WaitsOn(t, k, x)
BY DEF Kind, WaitsOn, Waking, Notifying

-----------------------------------------------------------------------------
(* A step and the schedulers that do not take it. *)

\* A step that is not of q's scheduler leaves alone what q knows of itself.
Bystander(q) ==
    /\ UNCHANGED <<todo[q], pc[q], arg[q], cur[q], owes[q], exec[q]>>
    /\ mainLoaded[q] => mainLoaded'[q]
    /\ \A t \in ThreadsOf(q) :
          state'[t] = state[t] \/ (state[t] = "NEW" /\ state'[t] = "READY")
    /\ \A u \in ThreadsOf(q) : joined'[u] = joined[u]

LEMMA BystanderCalls ==
    ASSUME WakerInv, NEW q \in Program, Bystander(q)
    PROVE  CallsKnownOf(q)'
<1> USE DEF Bystander
<1>1. Calls(q)' = Calls(q) /\ todo'[q] = todo[q] /\ exec'[q] = exec[q]
  BY DEF Calls
<1>2. \A c \in Calls(q) : c.tcb \in ThreadsOf(q) /\ LegalCall(c)
  BY DEF WakerInv, WakerPart, OwnThreads, OwnThreadsOf, AllCallsKnown, CallsKnownOf
<1>3. \A t \in ThreadsOf(q) : state'[t] = "BLOCKED" <=> state[t] = "BLOCKED"
  OBVIOUS
<1>4. \A c \in Calls(q) : state'[c.tcb] = state[c.tcb]
  BY <1>2 DEF LegalCall, LegalMove
<1>5. \A c \in Calls(q)' : LegalCall(c)'
  BY <1>1, <1>2, <1>4 DEF LegalCall
<1>6. \A u \in Thread : Closing(q, u)' <=> Closing(q, u)
  BY <1>1 DEF Closing
<1>7. \A u \in Thread : Closing(q, u) => u \in ThreadsOf(q)
  BY <1>2 DEF Closing
<1>8. \A u \in ThreadsOf(q) : Members(joined[u]) \subseteq ThreadsOf(q)
  BY DEF WakerInv, WakerPart, OwnThreads, JoinedAreOwn, ThreadsOf
<1>9. CloseWakes(q)
  BY DEF WakerInv, WakerPart, AllCallsKnown, CallsKnownOf
<1>10. CloseWakes(q)'
  <2>1. ASSUME NEW c \in Calls(q), ~c.wake, c.to = "READY", state'[c.tcb] = "BLOCKED"
        PROVE  \E u \in Thread : Closing(q, u)' /\ c.tcb \in Members(joined'[u])
    <3>1. \E u \in Thread : Closing(q, u) /\ c.tcb \in Members(joined[u])
      BY <1>4, <1>9, <2>1 DEF CloseWakes
    <3> QED BY <1>6, <1>7, <3>1
  <2>2. ASSUME NEW u \in Thread, Closing(q, u), NEW t \in Members(joined'[u]),
               state'[t] = "BLOCKED"
        PROVE  \E c \in Calls(q) : c.tcb = t /\ c.to = "READY"
    <3>1. u \in ThreadsOf(q) /\ t \in Members(joined[u])
      BY <1>7, <2>2
    <3>2. state[t] = "BLOCKED"
      BY <1>3, <1>8, <2>2, <3>1
    <3> QED BY <1>9, <2>2, <3>1, <3>2 DEF CloseWakes
  <2> QED BY <1>1, <1>6, <2>1, <2>2 DEF CloseWakes
<1>11. (CallsDiffer(todo[q]) /\ CallsEnd(todo[q]) /\ ExecIsFreed(q))'
  BY <1>1 DEF WakerInv, WakerPart, AllCallsKnown, CallsKnownOf, ExecIsFreed, CallsDiffer, CallsEnd
<1> QED BY <1>5, <1>10, <1>11 DEF CallsKnownOf

LEMMA BystanderClient ==
    ASSUME WakerInv, NEW q \in Program, Bystander(q)
    PROVE  ClientKnownOf(q)'
<1>1. Calls(q)' = Calls(q) BY DEF Bystander, Calls
<1>2. ClientKnownOf(q) BY DEF WakerInv, WakerPart, ClientKnown
<1> QED BY <1>1, <1>2 DEF Bystander, ClientKnownOf

LEMMA BystanderOwn ==
    ASSUME WakerInv, NEW q \in Program, Bystander(q),
           ready'[q] \subseteq ThreadsOf(q), Members(wakeupList'[q]) \subseteq ThreadsOf(q)
    PROVE  OwnThreadsOf(q)'
<1>1. Calls(q)' = Calls(q) BY DEF Bystander, Calls
<1>2. ThreadsOf(q)' = ThreadsOf(q) BY DEF ThreadsOf
<1> QED BY <1>1, <1>2 DEF WakerInv, WakerPart, OwnThreads, OwnThreadsOf, Bystander

\* The lists are as they were, and who moves where.
LEMMA ListsStay ==
    ASSUME WakerInv, UNCHANGED <<state, listVars>>, Moving' = Moving,
           Moving # None => Destination' = Destination
    PROVE  ListsMatchPlace'
<1>1. \A t \in Thread : Place(t)' = Place(t)
  BY TcbAssumption DEF Place
<1> QED BY <1>1 DEF WakerInv, WakerPart, ListsMatchPlace, listVars

\* A step of a scheduler that leaves the thread control blocks alone.
LEMMA MoversStay ==
    ASSUME WakerInv, NEW p \in Program, listMutex # p,
           UNCHANGED <<state, listVars, listMutex, jammed, degree, current>>,
           \A q \in Program \ {p} : todo'[q] = todo[q] /\ pc'[q] = pc[q]
    PROVE  ListsMatchPlace' /\ SlotToCome'
<1>1. CASE listMutex = None
  <2>1. Moving = None BY <1>1, MovingIsNone
  <2>2. Moving' = None BY <1>1, TcbAssumption DEF Moving
  <2>3. SlotToCome' BY <1>1, TcbAssumption DEF SlotToCome
  <2> QED BY <2>1, <2>2, <2>3, ListsStay
<1>2. CASE listMutex = Lts
  <2>1. Moving' = Moving /\ Destination' = Destination
    BY <1>2, TcbAssumption DEF Moving, Destination
  <2>2. SlotToCome' BY <1>2, TcbAssumption DEF SlotToCome
  <2> QED BY <2>1, <2>2, ListsStay
<1>3. CASE listMutex \in Program
  <2> PICK q \in Program : q = listMutex BY <1>3
  <2>1. todo'[q] = todo[q] /\ pc'[q] = pc[q] /\ listMutex' = q
    OBVIOUS
  <2>2. Moving' = Moving /\ Destination' = Destination
    BY <2>1 DEF Moving, Destination
  <2>3. SlotToCome'
    BY <2>1 DEF WakerInv, WakerPart, SlotToCome
  <2> QED BY <2>2, <2>3, ListsStay
<1> QED BY <1>1, <1>2, <1>3
        DEF WakerInv, CreationInv, SlotInv, TypeInv, TypeOK, TcbTypeOK, Scheduler

\* A scheduler with no call to make does not hold state_list_mutex.
LEMMA NotTheMover ==
    ASSUME WakerInv, NEW p \in Program, todo[p] = <<>>, pc[p] \notin {"create", "log"}
    PROVE  listMutex # p
BY TcbAssumption DEF WakerInv, CreationInv, SlotInv, MoverIsKnown

LEMMA CalmStep ==
    ASSUME WakerInv, NEW p \in Program, listMutex # p,
           UNCHANGED <<state, listVars, listMutex, jammed, degree, current, mainLoaded>>,
           \A q \in Program \ {p} :
               /\ UNCHANGED <<todo[q], pc[q], arg[q], cur[q], owes[q]>>
               /\ Members(wakeupList'[q]) \subseteq ThreadsOf(q)
               /\ \A u \in ThreadsOf(q) : joined'[u] = joined[u],
           JoinedAreOwn', OwnThreadsOf(p)', CallsKnownOf(p)', ClientKnownOf(p)',
           QueuesDistinct', ThreadsWait'
    PROVE  WakerPart'
<1>1. ListsMatchPlace' /\ SlotToCome'
  BY MoversStay
<1>2. ASSUME NEW q \in Program \ {p}
      PROVE  OwnThreadsOf(q)' /\ CallsKnownOf(q)' /\ ClientKnownOf(q)'
  <2>1. Bystander(q)
    BY DEF Bystander, listVars
  <2>2. ready'[q] \subseteq ThreadsOf(q)
    BY DEF WakerInv, WakerPart, OwnThreads, OwnThreadsOf, listVars
  <2> QED BY <2>1, <2>2, BystanderOwn, BystanderCalls, BystanderClient
<1>3. OwnThreads' /\ AllCallsKnown' /\ ClientKnown'
  BY <1>2 DEF OwnThreads, AllCallsKnown, ClientKnown
<1> QED BY <1>1, <1>3 DEF WakerPart

-----------------------------------------------------------------------------
(* The steps that change no queue, no list and no state. *)

LEMMA WaitsStay ==
    ASSUME WakerInv, UNCHANGED <<state, semBlocked, semMutex, wakeupList, joined>>,
           \A q \in Program, t \in Thread :
               /\ Notifying(q, t)' <=> Notifying(q, t)
               /\ Waking(q, t)' <=> Waking(q, t)
               /\ Closing(q, t)' <=> Closing(q, t),
           \A t \in Thread : Blocking(t)' <=> Blocking(t)
    PROVE  ThreadsWait'
<1> SUFFICES ASSUME NEW t \in Thread PROVE WaitsRight(t)'
  BY DEF ThreadsWait
<1>1. \A k \in Kind, x \in Waker : WaitsOn(t, k, x)' <=> WaitsOn(t, k, x)
  BY SameWaits
<1>2. WaitsRight(t)
  BY DEF WakerInv, WakerPart, ThreadsWait
<1>3. Parked(t)' <=> Parked(t)
  BY DEF Parked
<1>4. Owner[t] \in Program
  BY TcbAssumption
<1>5. \A x \in Thread : Closing(Owner[t], x) => Closing(Owner[t], x)'
  BY <1>4
<1>6. \A s \in Sem : WaitsOn(t, "sem", s) /\ Blocking(t)' => semMutex'[s] = Owner[t]
  BY <1>2 DEF WaitsRight
<1> QED BY <1>1, <1>2, <1>3, <1>5, <1>6, WaitsKept

LEMMA CallsStay ==
    ASSUME UNCHANGED todo
    PROVE  /\ \A q \in Program, t \in Thread :
                 /\ Waking(q, t)' <=> Waking(q, t)
                 /\ Closing(q, t)' <=> Closing(q, t)
           /\ \A t \in Thread : Blocking(t)' <=> Blocking(t)
           /\ \A q \in Program : Calls(q)' = Calls(q)
BY DEF Calls, Waking, Closing, Blocking

LEMMA QueuesStay ==
    ASSUME WakerInv, UNCHANGED <<semBlocked, wakeupList, joined>>
    PROVE  QueuesDistinct' /\ JoinedAreOwn'
<1>1. \A t : ThreadsOf(t)' = ThreadsOf(t) BY DEF ThreadsOf
<1> QED BY <1>1 DEF WakerInv, WakerPart, OwnThreads, QueuesDistinct, JoinedAreOwn

\* An idle scheduler goes from one place of its loop to another.
LEMMA PlainStep ==
    ASSUME WakerInv, NEW p \in Program, todo[p] = <<>>,
           pc[p] \notin {"create", "log"} \/ listMutex = None,
           UNCHANGED <<state, listVars, listMutex, jammed, degree, current, mainLoaded, todo,
                       semBlocked, semMutex, wakeupList, joined>>,
           \A q \in Program \ {p} : UNCHANGED <<pc[q], arg[q], cur[q], owes[q]>>,
           pc[p] # "notify" /\ pc'[p] # "notify",
           pc'[p] \in {"join", "joinmiss"} => arg'[p] \in ThreadsOf(p),
           ClientKnownOf(p)'
    PROVE  WakerPart'
<1>1. listMutex # p BY NotTheMover, TcbAssumption
<1>2. \A q \in Program, t \in Thread : Notifying(q, t)' <=> Notifying(q, t)
  BY DEF Notifying
<1>3. ThreadsWait' BY <1>2, WaitsStay, CallsStay
<1>4. QueuesDistinct' /\ JoinedAreOwn' BY QueuesStay
<1>5. Calls(p)' = {} /\ Calls(p) = {} /\ todo'[p] = <<>>
  BY CallsStay, CallFacts DEF WakerInv, CreationInv, SlotInv, TypeInv
<1>6. OwnThreadsOf(p)'
  <2>1. ThreadsOf(p)' = ThreadsOf(p) BY DEF ThreadsOf
  <2> QED BY <1>5, <2>1 DEF WakerInv, WakerPart, OwnThreads, OwnThreadsOf, listVars
<1>7. CallsKnownOf(p)'
  <2>1. (CallsDiffer(todo[p]) /\ CallsEnd(todo[p]))'
    BY <1>5, MembersOfFew
  <2> QED BY <1>5, <2>1 DEF CallsKnownOf, ExecIsFreed, CloseWakes, Closing
<1>8. ASSUME NEW q \in Program \ {p}
      PROVE  /\ UNCHANGED <<todo[q], pc[q], arg[q], cur[q], owes[q]>>
             /\ Members(wakeupList'[q]) \subseteq ThreadsOf(q)
             /\ \A u \in ThreadsOf(q) : joined'[u] = joined[u]
  BY DEF WakerInv, WakerPart, OwnThreads, OwnThreadsOf
<1> QED BY <1>1, <1>3, <1>4, <1>6, <1>7, <1>8, CalmStep

LEMMA IdleFacts ==
    ASSUME WakerInv, NEW p \in Program, pc[p] \in IdlePlace \ {"create"}
    PROVE  todo[p] = <<>> /\ Calls(p) = {} /\ listMutex # p
<1>1. todo[p] = <<>> /\ pc[p] \notin {"create", "log"}
  BY DEF WakerInv, CreationInv, SlotInv, MoverIsKnown, IdlePlace
<1> QED BY <1>1, NotTheMover, CallFacts DEF WakerInv, CreationInv, SlotInv, TypeInv

LEMMA WakerPlain ==
    ASSUME WakerInv, NEW p \in Program,
           \/ StStart(p) \/ StLoopTest(p) \/ StUnpark(p) \/ StReply(p) \/ StAskNext(p)
           \/ StReject(p) \/ StCrash(p) \/ StDisconnect(p) \/ StAskJoin(p) \/ Accept(p)
    PROVE  WakerPart'
<1> USE DEF tcbVars, ltsVars, semVars, clientVars, consoleVars, Goto
<1>0. ClientKnownOf(p) /\ TypeOK
  BY DEF WakerInv, WakerPart, ClientKnown, CreationInv, SlotInv, TypeInv
<1>t. /\ pc \in [Program -> StPlace] /\ cur \in [Program -> Thread \cup {None}]
      /\ owes \in [Program -> BOOLEAN] /\ arg \in [Program -> Thread \cup {None}]
  BY <1>0 DEF TypeOK
<1>c. ASSUME UNCHANGED todo, todo[p] = <<>>
      PROVE  Calls(p)' = {} /\ todo'[p] = <<>> /\ ThreadsOf(p)' = ThreadsOf(p)
  BY <1>0, <1>c, CallsStay, CallFacts DEF ThreadsOf
<1>1. CASE StStart(p)
  <2>1. pc[p] = "start" /\ todo[p] = <<>> BY <1>1, IdleFacts DEF StStart, IdlePlace
  <2>2. pc'[p] \in {"end", "recv"} BY <1>1, <1>t DEF StStart
  <2>3. ClientKnownOf(p)' BY <1>0, <1>1, <1>c, <2>1, <2>2 DEF StStart, ClientKnownOf, Serving
  <2> QED BY <1>1, <1>t, <2>1, <2>2, <2>3, PlainStep DEF StStart
<1>2. CASE StLoopTest(p)
  <2>1. pc[p] = "check" /\ todo[p] = <<>> BY <1>2 DEF StLoopTest
  <2>2. pc'[p] \in {"end", "recv"} BY <1>2, <1>t DEF StLoopTest
  <2>3. ClientKnownOf(p)'
    BY <1>0, <1>2, <1>c, <2>1, <2>2 DEF StLoopTest, ClientKnownOf, Serving, listVars
  <2> QED BY <1>2, <1>t, <2>1, <2>2, <2>3, PlainStep DEF StLoopTest
<1>3. CASE StUnpark(p)
  <2>1. pc[p] = "park" /\ todo[p] = <<>> BY <1>3, IdleFacts DEF StUnpark, IdlePlace
  <2>2. pc'[p] = "unparked" BY <1>3, <1>t DEF StUnpark
  <2>3. ClientKnownOf(p)' BY <1>0, <1>3, <1>c, <2>1, <2>2 DEF StUnpark, ClientKnownOf, Serving
  <2> QED BY <1>3, <1>t, <2>1, <2>2, <2>3, PlainStep DEF StUnpark
<1>4. CASE StReply(p)
  <2>1. pc[p] = "reply" /\ todo[p] = <<>> BY <1>4 DEF StReply
  <2>2. pc'[p] = "served" /\ cur'[p] = exec[p] /\ ~owes'[p] BY <1>4, <1>t DEF StReply
  <2>3. exec[p] # None
    BY <1>0, <2>1, CallFacts DEF ClientKnownOf, Serving
  <2>4. exec[p] \in ThreadsOf(p) /\ state[exec[p]] = "EXEC"
    BY <2>1, <2>3, ExecExecutes DEF ThreadsOf
  <2>5. cur[p] # None /\ mainLoaded[p]
    BY <1>0, <2>1, <2>4 DEF ClientKnownOf, Serving
  <2>6. ClientKnownOf(p)'
    BY <1>4, <1>c, <2>1, <2>2, <2>3, <2>5 DEF StReply, ClientKnownOf, Serving, listVars
  <2> QED BY <1>4, <1>t, <2>1, <2>2, <2>6, PlainStep DEF StReply
<1>5. CASE StAskNext(p)
  <2>1. pc[p] = "recv" /\ todo[p] = <<>> BY <1>5, IdleFacts DEF StAskNext, Running, IdlePlace
  <2>2. pc'[p] = "sched" BY <1>5, <1>t DEF StAskNext
  <2>3. ClientKnownOf(p)' BY <1>0, <1>5, <1>c, <2>1, <2>2 DEF StAskNext, ClientKnownOf, Serving
  <2> QED BY <1>5, <1>t, <2>1, <2>2, <2>3, PlainStep DEF StAskNext
<1>6. CASE StReject(p)
  <2>1. pc[p] = "recv" /\ todo[p] = <<>>
    BY <1>6, IdleFacts DEF StReject, Running, IdlePlace
  <2>2. pc'[p] = "served" BY <1>6, <1>t DEF StReject
  <2>3. ClientKnownOf(p)'
    BY <1>0, <1>6, <1>c, <2>1, <2>2 DEF StReject, ClientKnownOf, Serving, listVars
  <2> QED BY <1>6, <1>t, <2>1, <2>2, <2>3, PlainStep DEF StReject
<1>7. CASE StDisconnect(p)
  <2>1. pc[p] = "recv" /\ todo[p] = <<>> BY <1>7, IdleFacts DEF StDisconnect, IdlePlace
  <2>2. pc'[p] = "served" BY <1>7, <1>t DEF StDisconnect
  <2>3. ClientKnownOf(p)'
    BY <1>0, <1>7, <1>c, <2>1, <2>2 DEF StDisconnect, ClientKnownOf, Serving, listVars
  <2> QED BY <1>7, <1>t, <2>1, <2>2, <2>3, PlainStep DEF StDisconnect
<1>8. CASE StAskJoin(p)
  <2>1. pc[p] = "recv" /\ cur[p] # None /\ todo[p] = <<>>
    BY <1>8, IdleFacts DEF StAskJoin, Running, IdlePlace
  <2>2. pc'[p] = "join" /\ arg'[p] \in ThreadsOf(p)
    BY <1>8, <1>t DEF StAskJoin
  <2>3. ClientKnownOf(p)'
    BY <1>0, <1>8, <1>c, <2>1, <2>2 DEF StAskJoin, ClientKnownOf, Serving, listVars
  <2> QED BY <1>8, <1>t, <2>1, <2>2, <2>3, PlainStep DEF StAskJoin
<1>9. CASE Accept(p)
  <2>1. pc[p] = "none" /\ todo[p] = <<>> BY <1>9, IdleFacts DEF Accept, IdlePlace
  <2>2. pc'[p] = "start" BY <1>9, <1>t DEF Accept
  <2>3. ClientKnownOf(p)' BY <1>0, <1>9, <1>c, <2>1, <2>2 DEF Accept, ClientKnownOf, Serving
  <2> QED BY <1>9, <1>t, <2>1, <2>2, <2>3, PlainStep DEF Accept
<1>10. CASE StCrash(p)
  <2>1. pc[p] = "recv" /\ cur[p] # None /\ exec[p] = None /\ todo[p] = <<>>
    BY <1>10, IdleFacts DEF StCrash, Running, IdlePlace
  <2>2. pc'[p] = "crashed" BY <1>10, <1>t DEF StCrash
  <2>3. owes[p] BY <1>0, <1>t, <2>1, ZenonT(60) DEF ClientKnownOf, Serving
  <2>4. ClientKnownOf(p)'
    BY <1>0, <1>10, <1>c, <2>1, <2>2, <2>3 DEF StCrash, ClientKnownOf, Serving, listVars
  <2> QED BY <1>10, <1>t, <2>1, <2>2, <2>4, PlainStep DEF StCrash
<1> QED BY <1>1, <1>2, <1>3, <1>4, <1>5, <1>6, <1>7, <1>8, <1>9, <1>10

\* log_metrics() only reads, and nobody else is behind the mutex.
LEMMA WakerLogMetrics ==
    ASSUME WakerInv, NEW p \in Program, StLogMetrics(p)
    PROVE  WakerPart'
<1> USE DEF tcbVars, ltsVars, semVars, clientVars, consoleVars, Goto
<1>0. ClientKnownOf(p) /\ TypeOK /\ MoverIsKnown
  BY DEF WakerInv, WakerPart, ClientKnown, CreationInv, SlotInv, TypeInv
<1>1. pc[p] = "log" /\ todo[p] = <<>> /\ listMutex = None /\ jammed = None
  BY <1>0, LocksWhenFree DEF StLogMetrics
<1>2. /\ pc'[p] = "served" /\ \A q \in Program \ {p} : pc'[q] = pc[q]
      /\ UNCHANGED <<state, listVars, listMutex, jammed, degree, current, mainLoaded, todo,
                     semBlocked, semMutex, wakeupList, joined, arg, cur, owes>>
  BY <1>0, <1>1 DEF StLogMetrics, TypeOK
<1>3. Calls(p)' = {} /\ todo'[p] = <<>> /\ ThreadsOf(p)' = ThreadsOf(p)
  BY <1>0, <1>1, <1>2, CallsStay, CallFacts DEF ThreadsOf
<1>4. ClientKnownOf(p)'
  BY <1>0, <1>1, <1>2, <1>3 DEF ClientKnownOf, Serving, listVars
<1> QED BY <1>1, <1>2, <1>4, PlainStep

\* The long-term scheduler between two moves, the console and the listener.
LEMMA WakerElsewhere ==
    ASSUME WakerInv,
           \/ LtsTake \/ LtsStop \/ LtsCheckWait \/ LtsCheckPost \/ LtsSignalMain
           \/ Ending \/ Quit \/ UNCHANGED vars
    PROVE  WakerPart'
<1>1. /\ UNCHANGED <<state, listVars, listMutex, jammed, degree, semBlocked, semMutex, pc, todo,
                     arg, joined, wakeupList, cur, owes>>
      /\ \A q \in Program : mainLoaded[q] => mainLoaded'[q]
      /\ lpc = "moving" => current' = current
  BY DEF LtsTake, LtsStop, LtsCheckWait, LtsCheckPost, LtsSignalMain, Ending, ListenerEnd,
         ShutdownSocket, JoinListener, JoinLongTerm, JoinPrograms, Quit, vars, tcbVars,
         ltsVars, semVars, clientVars, consoleVars,
         WakerInv, CreationInv, SlotInv, TypeInv, TypeOK
<1>2. listMutex = Lts => lpc = "moving"
  BY DEF WakerInv, CreationInv, SlotInv, MoverIsKnown
<1>3. Moving' = Moving /\ Destination' = Destination
  BY <1>1, <1>2, TcbAssumption DEF Moving, Destination
<1>4. ListsMatchPlace' /\ SlotToCome'
  BY <1>1, <1>3, ListsStay DEF WakerInv, WakerPart, SlotToCome
<1>5. ThreadsWait'
  <2>1. \A q \in Program, t \in Thread : Notifying(q, t)' <=> Notifying(q, t)
    BY <1>1 DEF Notifying
  <2> QED BY <1>1, <2>1, WaitsStay, CallsStay
<1>6. QueuesDistinct' /\ JoinedAreOwn' BY <1>1, QueuesStay
<1>7. ASSUME NEW q \in Program
      PROVE  OwnThreadsOf(q)' /\ CallsKnownOf(q)' /\ ClientKnownOf(q)'
  <2>1. Bystander(q)
    BY <1>1 DEF Bystander, listVars
  <2>2. ready'[q] \subseteq ThreadsOf(q) /\ Members(wakeupList'[q]) \subseteq ThreadsOf(q)
    BY <1>1 DEF WakerInv, WakerPart, OwnThreads, OwnThreadsOf, listVars
  <2> QED BY <2>1, <2>2, BystanderOwn, BystanderCalls, BystanderClient
<1> QED BY <1>4, <1>5, <1>6, <1>7 DEF WakerPart, OwnThreads, AllCallsKnown, ClientKnown

-----------------------------------------------------------------------------
(* The steps that decide which moves come next. *)

\* One scheduler's calls change; whose they were stay.
LEMMA NewCalls ==
    ASSUME TypeOK, NEW p \in Program, NEW calls, todo' = [todo EXCEPT ![p] = calls]
    PROVE  /\ Calls(p)' = Members(calls) /\ todo'[p] = calls
           /\ \A q \in Program \ {p} : todo'[q] = todo[q] /\ Calls(q)' = Calls(q)
BY DEF Calls, TypeOK

LEMMA CallsByOwner ==
    ASSUME WakerInv, NEW p \in Program, todo[p] = <<>>, pc[p] \notin {"create", "log"},
           NEW calls, todo' = [todo EXCEPT ![p] = calls]
    PROVE  /\ \A t \in Thread : Owner[t] # p => Blocking(t)' <=> Blocking(t)
           /\ \A t \in Thread : Owner[t] = p => ~Blocking(t)
           /\ \A t \in Thread : ~Closing(p, t) /\ ~Waking(p, t)
           /\ \A q \in Program \ {p}, t \in Thread :
                 /\ Waking(q, t)' <=> Waking(q, t)
                 /\ Closing(q, t)' <=> Closing(q, t)
           /\ Calls(p)' = Members(calls) /\ todo'[p] = calls
           /\ \A q \in Program \ {p} : todo'[q] = todo[q]
           /\ listMutex # p
<1>0. TypeOK BY DEF WakerInv, CreationInv, SlotInv, TypeInv
<1>1. /\ Calls(p)' = Members(calls) /\ todo'[p] = calls
      /\ \A q \in Program \ {p} : todo'[q] = todo[q] /\ Calls(q)' = Calls(q)
  BY <1>0, NewCalls
<1>2. Calls(p) = {} BY <1>0, CallFacts
<1>3. \A t \in Thread : Owner[t] \in Program BY TcbAssumption
<1> QED BY <1>1, <1>2, <1>3, NotTheMover DEF Blocking, Closing, Waking

\* schedule_next_for() and the first move of a main: nobody blocks, closes
\* or is woken.
LEMMA ScheduleStep ==
    ASSUME WakerInv, NEW p \in Program, todo[p] = <<>>, pc[p] \notin {"create", "log", "notify"},
           pc'[p] \notin {"notify", "join", "joinmiss"},
           UNCHANGED <<state, listVars, listMutex, jammed, degree, current, mainLoaded,
                       semBlocked, semMutex, arg, joined, wakeupList, cur, owes>>,
           \A q \in Program \ {p} : pc'[q] = pc[q],
           NEW calls, todo' = [todo EXCEPT ![p] = calls],
           CallsDiffer(calls), CallsEnd(calls),
           \A c \in Members(calls) :
               /\ ~c.wake /\ c.to \in {"READY", "EXEC"} /\ c.tcb \in ThreadsOf(p)
               /\ <<state[c.tcb], c.to>> \in LegalMove /\ state[c.tcb] # "BLOCKED"
               /\ c.to = "EXEC" => exec[p] = None \/ exec[p] = calls[1].tcb,
           ClientKnownOf(p)'
    PROVE  WakerPart'
<1>1. /\ \A t \in Thread : Owner[t] # p => Blocking(t)' <=> Blocking(t)
      /\ \A t \in Thread : Owner[t] = p => ~Blocking(t)
      /\ \A t \in Thread : ~Closing(p, t) /\ ~Waking(p, t)
      /\ \A q \in Program \ {p}, t \in Thread :
            /\ Waking(q, t)' <=> Waking(q, t)
            /\ Closing(q, t)' <=> Closing(q, t)
      /\ Calls(p)' = Members(calls) /\ todo'[p] = calls
      /\ \A q \in Program \ {p} : todo'[q] = todo[q]
      /\ listMutex # p
  BY CallsByOwner
<1>2. \A q \in Program, t \in Thread : Notifying(q, t)' <=> Notifying(q, t)
  BY DEF Notifying
<1>c. /\ Calls(p)' = Members(calls)
      /\ \A c \in Members(calls) : ~c.wake /\ c.to # "EXIT" /\ c.to # "BLOCKED"
  <2>1. \A c \in Members(calls) : ~c.wake /\ c.to \in {"READY", "EXEC"}
    OBVIOUS
  <2> QED BY <1>1, <2>1
<1>3. \A t \in Thread : ~Closing(p, t)' /\ ~Waking(p, t)'
  BY ONLY <1>c DEF Closing, Waking
<1>4. \A t \in Thread : Owner[t] = p => ~Blocking(t)'
  BY ONLY <1>c DEF Blocking
<1>5. ThreadsWait'
  BY <1>1, <1>2, <1>3, <1>4, WaitsStay
<1>6. QueuesDistinct' /\ JoinedAreOwn' BY QueuesStay
<1>7. OwnThreadsOf(p)'
  <2>1. ThreadsOf(p)' = ThreadsOf(p) BY DEF ThreadsOf
  <2> QED BY <1>1, <2>1 DEF WakerInv, WakerPart, OwnThreads, OwnThreadsOf, listVars
<1>8. CallsKnownOf(p)'
  <2>1. \A c \in Calls(p)' : LegalCall(c)' BY <1>1 DEF LegalCall
  <2>2. ExecIsFreed(p)' BY <1>1 DEF ExecIsFreed, listVars
  <2>3. CloseWakes(p)'
    BY <1>1, <1>3 DEF CloseWakes
  <2>4. CallsDiffer(todo[p])' /\ CallsEnd(todo[p])'
    BY <1>1 DEF CallsDiffer, CallsEnd
  <2> QED BY <2>1, <2>2, <2>3, <2>4 DEF CallsKnownOf
<1>9. ASSUME NEW q \in Program \ {p}
      PROVE  /\ UNCHANGED <<todo[q], pc[q], arg[q], cur[q], owes[q]>>
             /\ Members(wakeupList'[q]) \subseteq ThreadsOf(q)
             /\ \A u \in ThreadsOf(q) : joined'[u] = joined[u]
  BY <1>1 DEF WakerInv, WakerPart, OwnThreads, OwnThreadsOf
<1> QED BY <1>1, <1>5, <1>6, <1>7, <1>8, <1>9, CalmStep

LEMMA MoveFields ==
    ASSUME NEW t, NEW dst
    PROVE  Move(t, dst).tcb = t /\ Move(t, dst).to = dst /\ Move(t, dst).wake = FALSE
BY DEF Move

LEMMA WakerMainLoaded ==
    ASSUME WakerInv, NEW p \in Program, StMainLoaded(p)
    PROVE  WakerPart'
<1> USE DEF tcbVars, ltsVars, semVars, clientVars, consoleVars, Goto
<1> PICK main \in Thread : main = Main[p] BY TcbAssumption
<1>0. ClientKnownOf(p) /\ TypeOK /\ Known
  BY DEF WakerInv, WakerPart, ClientKnown, CreationInv, SlotInv, TypeInv
<1>1. pc[p] = "mainwait" /\ todo[p] = <<>>
  BY IdleFacts DEF StMainLoaded, IdlePlace
<1>2. pc'[p] = "served" /\ \A q \in Program \ {p} : pc'[q] = pc[q]
  BY <1>0 DEF StMainLoaded, TypeOK
<1>3. cur[p] = main /\ main \in ThreadsOf(p) /\ state[main] = "READY"
  <2>1. main \in ThreadsOf(p) BY TcbAssumption DEF ThreadsOf
  <2>2. Admitted(main) BY <1>0 DEF StMainLoaded, Known, MainKnown
  <2>3. state[main] \in {"none", "NEW", "READY"} /\ cur[p] = main
    BY <1>0, <1>1, <2>1 DEF ClientKnownOf, Serving
  <2>4. state[main] \in {"READY", "EXEC", "BLOCKED", "EXIT"}
    BY <2>2 DEF Admitted, Active
  <2> QED BY <2>1, <2>3, <2>4
<1>4. exec[p] = None
  <2> SUFFICES ASSUME exec[p] # None PROVE FALSE OBVIOUS
  <2>1. exec[p] \in ThreadsOf(p) /\ state[exec[p]] = "EXEC"
    BY <1>1, ExecExecutes DEF ThreadsOf
  <2> QED BY <1>0, <1>1, <2>1 DEF ClientKnownOf, Serving
<1> DEFINE calls == <<Move(main, "EXEC")>>
<1>5. todo' = [todo EXCEPT ![p] = calls] BY DEF StMainLoaded
<1>6. calls[1] = Move(main, "EXEC") /\ DOMAIN calls = 1 .. 1 /\ Len(calls) = 1 /\ calls # <<>>
  OBVIOUS
<1> HIDE DEF calls
<1>7. Members(calls) = {Move(main, "EXEC")} /\ CallsDiffer(calls) /\ CallsEnd(calls)
  BY <1>6 DEF Members, CallsDiffer, CallsEnd
<1>8. \A c \in Members(calls) :
          /\ ~c.wake /\ c.to \in {"READY", "EXEC"} /\ c.tcb \in ThreadsOf(p)
          /\ <<state[c.tcb], c.to>> \in LegalMove /\ state[c.tcb] # "BLOCKED"
          /\ c.to = "EXEC" => exec[p] = None \/ exec[p] = calls[1].tcb
  <2> SUFFICES ASSUME NEW c, c = Move(main, "EXEC")
               PROVE  /\ ~c.wake /\ c.to \in {"READY", "EXEC"} /\ c.tcb \in ThreadsOf(p)
                      /\ <<state[c.tcb], c.to>> \in LegalMove /\ state[c.tcb] # "BLOCKED"
                      /\ c.to = "EXEC" => exec[p] = None \/ exec[p] = calls[1].tcb
    BY <1>7
  <2>1. c.tcb = main /\ c.to = "EXEC" /\ c.wake = FALSE BY DEF Move
  <2> QED BY <1>3, <1>4, <2>1 DEF LegalMove
<1>9. Calls(p)' = Members(calls) /\ todo'[p] = calls
  BY <1>0, <1>5, NewCalls
<1>10. ClientKnownOf(p)'
  <2>1. /\ todo'[p] # <<>> /\ todo'[p][1] = Move(main, "EXEC")
        /\ \A c \in Calls(p)' : c.to = "EXEC"
    <3>1. Move(main, "EXEC").to = "EXEC" BY DEF Move
    <3>2. \A c \in Calls(p)' : c = Move(main, "EXEC") BY <1>7, <1>9
    <3>3. todo'[p] # <<>> /\ todo'[p][1] = Move(main, "EXEC") BY <1>6, <1>9
    <3> QED BY <3>1, <3>2, <3>3
  <2>2. cur'[p] = main /\ main # None /\ mainLoaded'[p] /\ pc'[p] = "served"
    BY <1>2, <1>3, TcbAssumption DEF StMainLoaded
  <2> QED BY <2>1, <2>2 DEF ClientKnownOf, Serving
<1> QED BY <1>1, <1>2, <1>5, <1>7, <1>8, <1>10, ScheduleStep DEF StMainLoaded

\* While nobody moves, the lists say what the threads are.
LEMMA ListsAreStates ==
    ASSUME WakerInv, listMutex = None, NEW p \in Program
    PROVE  /\ \A t \in ready[p] : t \in ThreadsOf(p) /\ state[t] = "READY"
           /\ exec[p] # None => exec[p] \in ThreadsOf(p) /\ state[exec[p]] = "EXEC"
           /\ \A t \in Thread : /\ t \in blockedList <=> state[t] = "BLOCKED"
                                /\ t \in exitList <=> state[t] = "EXIT"
<1>1. \A t \in Thread : Place(t) = state[t]
  BY MovingIsNone, TcbAssumption DEF Place
<1>2. ready[p] \subseteq ThreadsOf(p) /\ (exec[p] # None => exec[p] \in ThreadsOf(p))
  BY DEF WakerInv, WakerPart, OwnThreads, OwnThreadsOf
<1>3. \A t \in ThreadsOf(p) : t \in Thread /\ Owner[t] = p
  BY DEF ThreadsOf
<1>4. ListsMatchPlace BY DEF WakerInv, WakerPart
<1> QED BY <1>1, <1>2, <1>3, <1>4 DEF ListsMatchPlace

LEMMA WakerSchedule ==
    ASSUME WakerInv, NEW p \in Program, StSchedule(p)
    PROVE  WakerPart'
<1> USE DEF tcbVars, ltsVars, semVars, clientVars, consoleVars
<1>0. ClientKnownOf(p) /\ TypeOK
  BY DEF WakerInv, WakerPart, ClientKnown, CreationInv, SlotInv, TypeInv
<1>1. pc[p] = "sched" /\ todo[p] = <<>> /\ listMutex = None
  BY DEF StSchedule
<1>2. pc'[p] \in {"empty", "reply"} /\ \A q \in Program \ {p} : pc'[q] = pc[q]
  BY <1>0 DEF StSchedule, Goto, TypeOK
<1>3. pc'[p] = "empty" => UNCHANGED todo
  BY <1>0 DEF StSchedule, Goto, TypeOK
<1>4. CASE UNCHANGED todo /\ (pc'[p] = "reply" => exec[p] # None)
  <2>1. Calls(p)' = {} /\ todo'[p] = <<>> BY <1>0, <1>1, <1>4, CallsStay, CallFacts
  <2>2. ClientKnownOf(p)'
    BY <1>0, <1>1, <1>2, <1>4, <2>1 DEF StSchedule, ClientKnownOf, Serving, listVars, ThreadsOf
  <2> QED BY <1>1, <1>2, <1>4, <2>2, PlainStep DEF StSchedule
<1>5. CASE pc'[p] = "reply" /\ \E t \in ready[p] : todo' = [todo EXCEPT ![p] = change_exec(p, t)]
  <2> PICK t \in ready[p] : todo' = [todo EXCEPT ![p] = change_exec(p, t)] BY <1>5
  <2> PICK calls : calls = change_exec(p, t) OBVIOUS
  <2>1. /\ t \in ThreadsOf(p) /\ t \in Thread /\ state[t] = "READY"
        /\ exec[p] # None => exec[p] \in ThreadsOf(p) /\ state[exec[p]] = "EXEC"
    BY <1>1, ListsAreStates DEF ThreadsOf
  <2>2. exec[p] # t BY <2>1, TcbAssumption
  <2>3. /\ Members(calls) = {Move(t, "EXEC")}
               \cup (IF exec[p] = None THEN {} ELSE {Move(exec[p], "READY")})
        /\ CallsDiffer(calls) /\ CallsEnd(calls)
        /\ calls[1].tcb = IF exec[p] = None THEN t ELSE exec[p]
    BY <1>0, <2>1, <2>2, ChangeExec
  <2>4. \A c \in Members(calls) :
            c = Move(t, "EXEC") \/ (exec[p] # None /\ c = Move(exec[p], "READY"))
    BY <2>3
  <2>5. exec[p] = None \/ exec[p] = calls[1].tcb
    BY <2>3
  <2>6. ASSUME NEW c \in Members(calls)
        PROVE  /\ ~c.wake /\ c.to \in {"READY", "EXEC"} /\ c.tcb \in ThreadsOf(p)
               /\ <<state[c.tcb], c.to>> \in LegalMove /\ state[c.tcb] # "BLOCKED"
               /\ c.to = "EXEC" => exec[p] = None \/ exec[p] = calls[1].tcb
    <3>1. CASE c = Move(t, "EXEC")
      <4>1. c.tcb = t /\ c.to = "EXEC" /\ c.wake = FALSE BY <3>1 DEF Move
      <4> QED BY <2>1, <2>5, <4>1 DEF LegalMove
    <3>2. CASE exec[p] # None /\ c = Move(exec[p], "READY")
      <4>1. c.tcb = exec[p] /\ c.to = "READY" /\ c.wake = FALSE BY <3>2 DEF Move
      <4> QED BY <2>1, <3>2, <4>1 DEF LegalMove
    <3> QED BY <2>4, <3>1, <3>2
  <2>7. Calls(p)' = Members(calls) /\ todo'[p] = calls
    BY <1>0, NewCalls
  <2>8. Move(t, "EXEC") \in Calls(p)' /\ Move(t, "EXEC").to = "EXEC"
    BY <2>3, <2>7 DEF Move
  <2>9. ClientKnownOf(p)'
    BY <1>0, <1>1, <1>5, <2>8 DEF StSchedule, ClientKnownOf, Serving, listVars, ThreadsOf
  <2>10. todo' = [todo EXCEPT ![p] = calls] OBVIOUS
  <2> QED BY <1>1, <1>2, <2>3, <2>6, <2>9, <2>10, ScheduleStep DEF StSchedule
<1> QED BY <1>0, <1>4, <1>5 DEF StSchedule, Goto, TypeOK

-----------------------------------------------------------------------------
(* The steps that pass a wait from one queue to the next. *)

\* The one queue or call that holds t; with any other kind, none does.
KindsAre(t, k, x) ==
    /\ \A s \in Sem : t \in Members(semBlocked[s]) <=> k = "sem" /\ s = x
    /\ \A p \in Program : Notifying(p, t) <=> k = "notify" /\ p = x
    /\ \A p \in Program : t \in Members(wakeupList[p]) <=> k = "wakeup" /\ p = x
    /\ \A p \in Program : Waking(p, t) <=> k = "wake" /\ p = x
    /\ \A u \in Thread : state[u] # "EXIT" /\ t \in Members(joined[u])
                              <=> k = "join" /\ u = x

LEMMA OneWaitKinds ==
    ASSUME NEW t \in Thread, WaitsRight(t), NEW k \in Kind, NEW x \in Waker, WaitsOn(t, k, x)
    PROVE  KindsAre(t, k, x)
<1>1. \A k2 \in Kind, x2 \in Waker : WaitsOn(t, k2, x2) <=> k2 = k /\ x2 = x
  BY OneWait
<1>2. \A x2 \in Sem \cup Program \cup Thread : x2 \in Waker
  BY DEF Waker
<1>3. \A x2 \in Waker : /\ WaitsOn(t, "sem", x2) <=> k = "sem" /\ x2 = x
                        /\ WaitsOn(t, "notify", x2) <=> k = "notify" /\ x2 = x
                        /\ WaitsOn(t, "wakeup", x2) <=> k = "wakeup" /\ x2 = x
                        /\ WaitsOn(t, "wake", x2) <=> k = "wake" /\ x2 = x
                        /\ WaitsOn(t, "join", x2) <=> k = "join" /\ x2 = x
  BY <1>1 DEF Kind
<1> QED BY <1>2, <1>3, WaitKinds DEF KindsAre

LEMMA NoWaitKinds ==
    ASSUME NEW t \in Thread, WaitsRight(t), ~Parked(t),
           \A x \in Thread : ~(Closing(Owner[t], x) /\ WaitsOn(t, "join", x))
    PROVE  KindsAre(t, "none", None)
<1>1. \A k \in Kind, x \in Waker : ~WaitsOn(t, k, x)
  BY NoWait
<1>2. \A x \in Sem \cup Program \cup Thread : x \in Waker
  BY DEF Waker
<1>3. \A x \in Waker : /\ ~WaitsOn(t, "sem", x) /\ ~WaitsOn(t, "notify", x)
                       /\ ~WaitsOn(t, "wakeup", x) /\ ~WaitsOn(t, "wake", x)
                       /\ ~WaitsOn(t, "join", x)
  BY <1>1 DEF Kind
<1> QED BY <1>2, <1>3, WaitKinds DEF KindsAre

LEMMA WaitsBecome ==
    ASSUME NEW t \in Thread, NEW k \in Kind, NEW x \in Waker, KindsAre(t, k, x)',
           k = "sem" => x \in Sem,
           k \in {"notify", "wakeup", "wake"} => x \in Program,
           k = "join" => x \in Thread,
           \/ state'[t] = "BLOCKED"
           \/ k \in {"sem", "join"} /\ Blocking(t)'
           \/ k = "join" /\ Closing(Owner[t], x)',
           k = "sem" /\ Blocking(t)' => semMutex'[x] = Owner[t]
    PROVE  WaitsRight(t)'
<1>1. \A k2 \in Kind, x2 \in Waker : WaitsOn(t, k2, x2)' <=> k2 = k /\ x2 = x
  BY DEF KindsAre, Kind, WaitsOn, Waking, Notifying
<1> QED BY <1>1, WaitsBecomeOne

LEMMA WaitsOver ==
    ASSUME NEW t \in Thread, KindsAre(t, "none", None)', ~Parked(t)'
    PROVE  WaitsRight(t)'
<1>1. \A k \in Kind, x \in Waker : ~WaitsOn(t, k, x)'
  BY DEF KindsAre, Kind, WaitsOn, Waking, Notifying
<1> QED BY <1>1, WaitsEnd

\* A thread that executes while its scheduler has no call to make waits for
\* nothing.
LEMMA ExecWaitsForNothing ==
    ASSUME WakerInv, NEW t \in Thread, todo[Owner[t]] = <<>>, state[t] # "BLOCKED"
    PROVE  KindsAre(t, "none", None)
<1> PICK p \in Program : p = Owner[t] BY TcbAssumption
<1>1. Calls(p) = {}
  BY CallFacts DEF WakerInv, CreationInv, SlotInv, TypeInv
<1>2. ~Parked(t) /\ \A x \in Thread : ~Closing(Owner[t], x)
  BY <1>1 DEF Parked, Blocking, Closing
<1> QED BY <1>2, NoWaitKinds DEF WakerInv, WakerPart, ThreadsWait

LEMMA WakerWakeupThreads ==
    ASSUME WakerInv, NEW p \in Program, StWakeupThreads(p)
    PROVE  WakerPart'
<1> USE DEF tcbVars, ltsVars, semVars, clientVars, consoleVars
<1>0. ClientKnownOf(p) /\ TypeOK /\ OwnThreadsOf(p)
  BY DEF WakerInv, WakerPart, ClientKnown, OwnThreads, CreationInv, SlotInv, TypeInv
<1> PICK list : list = wakeupList[p] OBVIOUS
<1> PICK taken : taken = Taken(list) OBVIOUS
<1> PICK calls : calls = [i \in DOMAIN taken |-> Wake(taken[i])] OBVIOUS
<1>1. /\ pc[p] \in {"served", "empty", "unparked", "joinmiss"} /\ todo[p] = <<>>
      /\ todo' = [todo EXCEPT ![p] = calls]
      /\ wakeupList' = [wakeupList EXCEPT ![p] = Left(list)]
  BY DEF StWakeupThreads
<1>2. /\ pc'[p] \in {"check", "join", "park", "sched"}
      /\ pc'[p] = "check" => pc[p] = "served"
      /\ pc'[p] = "join" => pc[p] = "joinmiss"
      /\ \A q \in Program \ {p} : pc'[q] = pc[q]
  BY <1>0, <1>1 DEF StWakeupThreads, Goto, TypeOK
<1>3. list \in Seq(Thread) /\ Distinct(list)
  BY <1>0 DEF TypeOK, WakerInv, WakerPart, QueuesDistinct
<1>4. /\ Members(list) = Members(taken) \cup Members(Left(list))
      /\ Distinct(taken) /\ Distinct(Left(list))
      /\ Members(taken) \cap Members(Left(list)) = {}
  BY <1>3, MembersHalves
<1>5. taken \in Seq(Thread) BY <1>3, HalvesType
<1>6. Members(calls) = {Wake(t) : t \in Members(taken)} /\ CallsDiffer(calls) /\ CallsEnd(calls)
  BY <1>4, <1>5, WakesOf
<1>7. /\ \A t \in Thread : Owner[t] # p => Blocking(t)' <=> Blocking(t)
      /\ \A t \in Thread : Owner[t] = p => ~Blocking(t)
      /\ \A t \in Thread : ~Closing(p, t) /\ ~Waking(p, t)
      /\ \A q \in Program \ {p}, t \in Thread :
            /\ Waking(q, t)' <=> Waking(q, t)
            /\ Closing(q, t)' <=> Closing(q, t)
      /\ Calls(p)' = Members(calls) /\ todo'[p] = calls
      /\ \A q \in Program \ {p} : todo'[q] = todo[q]
      /\ listMutex # p
  BY <1>1, CallsByOwner
<1>8. wakeupList'[p] = Left(list) /\ \A q \in Program \ {p} : wakeupList'[q] = wakeupList[q]
  BY <1>0, <1>1 DEF TypeOK
<1>9. \A t : Wake(t).tcb = t /\ Wake(t).to = "READY" /\ Wake(t).wake = TRUE
  BY DEF Wake
<1>10. \A c \in Calls(p)' : /\ c.wake = TRUE /\ c.to = "READY" /\ c.tcb \in Members(taken)
  BY <1>6, <1>7, <1>9
<1>11. \A t \in Thread : Waking(p, t)' <=> t \in Members(taken)
  BY <1>6, <1>7, <1>9 DEF Waking
<1>12. \A t \in Thread : ~Closing(p, t)' /\ (Owner[t] = p => ~Blocking(t)')
  BY <1>10 DEF Closing, Blocking
<1>13. Members(list) \subseteq ThreadsOf(p) /\ \A t \in ThreadsOf(p) : t \in Thread /\ Owner[t] = p
  BY <1>0 DEF OwnThreadsOf, ThreadsOf
<1>14. "wakeup" \in Kind /\ "wake" \in Kind /\ p \in Waker
  BY DEF Kind, Waker
<1>15. \A t \in Thread : WaitsRight(t) BY DEF WakerInv, WakerPart, ThreadsWait
<1>16. ASSUME NEW t \in Members(list)
       PROVE  state[t] = "BLOCKED" /\ KindsAre(t, "wakeup", p)
  <2>1. WaitsOn(t, "wakeup", p) BY DEF WaitsOn
  <2>2. state[t] = "BLOCKED" BY <1>13, <1>14, <1>15, <2>1 DEF WaitsRight
  <2> QED BY <1>13, <1>14, <1>15, <2>1, <2>2, OneWaitKinds
<1>17. \A q \in Program, t \in Thread : Notifying(q, t)' <=> Notifying(q, t)
  BY <1>1, <1>2 DEF Notifying, StWakeupThreads
<1>18. ASSUME NEW t \in Thread PROVE WaitsRight(t)'
  <2>1. CASE t \in Members(taken)
    <3>1. state'[t] = "BLOCKED" /\ KindsAre(t, "wakeup", p)
      BY <1>4, <1>16, <2>1 DEF StWakeupThreads
    <3>2. KindsAre(t, "wake", p)'
      <4>1. \A q \in Program : ~(t \in Members(wakeupList'[q]))
        BY <1>4, <1>8, <2>1, <3>1 DEF KindsAre
      <4>2. \A q \in Program : Waking(q, t)' <=> q = p
        BY <1>7, <1>11, <2>1, <3>1 DEF KindsAre
      <4>3. \A s \in Sem : t \notin Members(semBlocked'[s])
        BY <3>1 DEF KindsAre, StWakeupThreads
      <4>4. \A u \in Thread : ~(state'[u] # "EXIT" /\ t \in Members(joined'[u]))
        BY <3>1 DEF KindsAre, StWakeupThreads
      <4>5. \A q \in Program : ~Notifying(q, t)'
        BY <1>17, <3>1 DEF KindsAre
      <4> QED BY <4>1, <4>2, <4>3, <4>4, <4>5 DEF KindsAre
    <3> QED BY <1>14, <3>1, <3>2, WaitsBecome
  <2>2. CASE t \notin Members(taken)
    <3>1. \A q \in Program : /\ t \in Members(wakeupList'[q]) <=> t \in Members(wakeupList[q])
                             /\ Waking(q, t)' <=> Waking(q, t)
      BY <1>4, <1>7, <1>8, <1>11, <2>2
    <3>2. \A k \in Kind, x \in Waker : WaitsOn(t, k, x)' <=> WaitsOn(t, k, x)
      BY <1>17, <3>1, SameWaits DEF StWakeupThreads
    <3>3. Blocking(t)' <=> Blocking(t)
      BY <1>7, <1>12
    <3>4. \A x \in Thread : Closing(Owner[t], x)' <=> Closing(Owner[t], x)
      BY <1>7, <1>12, TcbAssumption
    <3>5. \A s \in Sem : WaitsOn(t, "sem", s) /\ Blocking(t)' => semMutex'[s] = Owner[t]
      BY <1>15, <3>3 DEF WaitsRight, StWakeupThreads
    <3>6. state' = state BY DEF StWakeupThreads
    <3> QED BY <1>15, <3>2, <3>3, <3>4, <3>5, <3>6, WaitsKept DEF Parked
  <2> QED BY <2>1, <2>2
<1>19. ThreadsWait' BY <1>18 DEF ThreadsWait
<1>20. QueuesDistinct' /\ JoinedAreOwn'
  <2>1. \A q : ThreadsOf(q)' = ThreadsOf(q) BY DEF ThreadsOf
  <2> QED BY <1>4, <1>8, <2>1
          DEF StWakeupThreads, WakerInv, WakerPart, OwnThreads, QueuesDistinct, JoinedAreOwn
<1>21. OwnThreadsOf(p)'
  <2>1. ThreadsOf(p)' = ThreadsOf(p) BY DEF ThreadsOf
  <2>2. Members(taken) \subseteq ThreadsOf(p) /\ Members(Left(list)) \subseteq ThreadsOf(p)
    BY <1>4, <1>13
  <2> QED BY <1>0, <1>2, <1>8, <1>10, <2>1, <2>2 DEF OwnThreadsOf, StWakeupThreads, listVars
<1>22. CallsKnownOf(p)'
  <2>1. ASSUME NEW c \in Calls(p)' PROVE LegalCall(c)'
    <3>1. state'[c.tcb] = "BLOCKED" BY <1>4, <1>10, <1>16 DEF StWakeupThreads
    <3> QED BY <1>10, <3>1 DEF LegalCall, LegalMove
  <2>2. ExecIsFreed(p)' BY <1>10 DEF ExecIsFreed
  <2>3. CloseWakes(p)' BY <1>10, <1>12 DEF CloseWakes
  <2>4. CallsDiffer(todo[p])' /\ CallsEnd(todo[p])'
    BY <1>6, <1>7 DEF CallsDiffer, CallsEnd
  <2> QED BY <2>1, <2>2, <2>3, <2>4 DEF CallsKnownOf
<1>23. ClientKnownOf(p)'
  <2>1. \A c \in Calls(p)' : c.wake BY <1>10
  <2>2. Calls(p) = {} BY <1>0, <1>1, CallFacts
  <2>3. cur' = cur /\ owes' = owes /\ exec' = exec /\ state' = state /\ mainLoaded' = mainLoaded
    BY DEF StWakeupThreads, listVars
  <2> QED BY <1>0, <1>1, <1>2, <2>1, <2>2, <2>3 DEF ClientKnownOf, Serving, ThreadsOf
<1>24. ASSUME NEW q \in Program \ {p}
       PROVE  /\ UNCHANGED <<todo[q], pc[q], arg[q], cur[q], owes[q]>>
              /\ Members(wakeupList'[q]) \subseteq ThreadsOf(q)
              /\ \A u \in ThreadsOf(q) : joined'[u] = joined[u]
  BY <1>2, <1>7, <1>8 DEF WakerInv, WakerPart, OwnThreads, OwnThreadsOf, StWakeupThreads
<1> QED BY <1>7, <1>19, <1>20, <1>21, <1>22, <1>23, <1>24, CalmStep DEF StWakeupThreads

-----------------------------------------------------------------------------
(* The executing thread blocks. *)

LEMMA BlockCalls ==
    ASSUME WakerInv, NEW p \in Program, todo[p] = <<>>, pc[p] \notin {"create", "log"},
           UNCHANGED <<state, listVars, wakeupList>>, pc'[p] \notin {"join", "joinmiss"},
           NEW e, e = exec[p], e # None,
           todo' = [todo EXCEPT ![p] = <<Move(e, "BLOCKED")>>]
    PROVE  /\ e \in ThreadsOf(p) /\ e \in Thread /\ Owner[e] = p /\ state[e] = "EXEC"
           /\ KindsAre(e, "none", None)
           /\ OwnThreadsOf(p)' /\ CallsKnownOf(p)'
           /\ Blocking(e)' /\ \A t \in Thread \ {e} : Blocking(t)' <=> Blocking(t)
           /\ \A t \in Thread : Owner[t] = p => ~Blocking(t)
           /\ \A q \in Program, t \in Thread : /\ Waking(q, t)' <=> Waking(q, t)
                                               /\ Closing(q, t)' <=> Closing(q, t)
           /\ \A q \in Program \ {p} : todo'[q] = todo[q]
           /\ listMutex # p
<1>0. TypeOK /\ OwnThreadsOf(p)
  BY DEF WakerInv, WakerPart, OwnThreads, CreationInv, SlotInv, TypeInv
<1>1. e \in Thread /\ Owner[e] = p /\ state[e] = "EXEC" /\ e \in ThreadsOf(p)
  BY ExecExecutes DEF ThreadsOf
<1>2. KindsAre(e, "none", None)
  BY <1>1, ExecWaitsForNothing
<1> PICK calls : calls = <<Move(e, "BLOCKED")>> OBVIOUS
<1>3. DOMAIN calls = 1 .. 1 /\ Len(calls) = 1 /\ calls[1] = Move(e, "BLOCKED")
  OBVIOUS
<1>4. /\ Move(e, "BLOCKED").tcb = e /\ Move(e, "BLOCKED").to = "BLOCKED"
      /\ Move(e, "BLOCKED").wake = FALSE
  BY DEF Move
<1>5. Members(calls) = {Move(e, "BLOCKED")} /\ CallsDiffer(calls) /\ CallsEnd(calls)
  BY <1>3, <1>4 DEF Members, CallsDiffer, CallsEnd
<1>6. todo' = [todo EXCEPT ![p] = calls] OBVIOUS
<1>7. /\ \A t \in Thread : Owner[t] # p => Blocking(t)' <=> Blocking(t)
      /\ \A t \in Thread : Owner[t] = p => ~Blocking(t)
      /\ \A t \in Thread : ~Closing(p, t) /\ ~Waking(p, t)
      /\ \A q \in Program \ {p}, t \in Thread :
            /\ Waking(q, t)' <=> Waking(q, t)
            /\ Closing(q, t)' <=> Closing(q, t)
      /\ Calls(p)' = Members(calls) /\ todo'[p] = calls
      /\ \A q \in Program \ {p} : todo'[q] = todo[q]
      /\ listMutex # p
  BY <1>6, CallsByOwner
<1>8. Calls(p)' = {Move(e, "BLOCKED")} BY <1>5, <1>7
<1>9. \A c \in Calls(p)' : c.tcb = e /\ c.to = "BLOCKED" /\ c.wake = FALSE
  BY <1>4, <1>8
<1>10. \A t \in Thread : ~Closing(p, t)' /\ ~Waking(p, t)'
  BY <1>9 DEF Closing, Waking
<1>11. \A t \in Thread : Owner[t] = p => (Blocking(t)' <=> t = e)
  BY <1>4, <1>8, <1>9 DEF Blocking
<1>12. OwnThreadsOf(p)'
  <2>1. ThreadsOf(p)' = ThreadsOf(p) BY DEF ThreadsOf
  <2> QED BY <1>0, <1>1, <1>9, <2>1 DEF OwnThreadsOf, listVars
<1>13. CallsKnownOf(p)'
  <2>1. \A c \in Calls(p)' : LegalCall(c)' BY <1>1, <1>9 DEF LegalCall, LegalMove
  <2>2. ExecIsFreed(p)' BY <1>9 DEF ExecIsFreed
  <2>3. CloseWakes(p)' BY <1>9, <1>10 DEF CloseWakes
  <2>4. CallsDiffer(todo[p])' /\ CallsEnd(todo[p])'
    BY <1>5, <1>7 DEF CallsDiffer, CallsEnd
  <2> QED BY <2>1, <2>2, <2>3, <2>4 DEF CallsKnownOf
<1>14. \A q \in Program, t \in Thread : /\ Waking(q, t)' <=> Waking(q, t)
                                        /\ Closing(q, t)' <=> Closing(q, t)
  BY <1>7, <1>10
<1>15. Blocking(e)' /\ \A t \in Thread \ {e} : Blocking(t)' <=> Blocking(t)
  BY <1>1, <1>7, <1>11
<1> QED BY <1>1, <1>2, <1>7, <1>12, <1>13, <1>14, <1>15

LEMMA WakerWait ==
    ASSUME WakerInv, NEW p \in Program, StWait(p)
    PROVE  WakerPart'
<1> USE DEF tcbVars, ltsVars, semVars, clientVars, consoleVars
<1>0. ClientKnownOf(p) /\ TypeOK
  BY DEF WakerInv, WakerPart, ClientKnown, CreationInv, SlotInv, TypeInv
<1>1. /\ pc[p] = "recv" /\ cur[p] # None /\ exec[p] # None
      /\ todo[p] = <<>> /\ listMutex # p
  BY IdleFacts DEF StWait, Running, IdlePlace
<1>2. pc'[p] = "served" /\ owes'[p] /\ \A q \in Program \ {p} : pc'[q] = pc[q] /\ owes'[q] = owes[q]
  BY <1>0 DEF StWait, Goto, TypeOK
<1>3. ClientKnownOf(p)'
  BY <1>0, <1>1, <1>2 DEF StWait, ClientKnownOf, Serving, ThreadsOf
<1> PICK s \in Sem :
        /\ semMutex[s] = None
        /\ IF must_block(valor'[s])
           THEN /\ semBlocked' = [semBlocked EXCEPT ![s] = Append(@, exec[p])]
                /\ semMutex' = [semMutex EXCEPT ![s] = p]
                /\ todo' = [todo EXCEPT ![p] = <<Move(exec[p], "BLOCKED")>>]
           ELSE UNCHANGED <<semBlocked, semMutex, todo>>
  BY DEF StWait
<1>4. CASE ~must_block(valor'[s])
  BY <1>1, <1>2, <1>3, <1>4, PlainStep DEF StWait
<1>5. CASE must_block(valor'[s])
  <2> PICK e : e = exec[p] OBVIOUS
  <2> PICK queue : queue = semBlocked[s] OBVIOUS
  <2>1. /\ semBlocked' = [semBlocked EXCEPT ![s] = Append(queue, e)]
        /\ semMutex' = [semMutex EXCEPT ![s] = p]
        /\ todo' = [todo EXCEPT ![p] = <<Move(e, "BLOCKED")>>]
    BY <1>5
  <2>2. /\ e \in ThreadsOf(p) /\ e \in Thread /\ Owner[e] = p /\ state[e] = "EXEC"
        /\ KindsAre(e, "none", None)
        /\ OwnThreadsOf(p)' /\ CallsKnownOf(p)'
        /\ Blocking(e)' /\ \A t \in Thread \ {e} : Blocking(t)' <=> Blocking(t)
        /\ \A t \in Thread : Owner[t] = p => ~Blocking(t)
        /\ \A q \in Program, t \in Thread : /\ Waking(q, t)' <=> Waking(q, t)
                                            /\ Closing(q, t)' <=> Closing(q, t)
        /\ \A q \in Program \ {p} : todo'[q] = todo[q]
    BY <1>1, <1>2, <2>1, BlockCalls, ZenonT(60) DEF StWait
  <2>3. queue \in Seq(Thread) /\ Distinct(queue) /\ e \notin Members(queue)
    BY <1>0, <2>2 DEF TypeOK, WakerInv, WakerPart, QueuesDistinct, KindsAre
  <2>4. Members(Append(queue, e)) = Members(queue) \cup {e} /\ Distinct(Append(queue, e))
    BY <2>2, <2>3, MembersAppend
  <2>5. /\ semBlocked'[s] = Append(queue, e) /\ semMutex'[s] = p
        /\ \A r \in Sem \ {s} : semBlocked'[r] = semBlocked[r] /\ semMutex'[r] = semMutex[r]
    BY <1>0, <2>1 DEF TypeOK
  <2>6. \A q \in Program, t \in Thread : Notifying(q, t)' <=> Notifying(q, t)
    BY <1>1, <1>2 DEF Notifying, StWait
  <2>7. ASSUME NEW t \in Thread PROVE WaitsRight(t)'
    <3>0. WaitsRight(t) BY DEF WakerInv, WakerPart, ThreadsWait
    <3>1. CASE t = e
      <4>1. \A r \in Sem : t \in Members(semBlocked'[r]) <=> r = s
        BY <2>2, <2>4, <2>5, <3>1 DEF KindsAre
      <4>2. KindsAre(t, "sem", s)'
        BY <2>2, <2>6, <3>1, <4>1 DEF KindsAre, StWait
      <4>3. "sem" \in Kind /\ s \in Waker BY DEF Kind, Waker
      <4> QED BY <2>2, <2>5, <3>1, <4>2, <4>3, WaitsBecome
    <3>2. CASE t # e
      <4>1. \A r \in Sem : t \in Members(semBlocked'[r]) <=> t \in Members(semBlocked[r])
        BY <2>4, <2>5, <3>2, ZenonT(60)
      <4>2. \A k \in Kind, x \in Waker : WaitsOn(t, k, x)' <=> WaitsOn(t, k, x)
        BY <2>2, <2>6, <4>1, SameWaits DEF StWait
      <4>3. \A r \in Sem : WaitsOn(t, "sem", r) /\ Blocking(t)' => semMutex'[r] = Owner[t]
        <5>1. \A r \in Sem : WaitsOn(t, "sem", r) /\ Blocking(t)' => semMutex[r] = Owner[t]
          BY <2>2, <3>0, <3>2 DEF WaitsRight
        <5>2. Owner[t] # None BY TcbAssumption
        <5> QED BY <2>5, <5>1, <5>2
      <4>4. Owner[t] \in Program BY TcbAssumption
      <4>5. state' = state BY DEF StWait
      <4> QED BY <2>2, <3>0, <3>2, <4>2, <4>3, <4>4, <4>5, WaitsKept DEF Parked
    <3> QED BY <3>1, <3>2
  <2>8. ThreadsWait' BY <2>7 DEF ThreadsWait
  <2>9. QueuesDistinct' /\ JoinedAreOwn'
    <3>1. \A q : ThreadsOf(q)' = ThreadsOf(q) BY DEF ThreadsOf
    <3> QED BY <2>4, <2>5, <3>1
            DEF StWait, WakerInv, WakerPart, OwnThreads, QueuesDistinct, JoinedAreOwn
  <2>10. ASSUME NEW q \in Program \ {p}
         PROVE  /\ UNCHANGED <<todo[q], pc[q], arg[q], cur[q], owes[q]>>
                /\ Members(wakeupList'[q]) \subseteq ThreadsOf(q)
                /\ \A u \in ThreadsOf(q) : joined'[u] = joined[u]
    BY <1>2, <2>2 DEF WakerInv, WakerPart, OwnThreads, OwnThreadsOf, StWait
  <2> QED BY <1>1, <1>3, <2>2, <2>8, <2>9, <2>10, CalmStep DEF StWait
<1> QED BY <1>4, <1>5

LEMMA WakerJoin ==
    ASSUME WakerInv, NEW p \in Program, StJoin(p)
    PROVE  WakerPart'
<1> USE DEF tcbVars, ltsVars, semVars, clientVars, consoleVars
<1>0. ClientKnownOf(p) /\ TypeOK /\ OwnThreadsOf(p)
  BY DEF WakerInv, WakerPart, ClientKnown, OwnThreads, CreationInv, SlotInv, TypeInv
<1>1. /\ pc[p] = "join" /\ todo[p] = <<>> /\ listMutex = None
      /\ Calls(p) = {}
  BY <1>0, CallFacts DEF StJoin
<1>o. /\ owes \in [Program -> BOOLEAN]
      /\ exec[p] = None => owes[p]
      /\ pc'[p] = "served" => owes'[p]
      /\ pc'[p] = "crashed" => exec[p] = None /\ owes' = owes
      /\ pc'[p] = "joinmiss" => owes' = owes
  <2>1. exec[p] = None /\ cur[p] # None => owes[p]
    BY <1>0, <1>1 DEF ClientKnownOf, Serving, TypeOK
  <2>2. cur[p] # None BY <1>0, <1>1 DEF ClientKnownOf
  <2> QED BY <1>0, <2>1, <2>2 DEF StJoin, Goto, TypeOK
<1>2. /\ pc'[p] \in {"served", "joinmiss", "crashed"}
      /\ \A q \in Program \ {p} : pc'[q] = pc[q] /\ arg'[q] = arg[q] /\ owes'[q] = owes[q]
  BY <1>0 DEF StJoin, Goto, TypeOK
<1>3. ASSUME UNCHANGED <<joined, todo>>, pc'[p] = "joinmiss" => arg' = arg
      PROVE  WakerPart'
  <2>1. Calls(p)' = {} /\ Calls(p) = {} /\ todo'[p] = <<>>
    BY <1>0, <1>1, <1>3, CallsStay, CallFacts
  <2>2. ClientKnownOf(p)'
    BY <1>0, <1>1, <1>2, <1>3, <1>o, <2>1 DEF StJoin, ClientKnownOf, Serving, listVars, ThreadsOf
  <2>3. pc'[p] \in {"join", "joinmiss"} => arg'[p] \in ThreadsOf(p)
    BY <1>0, <1>1, <1>2, <1>3 DEF OwnThreadsOf
  <2> QED BY <1>1, <1>2, <1>3, <2>2, <2>3, PlainStep DEF StJoin
<1>4. CASE \E t \in {arg[p]} :
              /\ joinable(p, t) /\ exec[p] # None
              /\ joined' = [joined EXCEPT ![t] = Append(@, exec[p])]
              /\ todo' = [todo EXCEPT ![p] = <<Move(exec[p], "BLOCKED")>>]
              /\ Goto(p, "served")
  <2> PICK u : u = arg[p] OBVIOUS
  <2> PICK e : e = exec[p] OBVIOUS
  <2> PICK queue : queue = joined[u] OBVIOUS
  <2>0. /\ joinable(p, u) /\ e # None /\ pc'[p] = "served"
        /\ joined' = [joined EXCEPT ![u] = Append(queue, e)]
        /\ todo' = [todo EXCEPT ![p] = <<Move(e, "BLOCKED")>>]
    BY <1>0, <1>4 DEF Goto, TypeOK
  <2>1. u \in ThreadsOf(p) /\ u \in Thread /\ Owner[u] = p
    BY <1>0, <1>1 DEF OwnThreadsOf, ThreadsOf
  <2>u. state[u] # "EXIT"
    BY <1>1, <2>0, <2>1, ListsAreStates DEF joinable
  <2>2. /\ e \in ThreadsOf(p) /\ e \in Thread /\ Owner[e] = p /\ state[e] = "EXEC"
        /\ KindsAre(e, "none", None)
        /\ OwnThreadsOf(p)' /\ CallsKnownOf(p)'
        /\ Blocking(e)' /\ \A t \in Thread \ {e} : Blocking(t)' <=> Blocking(t)
        /\ \A q \in Program, t \in Thread : /\ Waking(q, t)' <=> Waking(q, t)
                                            /\ Closing(q, t)' <=> Closing(q, t)
        /\ \A q \in Program \ {p} : todo'[q] = todo[q]
        /\ listMutex # p
    BY <1>1, <1>2, <2>0, BlockCalls, ZenonT(60) DEF StJoin
  <2>3. queue \in Seq(Thread) /\ Distinct(queue) /\ e \notin Members(queue)
    BY <1>0, <2>1, <2>2, <2>u DEF TypeOK, WakerInv, WakerPart, QueuesDistinct, KindsAre
  <2>4. Members(Append(queue, e)) = Members(queue) \cup {e} /\ Distinct(Append(queue, e))
    BY <2>2, <2>3, MembersAppend
  <2>5. /\ joined'[u] = Append(queue, e)
        /\ \A v \in Thread \ {u} : joined'[v] = joined[v]
    BY <1>0, <2>0, <2>1 DEF TypeOK
  <2>6. \A q \in Program, t \in Thread : Notifying(q, t)' <=> Notifying(q, t)
    BY <1>1, <1>2 DEF Notifying
  <2>7. ASSUME NEW t \in Thread PROVE WaitsRight(t)'
    <3>0. WaitsRight(t) /\ state' = state BY DEF WakerInv, WakerPart, ThreadsWait, StJoin
    <3>1. CASE t = e
      <4>1. \A v \in Thread : state'[v] # "EXIT" /\ t \in Members(joined'[v]) <=> v = u
        BY <2>1, <2>2, <2>4, <2>5, <2>u, <3>0, <3>1 DEF KindsAre
      <4>2. KindsAre(t, "join", u)'
        BY <2>2, <2>6, <3>1, <4>1 DEF KindsAre, StJoin
      <4>3. "join" \in Kind /\ u \in Waker BY <2>1 DEF Kind, Waker
      <4> QED BY <2>1, <2>2, <3>1, <4>2, <4>3, WaitsBecome
    <3>2. CASE t # e
      <4>1. \A v \in Thread : t \in Members(joined'[v]) <=> t \in Members(joined[v])
        BY <2>4, <2>5, <3>2
      <4>2. \A k \in Kind, x \in Waker : WaitsOn(t, k, x)' <=> WaitsOn(t, k, x)
        BY <2>2, <2>6, <3>0, <4>1, SameWaits DEF StJoin
      <4>3. \A r \in Sem : WaitsOn(t, "sem", r) /\ Blocking(t)' => semMutex'[r] = Owner[t]
        BY <2>2, <3>0, <3>2 DEF WaitsRight, StJoin
      <4>4. Owner[t] \in Program BY TcbAssumption
      <4> QED BY <2>2, <3>0, <3>2, <4>2, <4>3, <4>4, WaitsKept DEF Parked
    <3> QED BY <3>1, <3>2
  <2>8. ThreadsWait' BY <2>7 DEF ThreadsWait
  <2>9. QueuesDistinct' /\ JoinedAreOwn'
    <3>1. \A q : ThreadsOf(q)' = ThreadsOf(q) BY DEF ThreadsOf
    <3>2. QueuesDistinct'
      BY <2>4, <2>5 DEF StJoin, WakerInv, WakerPart, QueuesDistinct
    <3>3. ASSUME NEW v \in Thread PROVE Members(joined'[v]) \subseteq ThreadsOf(Owner[v])
      <4>1. Members(joined[v]) \subseteq ThreadsOf(Owner[v])
        BY DEF WakerInv, WakerPart, OwnThreads, JoinedAreOwn
      <4>2. CASE v = u
        <5>1. Members(joined'[v]) = Members(queue) \cup {e} BY <2>4, <2>5, <4>2
        <5> QED BY <2>1, <2>2, <4>1, <4>2, <5>1
      <4>3. CASE v # u BY <2>5, <4>1, <4>3
      <4> QED BY <4>2, <4>3
    <3> QED BY <3>1, <3>2, <3>3 DEF JoinedAreOwn
  <2>10. ASSUME NEW q \in Program \ {p}
         PROVE  /\ UNCHANGED <<todo[q], pc[q], arg[q], cur[q], owes[q]>>
                /\ Members(wakeupList'[q]) \subseteq ThreadsOf(q)
                /\ \A v \in ThreadsOf(q) : joined'[v] = joined[v]
    <3>1. \A v \in ThreadsOf(q) : v \in Thread \ {u} BY <2>1 DEF ThreadsOf
    <3> QED BY <1>2, <2>2, <2>5, <3>1 DEF WakerInv, WakerPart, OwnThreads, OwnThreadsOf, StJoin
  <2>11. ClientKnownOf(p)'
    BY <1>0, <1>1, <1>o, <2>0 DEF StJoin, ClientKnownOf, Serving, ThreadsOf
  <2> QED BY <2>2, <2>8, <2>9, <2>10, <2>11, CalmStep DEF StJoin
<1> QED BY <1>0, <1>3, <1>4 DEF StJoin, Goto, TypeOK

-----------------------------------------------------------------------------
(* The steps that pass a wake-up on, and the end of a thread. *)

LEMMA WakerSignal ==
    ASSUME WakerInv, NEW p \in Program, StSignal(p)
    PROVE  WakerPart'
<1> USE DEF tcbVars, ltsVars, semVars, clientVars, consoleVars
<1>0. ClientKnownOf(p) /\ TypeOK /\ SemQueueMatches
  BY DEF WakerInv, WakerPart, ClientKnown, CreationInv, SlotInv, TypeInv
<1>1. /\ pc[p] = "recv" /\ cur[p] # None
      /\ todo[p] = <<>> /\ Calls(p) = {} /\ listMutex # p
  BY IdleFacts DEF StSignal, Running, IdlePlace
<1>2. pc'[p] \in {"served", "notify"} /\ \A q \in Program \ {p} : pc'[q] = pc[q] /\ arg'[q] = arg[q]
  BY <1>0 DEF StSignal, Goto, TypeOK
<1>c. Calls(p)' = {} /\ todo'[p] = <<>>
  BY <1>1, CallsStay DEF StSignal
<1>3. ClientKnownOf(p)'
  BY <1>0, <1>1, <1>2, <1>c DEF StSignal, ClientKnownOf, Serving, ThreadsOf, listVars
<1> PICK s \in Sem :
        /\ semMutex[s] = None
        /\ valor' = [valor EXCEPT ![s] = @ + One(@ < SemMax[s])]
        /\ IF must_wake(valor'[s])
           THEN /\ arg' = [arg EXCEPT ![p] = Head(semBlocked[s])]
                /\ semBlocked' = [semBlocked EXCEPT ![s] = Tail(@)]
                /\ semMutex' = [semMutex EXCEPT ![s] = p]
                /\ Goto(p, "notify")
           ELSE /\ Goto(p, "served")
                /\ UNCHANGED <<arg, semBlocked, semMutex>>
  BY DEF StSignal
<1>4. CASE ~must_wake(valor'[s])
  <2>1. pc'[p] = "served" /\ UNCHANGED <<arg, semBlocked, semMutex>>
    BY <1>0, <1>4 DEF Goto, TypeOK
  <2> QED BY <1>1, <1>2, <1>3, <2>1, PlainStep DEF StSignal
<1>5. CASE must_wake(valor'[s])
  <2> PICK queue : queue = semBlocked[s] OBVIOUS
  <2>1. queue \in Seq(Thread) /\ queue # <<>>
    <3>1. valor[s] \in Int /\ SemMax[s] \in Nat \ {0}
      BY <1>0, SchedulerAssumption DEF TypeOK
    <3>2. valor'[s] = valor[s] + One(valor[s] < SemMax[s])
      BY <1>0 DEF TypeOK
    <3>3. valor[s] < 0
      BY <1>5, <3>1, <3>2 DEF must_wake, One
    <3>4. Len(queue) = -valor[s]
      BY <1>0, <3>3 DEF SemQueueMatches
    <3>5. queue \in Seq(Thread) BY <1>0 DEF TypeOK
    <3> QED BY <3>1, <3>3, <3>4, <3>5
  <2> PICK h : h = queue[1] OBVIOUS
  <2>2. /\ Head(queue) = h /\ Members(queue) = {h} \cup Members(Tail(queue))
        /\ Distinct(queue) => Distinct(Tail(queue)) /\ h \notin Members(Tail(queue))
    BY <2>1, MembersTail
  <2>3. Distinct(queue) BY DEF WakerInv, WakerPart, QueuesDistinct
  <2>4. h \in Thread /\ h \in Members(semBlocked[s])
    BY <2>1, <2>2, MembersType
  <2>5. /\ semBlocked'[s] = Tail(queue) /\ semMutex'[s] = p
        /\ \A r \in Sem \ {s} : semBlocked'[r] = semBlocked[r] /\ semMutex'[r] = semMutex[r]
        /\ arg'[p] = h /\ pc'[p] = "notify"
    BY <1>0, <1>5, <2>2 DEF TypeOK, Goto
  <2>6. WaitsOn(h, "sem", s) /\ "sem" \in Kind /\ s \in Waker /\ WaitsRight(h)
    BY <2>4 DEF WaitsOn, Kind, Waker, WakerInv, WakerPart, ThreadsWait
  <2>7. state[h] = "BLOCKED" /\ KindsAre(h, "sem", s)
    <3>1. ~Blocking(h)
      BY <2>4, <2>6, TcbAssumption DEF WaitsRight
    <3> QED BY <2>4, <2>6, <3>1, OneWaitKinds DEF WaitsRight
  <2>8. /\ \A q \in Program, t \in Thread : /\ Waking(q, t)' <=> Waking(q, t)
                                            /\ Closing(q, t)' <=> Closing(q, t)
        /\ \A t \in Thread : Blocking(t)' <=> Blocking(t)
    BY CallsStay DEF StSignal
  <2>9. \A q \in Program, t \in Thread :
            Notifying(q, t)' <=> (Notifying(q, t) \/ (q = p /\ t = h))
    BY <1>1, <1>2, <2>5 DEF Notifying
  <2>10. ASSUME NEW t \in Thread PROVE WaitsRight(t)'
    <3>0. WaitsRight(t) /\ state' = state BY DEF WakerInv, WakerPart, ThreadsWait, StSignal
    <3>1. CASE t = h
      <4>1. \A r \in Sem : t \notin Members(semBlocked'[r])
        BY <2>2, <2>3, <2>5, <2>7, <3>1 DEF KindsAre
      <4>2. \A q \in Program : Notifying(q, t)' <=> q = p
        BY <2>7, <2>9, <3>1 DEF KindsAre
      <4>3. KindsAre(t, "notify", p)'
        BY <2>7, <2>8, <3>1, <4>1, <4>2 DEF KindsAre, StSignal
      <4>4. "notify" \in Kind /\ p \in Waker BY DEF Kind, Waker
      <4> QED BY <2>7, <3>0, <3>1, <4>3, <4>4, WaitsBecome
    <3>2. CASE t # h
      <4>1. \A r \in Sem : t \in Members(semBlocked'[r]) <=> t \in Members(semBlocked[r])
        BY <2>2, <2>5, <3>2
      <4>2. \A k \in Kind, x \in Waker : WaitsOn(t, k, x)' <=> WaitsOn(t, k, x)
        BY <2>8, <2>9, <3>2, <4>1, SameWaits DEF StSignal
      <4>3. \A r \in Sem : WaitsOn(t, "sem", r) /\ Blocking(t)' => semMutex'[r] = Owner[t]
        <5>1. \A r \in Sem : WaitsOn(t, "sem", r) /\ Blocking(t)' => semMutex[r] = Owner[t]
          BY <2>8, <3>0 DEF WaitsRight
        <5>2. Owner[t] # None BY TcbAssumption
        <5> QED BY <2>5, <5>1, <5>2
      <4>4. Owner[t] \in Program BY TcbAssumption
      <4> QED BY <2>8, <3>0, <4>2, <4>3, <4>4, WaitsKept DEF Parked
    <3> QED BY <3>1, <3>2
  <2>11. ThreadsWait' BY <2>10 DEF ThreadsWait
  <2>12. QueuesDistinct' /\ JoinedAreOwn'
    <3>1. \A q : ThreadsOf(q)' = ThreadsOf(q) BY DEF ThreadsOf
    <3> QED BY <2>2, <2>5, <3>1
            DEF StSignal, WakerInv, WakerPart, OwnThreads, QueuesDistinct, JoinedAreOwn
  <2>13. OwnThreadsOf(p)'
    <3>1. ThreadsOf(p)' = ThreadsOf(p) BY DEF ThreadsOf
    <3> QED BY <1>c, <2>5, <3>1
            DEF WakerInv, WakerPart, OwnThreads, OwnThreadsOf, StSignal, listVars
  <2>14. CallsKnownOf(p)'
    <3>1. (CallsDiffer(todo[p]) /\ CallsEnd(todo[p]))' BY <1>c, MembersOfFew
    <3> QED BY <1>c, <3>1 DEF CallsKnownOf, ExecIsFreed, CloseWakes, Closing
  <2>15. ASSUME NEW q \in Program \ {p}
         PROVE  /\ UNCHANGED <<todo[q], pc[q], arg[q], cur[q], owes[q]>>
                /\ Members(wakeupList'[q]) \subseteq ThreadsOf(q)
                /\ \A u \in ThreadsOf(q) : joined'[u] = joined[u]
    BY <1>2 DEF WakerInv, WakerPart, OwnThreads, OwnThreadsOf, StSignal
  <2> QED BY <1>1, <1>3, <2>11, <2>12, <2>13, <2>14, <2>15, CalmStep DEF StSignal
<1> QED BY <1>4, <1>5

LEMMA WakerNotify ==
    ASSUME WakerInv, NEW p \in Program, StNotifyWakeup(p)
    PROVE  WakerPart'
<1> USE DEF tcbVars, ltsVars, semVars, clientVars, consoleVars
<1>0. ClientKnownOf(p) /\ TypeOK /\ ArgIsKept
  BY DEF WakerInv, WakerPart, ClientKnown, CreationInv, SlotInv, TypeInv
<1>1. pc[p] = "notify" /\ todo[p] = <<>> /\ Calls(p) = {} /\ listMutex # p
  BY IdleFacts DEF StNotifyWakeup, IdlePlace
<1> PICK h \in Thread : h = arg[p]
  BY <1>0, <1>1 DEF ArgIsKept, TypeOK
<1> PICK target \in Program : target = Owner[h]
  BY TcbAssumption
<1> PICK list : list = wakeupList[target] OBVIOUS
<1>2. /\ pc'[p] = "served" /\ \A q \in Program \ {p} : pc'[q] = pc[q] /\ arg'[q] = arg[q]
      /\ wakeupList'[target] = Append(list, h)
      /\ \A q \in Program \ {target} : wakeupList'[q] = wakeupList[q]
      /\ semMutex' = [r \in Sem |-> IF semMutex[r] = p THEN None ELSE semMutex[r]]
  BY <1>0 DEF StNotifyWakeup, Goto, TypeOK
<1>c. Calls(p)' = {} /\ todo'[p] = <<>>
  BY <1>1, CallsStay DEF StNotifyWakeup
<1>3. ClientKnownOf(p)'
  BY <1>0, <1>1, <1>2, <1>c DEF StNotifyWakeup, ClientKnownOf, Serving, ThreadsOf, listVars
<1>4. WaitsOn(h, "notify", p) /\ "notify" \in Kind /\ p \in Waker /\ WaitsRight(h)
  BY <1>1 DEF WaitsOn, Kind, Waker, WakerInv, WakerPart, ThreadsWait
<1>5. state[h] = "BLOCKED" /\ KindsAre(h, "notify", p)
  BY <1>4, OneWaitKinds DEF WaitsRight
<1>6. list \in Seq(Thread) /\ Distinct(list) /\ h \notin Members(list)
  BY <1>0, <1>5 DEF TypeOK, WakerInv, WakerPart, QueuesDistinct, KindsAre
<1>7. Members(Append(list, h)) = Members(list) \cup {h} /\ Distinct(Append(list, h))
  BY <1>6, MembersAppend
<1>8. /\ \A q \in Program, t \in Thread : /\ Waking(q, t)' <=> Waking(q, t)
                                          /\ Closing(q, t)' <=> Closing(q, t)
      /\ \A t \in Thread : Blocking(t)' <=> Blocking(t)
  BY CallsStay DEF StNotifyWakeup
<1>9. \A q \in Program, t \in Thread :
          Notifying(q, t)' <=> (Notifying(q, t) /\ ~(q = p /\ t = h))
  BY <1>1, <1>2 DEF Notifying
<1>10. ASSUME NEW t \in Thread PROVE WaitsRight(t)'
  <2>0. WaitsRight(t) /\ state' = state
    BY DEF WakerInv, WakerPart, ThreadsWait, StNotifyWakeup, listVars
  <2>1. CASE t = h
    <3>1. \A q \in Program : t \in Members(wakeupList'[q]) <=> q = target
      BY <1>2, <1>5, <1>7, <2>1, ZenonT(60) DEF KindsAre
    <3>2. \A q \in Program : ~Notifying(q, t)'
      BY <1>5, <1>9, <2>1 DEF KindsAre
    <3>3. KindsAre(t, "wakeup", target)'
      BY <1>5, <1>8, <2>0, <2>1, <3>1, <3>2 DEF KindsAre, StNotifyWakeup
    <3>4. "wakeup" \in Kind /\ target \in Waker BY DEF Kind, Waker
    <3> QED BY <1>5, <2>0, <2>1, <3>3, <3>4, WaitsBecome
  <2>2. CASE t # h
    <3>1. \A q \in Program : t \in Members(wakeupList'[q]) <=> t \in Members(wakeupList[q])
      BY <1>2, <1>7, <2>2, ZenonT(60)
    <3>2. \A k \in Kind, x \in Waker : WaitsOn(t, k, x)' <=> WaitsOn(t, k, x)
      BY <1>8, <1>9, <2>0, <2>2, <3>1, SameWaits DEF StNotifyWakeup
    <3>3. \A r \in Sem : WaitsOn(t, "sem", r) /\ Blocking(t)' => semMutex'[r] = Owner[t]
      <4>1. Owner[t] = p => ~Blocking(t)
        BY <1>1 DEF Blocking
      <4> QED BY <1>2, <1>8, <2>0, <4>1 DEF WaitsRight
    <3>4. Owner[t] \in Program BY TcbAssumption
    <3> QED BY <1>8, <2>0, <3>2, <3>3, <3>4, WaitsKept DEF Parked
  <2> QED BY <2>1, <2>2
<1>11. ThreadsWait' BY <1>10 DEF ThreadsWait
<1>12. QueuesDistinct' /\ JoinedAreOwn'
  <2>1. \A q : ThreadsOf(q)' = ThreadsOf(q) BY DEF ThreadsOf
  <2> QED BY <1>2, <1>7, <2>1
          DEF StNotifyWakeup, WakerInv, WakerPart, OwnThreads, QueuesDistinct, JoinedAreOwn
<1>13. ASSUME NEW q \in Program PROVE Members(wakeupList'[q]) \subseteq ThreadsOf(q)
  <2>1. Members(wakeupList[q]) \subseteq ThreadsOf(q)
    BY DEF WakerInv, WakerPart, OwnThreads, OwnThreadsOf
  <2>2. CASE q = target
    <3>1. Members(wakeupList'[q]) = Members(list) \cup {h} BY <1>2, <1>7, <2>2
    <3>2. h \in ThreadsOf(q) BY <2>2 DEF ThreadsOf
    <3> QED BY <2>1, <2>2, <3>1, <3>2
  <2>3. CASE q # target BY <1>2, <2>1, <2>3
  <2> QED BY <2>2, <2>3
<1>14. OwnThreadsOf(p)'
  <2>1. ThreadsOf(p)' = ThreadsOf(p) BY DEF ThreadsOf
  <2> QED BY <1>2, <1>c, <1>13, <2>1
          DEF WakerInv, WakerPart, OwnThreads, OwnThreadsOf, StNotifyWakeup, listVars
<1>15. CallsKnownOf(p)'
  <2>1. (CallsDiffer(todo[p]) /\ CallsEnd(todo[p]))' BY <1>c, MembersOfFew
  <2> QED BY <1>c, <2>1 DEF CallsKnownOf, ExecIsFreed, CloseWakes, Closing
<1>16. ASSUME NEW q \in Program \ {p}
       PROVE  /\ UNCHANGED <<todo[q], pc[q], arg[q], cur[q], owes[q]>>
              /\ Members(wakeupList'[q]) \subseteq ThreadsOf(q)
              /\ \A u \in ThreadsOf(q) : joined'[u] = joined[u]
  BY <1>2, <1>13 DEF StNotifyWakeup
<1> QED BY <1>1, <1>3, <1>11, <1>12, <1>14, <1>15, <1>16, CalmStep DEF StNotifyWakeup

LEMMA WakerClose ==
    ASSUME WakerInv, NEW p \in Program, StClose(p)
    PROVE  WakerPart'
<1> USE DEF tcbVars, ltsVars, semVars, clientVars, consoleVars
<1>0. ClientKnownOf(p) /\ TypeOK /\ OwnThreadsOf(p)
  BY DEF WakerInv, WakerPart, ClientKnown, OwnThreads, CreationInv, SlotInv, TypeInv
<1>1. /\ pc[p] = "recv" /\ cur[p] # None /\ exec[p] # None
      /\ todo[p] = <<>> /\ Calls(p) = {}
  BY IdleFacts DEF StClose, Running, IdlePlace
<1>2. pc'[p] = "log" /\ owes'[p] /\ \A q \in Program \ {p} : pc'[q] = pc[q] /\ owes'[q] = owes[q]
  BY <1>0 DEF StClose, Goto, TypeOK
<1>3. ClientKnownOf(p)'
  BY <1>0, <1>1, <1>2 DEF StClose, ClientKnownOf, Serving, ThreadsOf
<1> PICK e : e = exec[p] OBVIOUS
<1>4. e \in Thread /\ Owner[e] = p /\ state[e] = "EXEC" /\ e \in ThreadsOf(p)
  BY <1>1, ExecExecutes DEF ThreadsOf
<1>5. KindsAre(e, "none", None)
  BY <1>1, <1>4, ExecWaitsForNothing
<1>6. joined[e] \in Seq(Thread) /\ Distinct(joined[e]) /\ e \notin Members(joined[e])
  BY <1>0, <1>4, <1>5 DEF TypeOK, WakerInv, WakerPart, QueuesDistinct, KindsAre
<1> PICK calls : calls = close_calls(e) OBVIOUS
<1>7. /\ Members(calls) = {Move(u, "READY") : u \in Members(joined[e])} \cup {Move(e, "EXIT")}
      /\ CallsDiffer(calls) /\ CallsEnd(calls)
  BY <1>4, <1>6, CloseCalls
<1>8. todo' = [todo EXCEPT ![p] = calls]
  BY DEF StClose
<1>9. /\ \A t \in Thread : Owner[t] # p => Blocking(t)' <=> Blocking(t)
      /\ \A t \in Thread : Owner[t] = p => ~Blocking(t)
      /\ \A t \in Thread : ~Closing(p, t) /\ ~Waking(p, t)
      /\ \A q \in Program \ {p}, t \in Thread :
            /\ Waking(q, t)' <=> Waking(q, t)
            /\ Closing(q, t)' <=> Closing(q, t)
      /\ Calls(p)' = Members(calls) /\ todo'[p] = calls
      /\ \A q \in Program \ {p} : todo'[q] = todo[q]
      /\ listMutex # p
  BY <1>1, <1>8, CallsByOwner
<1>10. /\ Move(e, "EXIT").tcb = e /\ Move(e, "EXIT").to = "EXIT" /\ Move(e, "EXIT").wake = FALSE
       /\ \A u : /\ Move(u, "READY").tcb = u /\ Move(u, "READY").to = "READY"
                 /\ Move(u, "READY").wake = FALSE
  BY DEF Move
<1>11. \A c \in Calls(p)' :
           /\ c.wake = FALSE
           /\ \/ c.to = "EXIT" /\ c.tcb = e
              \/ c.to = "READY" /\ c.tcb \in Members(joined[e])
  BY <1>7, <1>9, <1>10
<1>12. \A t \in Thread : /\ ~Waking(p, t)' /\ (Closing(p, t)' => t = e)
                         /\ Owner[t] = p => ~Blocking(t)'
  BY <1>11 DEF Waking, Closing, Blocking
<1>13. \A u \in Members(joined[e]) : u \in ThreadsOf(p) /\ u \in Thread /\ Owner[u] = p
  BY <1>4 DEF WakerInv, WakerPart, OwnThreads, JoinedAreOwn, ThreadsOf
<1>14. ASSUME NEW u \in Members(joined[e]) PROVE state[u] = "BLOCKED"
  <2>1. WaitsOn(u, "join", e) /\ "join" \in Kind /\ e \in Waker
    BY <1>4 DEF WaitsOn, Kind, Waker
  <2>2. ~Blocking(u) /\ ~Closing(Owner[u], e)
    BY <1>4, <1>9, <1>13
  <2> QED BY <1>13, <2>1, <2>2 DEF WakerInv, WakerPart, ThreadsWait, WaitsRight
<1>15. \A q \in Program, t \in Thread : Notifying(q, t)' <=> Notifying(q, t)
  BY <1>1, <1>2 DEF Notifying, StClose
<1>16. ASSUME NEW t \in Thread PROVE WaitsRight(t)'
  <2>0. WaitsRight(t) /\ state' = state BY DEF WakerInv, WakerPart, ThreadsWait, StClose
  <2>1. \A q \in Program : Waking(q, t)' <=> Waking(q, t)
    BY <1>9, <1>12
  <2>2. \A k \in Kind, x \in Waker : WaitsOn(t, k, x)' <=> WaitsOn(t, k, x)
    BY <1>15, <2>1, SameWaits DEF StClose
  <2>3. Blocking(t)' <=> Blocking(t)
    BY <1>9, <1>12
  <2>4. \A x \in Thread : Closing(Owner[t], x) => Closing(Owner[t], x)'
    BY <1>9, TcbAssumption
  <2>5. \A r \in Sem : WaitsOn(t, "sem", r) /\ Blocking(t)' => semMutex'[r] = Owner[t]
    BY <2>0, <2>3 DEF WaitsRight, StClose
  <2> QED BY <2>0, <2>2, <2>3, <2>4, <2>5, WaitsKept DEF Parked
<1>17. ThreadsWait' BY <1>16 DEF ThreadsWait
<1>18. QueuesDistinct' /\ JoinedAreOwn' BY QueuesStay DEF StClose
<1>19. OwnThreadsOf(p)'
  <2>1. ThreadsOf(p)' = ThreadsOf(p) BY DEF ThreadsOf
  <2> QED BY <1>0, <1>2, <1>4, <1>11, <1>13, <2>1 DEF OwnThreadsOf, StClose, listVars
<1>20. CallsKnownOf(p)'
  <2>1. ASSUME NEW c \in Calls(p)' PROVE LegalCall(c)'
    BY <1>4, <1>11, <1>14 DEF LegalCall, LegalMove, StClose
  <2>2. ExecIsFreed(p)' BY <1>11 DEF ExecIsFreed
  <2>3. Closing(p, e)'
    BY <1>7, <1>9, <1>10 DEF Closing
  <2>4. joined' = joined /\ state' = state BY DEF StClose
  <2>5. \A t \in Members(joined[e]) : \E c \in Calls(p)' : c.tcb = t /\ c.to = "READY"
    BY <1>7, <1>9, <1>10
  <2>6. CloseWakes(p)'
    BY <1>4, <1>11, <1>12, <2>3, <2>4, <2>5 DEF CloseWakes
  <2>7. CallsDiffer(todo[p])' /\ CallsEnd(todo[p])'
    BY <1>7, <1>9 DEF CallsDiffer, CallsEnd
  <2> QED BY <2>1, <2>2, <2>6, <2>7 DEF CallsKnownOf
<1>21. ASSUME NEW q \in Program \ {p}
       PROVE  /\ UNCHANGED <<todo[q], pc[q], arg[q], cur[q], owes[q]>>
              /\ Members(wakeupList'[q]) \subseteq ThreadsOf(q)
              /\ \A u \in ThreadsOf(q) : joined'[u] = joined[u]
  BY <1>2, <1>9 DEF WakerInv, WakerPart, OwnThreads, OwnThreadsOf, StClose
<1> QED BY <1>3, <1>9, <1>17, <1>18, <1>19, <1>20, <1>21, CalmStep DEF StClose

\* A scheduler waits for clientes_mutex: what it is about to do stays.
LEMMA WakerJam ==
    ASSUME WakerInv, NEW p \in Program, StJam(p)
    PROVE  WakerPart'
<1> USE DEF ltsVars, semVars, clientVars, consoleVars
<1>0. TypeOK /\ ClientKnownOf(p) /\ MoverIsKnown
  BY DEF WakerInv, WakerPart, ClientKnown, CreationInv, SlotInv, TypeInv
<1>1. /\ listMutex = None /\ listMutex' = p /\ jammed' = p /\ jammed' # None
      /\ \A q \in Program \ {p} : pc'[q] = pc[q]
      /\ pc'[p] = pc[p] \/ (pc[p] = "recv" /\ pc'[p] = "create")
  <2>1. CASE UNCHANGED pc BY <2>1, TcbAssumption DEF StJam
  <2>2. CASE pc[p] = "recv" /\ pc' = [pc EXCEPT ![p] = "create"]
    BY <1>0, <2>2, TcbAssumption DEF StJam, TypeOK
  <2> QED BY <2>1, <2>2 DEF StJam, Goto
<1>2. pc'[p] = "notify" <=> pc[p] = "notify"
  BY <1>1
<1>3. Moving = None BY <1>1, MovingIsNone
<1>4. Moving' = None BY <1>1, TcbAssumption DEF Moving
<1>5. ListsMatchPlace' BY <1>3, <1>4, ListsStay DEF StJam
<1>6. SlotToCome' BY <1>1 DEF SlotToCome
<1>7. \A q \in Program, t \in Thread : Notifying(q, t)' <=> Notifying(q, t)
  BY <1>1, <1>2 DEF Notifying, StJam
<1>8. ThreadsWait' BY <1>7, WaitsStay, CallsStay DEF StJam
<1>9. QueuesDistinct' /\ JoinedAreOwn' BY QueuesStay DEF StJam
<1>c. Calls(p)' = Calls(p) /\ ThreadsOf(p)' = ThreadsOf(p) BY CallsStay DEF StJam, ThreadsOf
<1>10. OwnThreadsOf(p)'
  BY <1>1, <1>c DEF WakerInv, WakerPart, OwnThreads, OwnThreadsOf, StJam, listVars
<1>11. CallsKnownOf(p)'
  <2>1. CallsKnownOf(p) BY DEF WakerInv, WakerPart, AllCallsKnown
  <2>2. \A c \in Calls(p) : LegalCall(c)' BY <2>1 DEF CallsKnownOf, LegalCall, StJam
  <2>3. ExecIsFreed(p)' BY <1>c, <2>1 DEF CallsKnownOf, ExecIsFreed, StJam, listVars
  <2>4. \A u : Closing(p, u)' <=> Closing(p, u) BY <1>c DEF Closing
  <2>5. CloseWakes(p)' BY <1>c, <2>1, <2>4 DEF CallsKnownOf, CloseWakes, StJam
  <2>6. (CallsDiffer(todo[p]) /\ CallsEnd(todo[p]))'
    BY <2>1 DEF CallsKnownOf, CallsDiffer, CallsEnd, StJam
  <2> QED BY <1>c, <2>2, <2>3, <2>5, <2>6 DEF CallsKnownOf
<1>12. ClientKnownOf(p)'
  <2>1. UNCHANGED <<cur, owes, mainLoaded, state, exec, todo>> BY DEF StJam, listVars
  <2>2. CASE pc'[p] = pc[p] BY <1>0, <1>c, <2>1, <2>2 DEF ClientKnownOf, Serving
  <2>3. CASE pc[p] = "recv" /\ pc'[p] = "create"
    BY <1>0, <1>c, <2>1, <2>3 DEF ClientKnownOf, Serving
  <2> QED BY <1>1, <2>2, <2>3
<1>13. ASSUME NEW q \in Program \ {p}
       PROVE  OwnThreadsOf(q)' /\ CallsKnownOf(q)' /\ ClientKnownOf(q)'
  <2>1. Bystander(q)
    BY <1>1 DEF Bystander, StJam, listVars
  <2>2. ready'[q] \subseteq ThreadsOf(q) /\ Members(wakeupList'[q]) \subseteq ThreadsOf(q)
    BY DEF WakerInv, WakerPart, OwnThreads, OwnThreadsOf, StJam, listVars
  <2> QED BY <2>1, <2>2, BystanderOwn, BystanderCalls, BystanderClient
<1> QED BY <1>5, <1>6, <1>8, <1>9, <1>10, <1>11, <1>12, <1>13
        DEF WakerPart, OwnThreads, AllCallsKnown, ClientKnown

-----------------------------------------------------------------------------
(* create_tcb() *)

LEMMA WakerCreateTcb ==
    ASSUME WakerInv, NEW p \in Program, NEW t \in ThreadsOf(p), create_tcb(p, t),
           pc[p] = "recv", pc'[p] \notin {"notify", "join", "joinmiss"},
           UNCHANGED <<current, mainLoaded, semBlocked, semMutex, todo, arg, joined,
                       wakeupList>>,
           \A q \in Program \ {p} : UNCHANGED <<pc[q], cur[q], owes[q]>>,
           ClientKnownOf(p)'
    PROVE  WakerPart'
<1>0. TypeOK /\ TcbTypeOK BY DEF WakerInv, CreationInv, SlotInv, TypeInv, TypeOK
<1>1. /\ todo[p] = <<>> /\ Calls(p) = {}
  BY IdleFacts DEF IdlePlace
<1>m. listMutex = None /\ jammed = None
  BY LocksWhenFree DEF create_tcb, WakerInv, CreationInv, SlotInv
<1>2. /\ t \in Thread /\ Owner[t] = p /\ state[t] = "none" /\ listMutex = None
      /\ state' = [state EXCEPT ![t] = "NEW"]
      /\ UNCHANGED <<ready, exec, blockedList, exitList, degree, listMutex, jammed>>
  BY <1>m DEF create_tcb, ThreadsOf
<1>3. state'[t] = "NEW" /\ \A u \in Thread \ {t} : state'[u] = state[u]
  BY <1>0, <1>2 DEF TcbTypeOK
<1>4. Moving = None /\ Moving' = None
  BY <1>2, MovingIsNone, TcbAssumption DEF Moving
<1>5. Place(t) = "none" /\ Place(t)' = "NEW" /\ \A u \in Thread \ {t} : Place(u)' = Place(u)
  BY <1>2, <1>3, <1>4, TcbAssumption DEF Place
<1>6. Members(newList') = Members(newList) \cup {t}
  BY <1>0, <1>2, MembersAppend DEF create_tcb, TcbTypeOK
<1>7. ListsMatchPlace'
  <2> SUFFICES ASSUME NEW u \in Thread
               PROVE  /\ u \in ready'[Owner[u]] <=> Place(u)' = "READY"
                      /\ exec'[Owner[u]] = u <=> Place(u)' = "EXEC"
                      /\ u \in blockedList' <=> Place(u)' = "BLOCKED"
                      /\ u \in exitList' <=> Place(u)' = "EXIT"
                      /\ u \in Members(newList') <=> Place(u)' = "NEW"
    BY DEF ListsMatchPlace
  <2>1. /\ u \in ready[Owner[u]] <=> Place(u) = "READY"
        /\ exec[Owner[u]] = u <=> Place(u) = "EXEC"
        /\ u \in blockedList <=> Place(u) = "BLOCKED"
        /\ u \in exitList <=> Place(u) = "EXIT"
        /\ u \in Members(newList) <=> Place(u) = "NEW"
    BY DEF WakerInv, WakerPart, ListsMatchPlace
  <2>2. CASE u = t BY <1>2, <1>5, <1>6, <2>1, <2>2
  <2>3. CASE u # t BY <1>2, <1>5, <1>6, <2>1, <2>3
  <2> QED BY <2>2, <2>3
<1>8. SlotToCome' BY <1>2, TcbAssumption DEF SlotToCome
<1>9. \A q \in Program, u \in Thread : Notifying(q, u)' <=> Notifying(q, u)
  BY DEF Notifying
<1>10. /\ \A q \in Program, u \in Thread : /\ Waking(q, u)' <=> Waking(q, u)
                                           /\ Closing(q, u)' <=> Closing(q, u)
       /\ \A u \in Thread : Blocking(u)' <=> Blocking(u)
       /\ \A q \in Program : Calls(q)' = Calls(q)
  BY CallsStay
<1>11. ASSUME NEW u \in Thread PROVE WaitsRight(u)'
  <2>0. WaitsRight(u) BY DEF WakerInv, WakerPart, ThreadsWait
  <2>1. \A v \in Thread : /\ state'[v] = "EXIT" <=> state[v] = "EXIT"
                          /\ state'[v] = "BLOCKED" <=> state[v] = "BLOCKED"
    BY <1>2, <1>3
  <2>2. \A k \in Kind, x \in Waker : WaitsOn(u, k, x)' <=> WaitsOn(u, k, x)
    BY <1>9, <1>10, <2>1, SameWaits
  <2>3. \A r \in Sem : WaitsOn(u, "sem", r) /\ Blocking(u)' => semMutex'[r] = Owner[u]
    BY <1>10, <2>0 DEF WaitsRight
  <2>4. Owner[u] \in Program BY TcbAssumption
  <2> QED BY <1>10, <2>0, <2>1, <2>2, <2>3, <2>4, WaitsKept DEF Parked
<1>12. ThreadsWait' BY <1>11 DEF ThreadsWait
<1>13. QueuesDistinct' /\ JoinedAreOwn' BY QueuesStay
<1>14. OwnThreadsOf(p)'
  <2>1. ThreadsOf(p)' = ThreadsOf(p) BY DEF ThreadsOf
  <2> QED BY <1>1, <1>2, <1>10, <2>1 DEF WakerInv, WakerPart, OwnThreads, OwnThreadsOf
<1>15. CallsKnownOf(p)'
  <2>1. (CallsDiffer(todo[p]) /\ CallsEnd(todo[p]))' BY <1>1, MembersOfFew
  <2> QED BY <1>1, <1>10, <2>1 DEF CallsKnownOf, ExecIsFreed, CloseWakes, Closing
<1>16. ASSUME NEW q \in Program \ {p}
       PROVE  OwnThreadsOf(q)' /\ CallsKnownOf(q)' /\ ClientKnownOf(q)'
  <2>1. \A u \in ThreadsOf(q) : u \in Thread \ {t}
    BY <1>2 DEF ThreadsOf
  <2>2. Bystander(q)
    BY <1>2, <1>3, <2>1 DEF Bystander
  <2>3. ready'[q] \subseteq ThreadsOf(q) /\ Members(wakeupList'[q]) \subseteq ThreadsOf(q)
    BY <1>2 DEF WakerInv, WakerPart, OwnThreads, OwnThreadsOf
  <2> QED BY <2>2, <2>3, BystanderOwn, BystanderCalls, BystanderClient
<1> QED BY <1>7, <1>8, <1>12, <1>13, <1>14, <1>15, <1>16
        DEF WakerPart, OwnThreads, AllCallsKnown, ClientKnown

LEMMA WakerCreate ==
    ASSUME WakerInv, NEW p \in Program, StCreateMain(p) \/ StCreate(p)
    PROVE  WakerPart'
<1> USE DEF consoleVars, semVars, clientVars
<1>0. ClientKnownOf(p) /\ TypeOK
  BY DEF WakerInv, WakerPart, ClientKnown, CreationInv, SlotInv, TypeInv
<1>p. pc[p] = "recv"
  <2>1. pc[p] \in {"recv", "create"} /\ list_mutex_locked(p) /\ ~ClientesHeld
    BY DEF StCreateMain, StCreate, create_tcb
  <2>2. MoverIsKnown BY DEF WakerInv, CreationInv, SlotInv
  <2>3. jammed # p BY <2>1, <2>2, LocksWhenFree, TcbAssumption
  <2> QED BY <2>1, <2>2, <2>3 DEF MoverIsKnown
<1>1. todo[p] = <<>> /\ Calls(p) = {} /\ pc[p] = "recv"
  BY <1>p, IdleFacts DEF IdlePlace
<1>2. CASE StCreateMain(p)
  <2> PICK main \in Thread : main = Main[p] BY TcbAssumption
  <2>1. main \in ThreadsOf(p) /\ main # None BY TcbAssumption DEF ThreadsOf
  <2>2. /\ pc'[p] = "mainwait" /\ cur'[p] = main /\ create_tcb(p, main)
        /\ \A q \in Program \ {p} : pc'[q] = pc[q] /\ cur'[q] = cur[q]
    BY <1>0, <1>2 DEF StCreateMain, Goto, TypeOK
  <2>3. \A u \in ThreadsOf(p) : state[u] = "none"
    BY <1>0, <1>2 DEF StCreateMain, ClientKnownOf, Serving
  <2>4. \A u \in ThreadsOf(p) : state'[u] \in {"none", "NEW", "READY"}
    BY <1>0, <2>2, <2>3 DEF create_tcb, TypeOK, TcbTypeOK, ThreadsOf
  <2>5. ClientKnownOf(p)'
    BY <2>1, <2>2, <2>4 DEF ClientKnownOf, Serving, ThreadsOf
  <2> QED BY <1>1, <1>2, <2>1, <2>2, <2>5, WakerCreateTcb DEF StCreateMain
<1>3. CASE StCreate(p)
  <2> PICK t \in ThreadsOf(p) : create_tcb(p, t) BY <1>3 DEF StCreate
  <2>1. pc'[p] = "served" /\ \A q \in Program \ {p} : pc'[q] = pc[q]
    BY <1>0, <1>3 DEF StCreate, Goto, TypeOK
  <2>2. cur[p] # None /\ (~owes[p] => exec[p] = cur[p])
    BY <1>0, <1>1, <1>3 DEF StCreate, ClientKnownOf, Serving
  <2>3. /\ cur' = cur /\ owes' = owes /\ mainLoaded' = mainLoaded /\ exec' = exec
        /\ Calls(p)' = {}
    BY <1>1, <1>3, CallsStay DEF StCreate, create_tcb
  <2>4. ClientKnownOf(p)'
    BY <1>0, <1>1, <2>1, <2>2, <2>3 DEF ClientKnownOf, Serving
  <2> QED BY <1>1, <1>3, <2>1, <2>4, WakerCreateTcb DEF StCreate
<1> QED BY <1>2, <1>3
-----------------------------------------------------------------------------
(* move_tcb_to() *)

\* The lists up to the wait for a slot: the thread is where it is going.
LEMMA MoveBeginLists ==
    ASSUME WakerInv, NEW self \in Scheduler, NEW t \in Thread,
           NEW dst \in Active \cup {"EXIT"}, MoveBegin(self, t, dst), listMutex = None,
           dst = "READY" \/ <<state[t], dst>> \in LegalMove, state[t] # "EXIT",
           state[t] = "NEW" => newList # <<>> /\ t = newList[1],
           dst = "EXEC" => exec[Owner[t]] = None,
           Place(t)' = dst, \A u \in Thread \ {t} : Place(u)' = state[u]
    PROVE  /\ ListsMatchPlace'
           /\ \A q \in Program : ready'[q] \subseteq ThreadsOf(q)
           /\ \A q \in Program \ {Owner[t]} : exec'[q] = exec[q]
           /\ exec'[Owner[t]] = exec_after(t, state[t], dst, exec[Owner[t]])
<1> PICK p \in Program : p = Owner[t] BY TcbAssumption
<1> PICK from \in State : from = state[t]
  BY DEF WakerInv, CreationInv, SlotInv, TypeInv, TypeOK, TcbTypeOK
<1>0. TcbTypeOK /\ NewListKnown /\ ListsMatchPlace
  BY DEF WakerInv, WakerPart, CreationInv, SlotInv, TypeInv, TypeOK
<1>1. /\ listMutex = None /\ from # dst
      /\ ready' = [ready EXCEPT ![p] =
             (@ \ Only(from = "READY", t)) \cup Only(dst = "READY", t)]
      /\ exec' = [exec EXCEPT ![p] = exec_after(t, from, dst, @)]
      /\ blockedList' = (blockedList \ Only(from = "BLOCKED", t)) \cup Only(dst = "BLOCKED", t)
      /\ exitList' = exitList \cup Only(dst = "EXIT", t)
      /\ newList' = IF from = "NEW" THEN list_remove(newList, t) ELSE newList
  BY DEF MoveBegin, program_remove_and_add
<1>2. \A u \in Thread : Place(u) = state[u]
  BY <1>1, MovingIsNone, TcbAssumption DEF Place
<1>3. Members(newList') = Members(newList) \ Only(from = "NEW", t)
  <2>1. CASE from = "NEW"
    <3>1. newList \in Seq(Thread) /\ newList # <<>> /\ Distinct(newList) /\ t = newList[1]
      BY <1>0, <2>1 DEF TcbTypeOK, NewListKnown, Distinct
    <3>2. /\ DOMAIN newList' = 1 .. Len(newList) - 1
          /\ \A i \in 1 .. Len(newList) - 1 : newList'[i] = newList[i + 1]
      BY <1>1, <2>1, <3>1, HeadRemoved DEF Distinct
    <3>3. /\ DOMAIN Tail(newList) = 1 .. Len(newList) - 1
          /\ \A i \in 1 .. Len(newList) - 1 : Tail(newList)[i] = newList[i + 1]
      BY <3>1
    <3>4. Members(newList') = Members(Tail(newList))
      BY <3>2, <3>3 DEF Members
    <3>5. Members(newList) = {t} \cup Members(Tail(newList)) /\ t \notin Members(Tail(newList))
      BY <3>1, MembersTail
    <3> QED BY <2>1, <3>4, <3>5 DEF Only
  <2>2. CASE from # "NEW" BY <1>1, <2>2 DEF Only
  <2> QED BY <2>1, <2>2
<1>4. /\ ready'[p] = (ready[p] \ Only(from = "READY", t)) \cup Only(dst = "READY", t)
      /\ exec'[p] = exec_after(t, from, dst, exec[p])
      /\ \A q \in Program \ {p} : ready'[q] = ready[q] /\ exec'[q] = exec[q]
  BY <1>0, <1>1 DEF TcbTypeOK
<1>5. \A u \in Thread : Owner[u] \in Program
  BY TcbAssumption
<1>6. ASSUME NEW u \in Thread
      PROVE  /\ u \in ready'[Owner[u]] <=> Place(u)' = "READY"
             /\ exec'[Owner[u]] = u <=> Place(u)' = "EXEC"
             /\ u \in blockedList' <=> Place(u)' = "BLOCKED"
             /\ u \in exitList' <=> Place(u)' = "EXIT"
             /\ u \in Members(newList') <=> Place(u)' = "NEW"
  <2>0. /\ u \in ready[Owner[u]] <=> state[u] = "READY"
        /\ exec[Owner[u]] = u <=> state[u] = "EXEC"
        /\ u \in blockedList <=> state[u] = "BLOCKED"
        /\ u \in exitList <=> state[u] = "EXIT"
        /\ u \in Members(newList) <=> state[u] = "NEW"
    BY <1>0, <1>2 DEF ListsMatchPlace
  <2>t. t # None BY TcbAssumption
  <2>1. CASE u = t
    <3>1. u \in ready'[Owner[u]] <=> dst = "READY"
      BY <1>1, <1>4, <2>0, <2>1 DEF Only
    <3>2. exec'[Owner[u]] = u <=> dst = "EXEC"
      BY <1>1, <1>4, <2>0, <2>1, <2>t DEF exec_after
    <3>3. u \in blockedList' <=> dst = "BLOCKED"
      BY <1>1, <2>0, <2>1 DEF Only
    <3>4. u \in exitList' <=> dst = "EXIT"
      BY <1>1, <2>0, <2>1 DEF Only
    <3>5. u \notin Members(newList') /\ dst # "NEW"
      BY <1>3, <2>0, <2>1 DEF Only, Active
    <3> QED BY <2>1, <3>1, <3>2, <3>3, <3>4, <3>5
  <2>2. CASE u # t
    <3>1. u \in ready'[Owner[u]] <=> u \in ready[Owner[u]]
      BY <1>4, <1>5, <2>2 DEF Only
    <3>2. exec'[Owner[u]] = u <=> exec[Owner[u]] = u
      <4>1. CASE Owner[u] # p BY <1>4, <1>5, <4>1
      <4>2. CASE Owner[u] = p
        <5>1. u # None BY TcbAssumption
        <5>2. from = "EXEC" => exec[p] = t
          BY <1>0, <1>2 DEF ListsMatchPlace
        <5>3. CASE dst = "EXEC"
          BY <1>4, <2>2, <4>2, <5>1, <5>3 DEF exec_after
        <5>4. CASE dst # "EXEC" /\ from = "EXEC"
          BY <1>4, <2>2, <4>2, <5>1, <5>2, <5>4 DEF exec_after
        <5>5. CASE dst # "EXEC" /\ from # "EXEC"
          BY <1>4, <4>2, <5>5 DEF exec_after
        <5> QED BY <5>3, <5>4, <5>5
      <4> QED BY <4>1, <4>2
    <3>3. u \in blockedList' <=> u \in blockedList BY <1>1, <2>2 DEF Only
    <3>4. u \in exitList' <=> u \in exitList BY <1>1, <2>2 DEF Only
    <3>5. u \in Members(newList') <=> u \in Members(newList) BY <1>3, <2>2 DEF Only
    <3>6. Place(u)' = state[u] BY <2>2
    <3> QED BY <2>0, <3>1, <3>2, <3>3, <3>4, <3>5, <3>6
  <2> QED BY <2>1, <2>2
<1>7. \A q \in Program : ready'[q] \subseteq ThreadsOf(q)
  <2>1. \A q \in Program : ready[q] \subseteq ThreadsOf(q)
    BY DEF WakerInv, WakerPart, OwnThreads, OwnThreadsOf
  <2>2. t \in ThreadsOf(p) BY DEF ThreadsOf
  <2> QED BY <1>4, <2>1, <2>2 DEF Only
<1> QED BY <1>4, <1>6, <1>7 DEF ListsMatchPlace

LEMMA WakerLtsMoveBegin ==
    ASSUME WakerInv, LtsMoveBegin
    PROVE  WakerPart'
<1> USE DEF semVars, clientVars, consoleVars
<1>0. TypeOK /\ NewListKnown /\ CurrentIsKept
  BY DEF WakerInv, CreationInv, SlotInv, TypeInv
<1>m. listMutex = None /\ jammed = None
  BY LtsLocksWhenFree DEF LtsMoveBegin, MoveBegin, WakerInv, CreationInv, SlotInv
<1> PICK t \in Thread : t = current
  BY <1>0 DEF LtsMoveBegin, CurrentIsKept, TypeOK
<1>1. /\ newList # <<>> /\ t = newList[1] /\ state[t] = "NEW"
      /\ MoveBegin(Lts, t, "READY") /\ UNCHANGED <<state, current>> /\ listMutex' = Lts
      /\ jammed' = None
  <2>1. newList # <<>> /\ t = newList[1]
    BY <1>0 DEF LtsMoveBegin, NewListKnown, InLine
  <2>2. 1 \in DOMAIN newList
    BY <1>0, <2>1 DEF TypeOK, TcbTypeOK
  <2> QED BY <1>0, <2>1, <2>2 DEF LtsMoveBegin, NewListKnown, MoveBegin, Active
<1>2. Moving' = t /\ Destination' = "READY"
  BY <1>1, TcbAssumption DEF Moving, Destination
<1>3. Place(t)' = "READY" /\ \A u \in Thread \ {t} : Place(u)' = state[u]
  BY <1>1, <1>2 DEF Place
<1>4. /\ ListsMatchPlace'
      /\ \A q \in Program : ready'[q] \subseteq ThreadsOf(q)
      /\ \A q \in Program \ {Owner[t]} : exec'[q] = exec[q]
      /\ exec'[Owner[t]] = exec_after(t, state[t], "READY", exec[Owner[t]])
  <2>1. Lts \in Scheduler /\ "READY" \in Active \cup {"EXIT"} /\ "READY" # "EXEC"
    BY DEF Scheduler, Active
  <2>2. state[t] # "EXIT" BY <1>1
  <2> QED BY <1>m, <1>1, <1>3, <2>1, <2>2, MoveBeginLists
<1>5. \A q \in Program : exec'[q] = exec[q]
  BY <1>1, <1>4 DEF exec_after
<1>6. SlotToCome' BY <1>1, TcbAssumption DEF SlotToCome
<1>7. ThreadsWait'
  <2>1. \A q \in Program, u \in Thread : Notifying(q, u)' <=> Notifying(q, u)
    BY DEF Notifying, LtsMoveBegin
  <2> QED BY <1>1, <2>1, WaitsStay, CallsStay DEF LtsMoveBegin
<1>8. QueuesDistinct' /\ JoinedAreOwn' BY QueuesStay DEF LtsMoveBegin
<1>9. ASSUME NEW q \in Program
      PROVE  OwnThreadsOf(q)' /\ CallsKnownOf(q)' /\ ClientKnownOf(q)'
  <2>1. Bystander(q)
    BY <1>1, <1>5 DEF Bystander, LtsMoveBegin
  <2>2. Members(wakeupList'[q]) \subseteq ThreadsOf(q)
    BY DEF WakerInv, WakerPart, OwnThreads, OwnThreadsOf, LtsMoveBegin
  <2> QED BY <1>4, <2>1, <2>2, BystanderOwn, BystanderCalls, BystanderClient
<1> QED BY <1>4, <1>6, <1>7, <1>8, <1>9
        DEF WakerPart, OwnThreads, AllCallsKnown, ClientKnown

\* The lists after the wait for a slot: the state follows them.
LEMMA MoveEndLists ==
    ASSUME WakerInv, NEW self \in Scheduler, NEW t \in Thread, NEW dst \in Active,
           MoveEnd(self, t, dst), t = Moving, Destination = dst
    PROVE  /\ ListsMatchPlace' /\ SlotToCome'
           /\ state'[t] = dst /\ \A u \in Thread \ {t} : state'[u] = state[u]
           /\ UNCHANGED listVars
<1>1. state' = [state EXCEPT ![t] = dst] /\ listMutex' = None /\ UNCHANGED listVars
  BY DEF MoveEnd
<1>2. state'[t] = dst /\ \A u \in Thread \ {t} : state'[u] = state[u]
  BY <1>1 DEF WakerInv, CreationInv, SlotInv, TypeInv, TypeOK, TcbTypeOK
<1>3. Moving' = None BY <1>1, TcbAssumption DEF Moving
<1>4. \A u \in Thread : Place(u)' = Place(u)
  BY <1>2, <1>3, TcbAssumption DEF Place
<1>5. ListsMatchPlace'
  BY <1>1, <1>4 DEF WakerInv, WakerPart, ListsMatchPlace, listVars
<1>6. SlotToCome' BY <1>1, TcbAssumption DEF SlotToCome
<1> QED BY <1>1, <1>2, <1>5, <1>6

LEMMA WakerLtsMoveEnd ==
    ASSUME WakerInv, LtsMoveEnd
    PROVE  WakerPart'
<1> USE DEF semVars, clientVars, consoleVars
<1>0. TypeOK /\ NewListKnown /\ CurrentIsKept /\ MoverIsKnown
  BY DEF WakerInv, CreationInv, SlotInv, TypeInv
<1> PICK t \in Thread : t = current
  BY <1>0 DEF LtsMoveEnd, CurrentIsKept, TypeOK
<1>1. /\ MoveEnd(Lts, t, "READY") /\ listMutex = Lts /\ state[t] = "NEW"
      /\ jammed = None
  BY <1>0, TcbAssumption
     DEF LtsMoveEnd, MoveEnd, NewListKnown, MoverIsKnown, TypeOK, TcbTypeOK
<1>2. Moving = t /\ Destination = "READY"
  BY <1>1, MovingByLts DEF Destination
<1>3. /\ ListsMatchPlace' /\ SlotToCome'
      /\ state'[t] = "READY" /\ \A u \in Thread \ {t} : state'[u] = state[u]
      /\ UNCHANGED listVars
  <2>1. Lts \in Scheduler /\ "READY" \in Active BY DEF Scheduler, Active
  <2> QED BY <1>1, <1>2, <2>1, MoveEndLists
<1>4. /\ \A q \in Program, u \in Thread : /\ Waking(q, u)' <=> Waking(q, u)
                                          /\ Closing(q, u)' <=> Closing(q, u)
                                          /\ Notifying(q, u)' <=> Notifying(q, u)
      /\ \A u \in Thread : Blocking(u)' <=> Blocking(u)
  BY CallsStay DEF LtsMoveEnd, Notifying
<1>5. ASSUME NEW u \in Thread PROVE WaitsRight(u)'
  <2>0. WaitsRight(u) BY DEF WakerInv, WakerPart, ThreadsWait
  <2>1. \A v \in Thread : /\ state'[v] = "EXIT" <=> state[v] = "EXIT"
                          /\ state'[v] = "BLOCKED" <=> state[v] = "BLOCKED"
    BY <1>1, <1>3
  <2>2. \A k \in Kind, x \in Waker : WaitsOn(u, k, x)' <=> WaitsOn(u, k, x)
    BY <1>4, <2>1, SameWaits DEF LtsMoveEnd
  <2>3. \A r \in Sem : WaitsOn(u, "sem", r) /\ Blocking(u)' => semMutex'[r] = Owner[u]
    BY <1>4, <2>0 DEF WaitsRight, LtsMoveEnd
  <2>4. Owner[u] \in Program BY TcbAssumption
  <2> QED BY <1>4, <2>0, <2>1, <2>2, <2>3, <2>4, WaitsKept DEF Parked
<1>6. ThreadsWait' BY <1>5 DEF ThreadsWait
<1>7. QueuesDistinct' /\ JoinedAreOwn' BY QueuesStay DEF LtsMoveEnd
<1>8. ASSUME NEW q \in Program
      PROVE  OwnThreadsOf(q)' /\ CallsKnownOf(q)' /\ ClientKnownOf(q)'
  <2>0. \A u \in ThreadsOf(q) : u \in Thread BY DEF ThreadsOf
  <2>1. Bystander(q)
    BY <1>1, <1>3, <2>0 DEF Bystander, LtsMoveEnd, listVars
  <2>2. ready'[q] \subseteq ThreadsOf(q) /\ Members(wakeupList'[q]) \subseteq ThreadsOf(q)
    BY <1>3 DEF WakerInv, WakerPart, OwnThreads, OwnThreadsOf, LtsMoveEnd, listVars
  <2> QED BY <2>1, <2>2, BystanderOwn, BystanderCalls, BystanderClient
<1> QED BY <1>3, <1>6, <1>7, <1>8 DEF WakerPart, OwnThreads, AllCallsKnown, ClientKnown

-----------------------------------------------------------------------------
(* The moves of a short-term scheduler. *)

LEMMA HeadCall ==
    ASSUME WakerInv, NEW p \in Program, todo[p] # <<>>
    PROVE  LET c == todo[p][1]
               rest == Tail(todo[p])
           IN
           /\ c \in Calls(p) /\ c.tcb \in ThreadsOf(p) /\ c.tcb \in Thread /\ Owner[c.tcb] = p
           /\ c.to \in Active \cup {"EXIT"} /\ LegalCall(c)
           /\ rest \in Seq(MoveCall)
           /\ Members(rest) = Calls(p) \ {c} /\ CallsDiffer(rest) /\ CallsEnd(rest)
           /\ \A d \in Members(rest) : d.tcb # c.tcb
           /\ c.to \in {"EXEC", "EXIT", "BLOCKED"} => rest = <<>> /\ Calls(p) = {c}
           /\ rest # <<>> => \A d \in Calls(p) : d.to # "BLOCKED"
<1> PICK list : list = todo[p] OBVIOUS
<1>0. TypeOK /\ CallsKnownOf(p) /\ OwnThreadsOf(p)
  BY DEF WakerInv, WakerPart, AllCallsKnown, OwnThreads, CreationInv, SlotInv, TypeInv
<1>1. list \in Seq(MoveCall) /\ list # <<>> /\ CallsDiffer(list) /\ CallsEnd(list)
  BY <1>0 DEF TypeOK, CallsKnownOf
<1>2. /\ Members(Tail(list)) = Members(list) \ {list[1]}
      /\ CallsDiffer(Tail(list)) /\ CallsEnd(Tail(list))
      /\ \A d \in Members(Tail(list)) : d.tcb # list[1].tcb
      /\ list[1].to \in {"EXEC", "EXIT", "BLOCKED"} => Tail(list) = <<>>
      /\ Tail(list) # <<>> => \A d \in Members(list) : d.to # "BLOCKED"
  BY <1>1, RestOfCalls
<1>3. list[1] \in Members(list) /\ Members(<<>>) = {} /\ Tail(list) \in Seq(MoveCall)
  <2>1. list[1] \in Members(list) BY <1>1, MembersType
  <2>2. Tail(list) \in Seq(MoveCall) BY <1>1
  <2> QED BY <2>1, <2>2, MembersOfFew
<1>4. Calls(p) = Members(list) BY DEF Calls
<1>5. \A d \in Calls(p) : d.tcb \in ThreadsOf(p) /\ LegalCall(d)
  BY <1>0 DEF CallsKnownOf, OwnThreadsOf
<1>6. \A d \in Calls(p) : d.to \in Active \cup {"EXIT"}
  BY <1>0, CallFacts
<1>7. \A u \in ThreadsOf(p) : u \in Thread /\ Owner[u] = p
  BY DEF ThreadsOf
<1>8. list[1].to \in {"EXEC", "EXIT", "BLOCKED"} => Members(list) = {list[1]}
  BY <1>2, <1>3, ZenonT(60)
<1> QED BY <1>2, <1>3, <1>4, <1>5, <1>6, <1>7, <1>8

LEMMA WakerMoveBegin ==
    ASSUME WakerInv, NEW p \in Program, StMoveBegin(p)
    PROVE  WakerPart'
<1> USE DEF ltsVars, semVars, clientVars, consoleVars
<1>0. /\ TypeOK /\ TcbTypeOK /\ MoverIsKnown /\ SlotsAccounted
      /\ CallsKnownOf(p) /\ OwnThreadsOf(p) /\ ClientKnownOf(p)
  BY DEF WakerInv, WakerPart, ClientKnown, AllCallsKnown, OwnThreads, CreationInv, SlotInv,
         TypeInv, TypeOK
<1> PICK call : call = todo[p][1] OBVIOUS
<1> PICK rest : rest = Tail(todo[p]) OBVIOUS
<1> PICK t : t = call.tcb OBVIOUS
<1> PICK dst : dst = call.to OBVIOUS
<1>1. /\ todo[p] # <<>> /\ MoveBegin(p, t, dst) /\ ~ClientesHeld /\ jammed' = None
      /\ todo' = [todo EXCEPT ![p] = IF dst = "EXIT" THEN rest ELSE @]
      /\ UNCHANGED <<pc, arg, joined, wakeupList, cur, owes, mainLoaded, current,
                     semBlocked, semMutex>>
  BY DEF StMoveBegin, MoveBegin
<1>2. /\ call \in Calls(p) /\ t \in ThreadsOf(p) /\ t \in Thread /\ Owner[t] = p
      /\ dst \in Active \cup {"EXIT"} /\ LegalCall(call)
      /\ Members(rest) = Calls(p) \ {call}
      /\ dst \in {"EXEC", "EXIT", "BLOCKED"} => rest = <<>> /\ Calls(p) = {call}
  BY <1>1, HeadCall
<1>3. <<state[t], dst>> \in LegalMove /\ state[t] \in Active
  BY <1>2 DEF LegalCall, LegalMove, Active
<1>4. listMutex = None
  BY <1>0, <1>1, LocksWhenFree DEF MoveBegin
<1>5. dst = "EXEC" => exec[p] = None
  <2> SUFFICES ASSUME dst = "EXEC", exec[p] # None PROVE FALSE OBVIOUS
  <2>1. exec[p] = t BY <1>0, <1>2 DEF CallsKnownOf, ExecIsFreed
  <2>2. state[t] = "EXEC" BY <1>4, <2>1, ListsAreStates
  <2>3. state[t] = "READY" BY <1>3 DEF LegalMove
  <2> QED BY <2>2, <2>3
<1>6. pc[p] \notin {"mainwait", "none", "start", "notify", "crashed"} /\ cur[p] # None
  <2>1. pc[p] \notin {"mainwait", "none", "start", "notify", "crashed"}
    BY <1>0, <1>1 DEF MoverIsKnown, IdlePlace
  <2> QED BY <1>0, <1>2, <1>3, <2>1 DEF ClientKnownOf, Serving, Active
<1>7. Place(t)' = dst /\ \A u \in Thread \ {t} : Place(u)' = state[u]
  <2>1. CASE dst \in Active
    <3>1. listMutex' = p /\ UNCHANGED state /\ todo'[p] = todo[p] /\ p # Lts
      BY <1>0, <1>1, <2>1, TcbAssumption DEF MoveBegin, Active, TypeOK
    <3>2. Moving' = t /\ Destination' = dst
      BY <1>1, <3>1, TcbAssumption DEF Moving, Destination
    <3> QED BY <3>1, <3>2 DEF Place
  <2>2. CASE dst = "EXIT"
    <3>1. listMutex' = None /\ state' = [state EXCEPT ![t] = "EXIT"]
      BY <1>1, <2>2 DEF MoveBegin, Active
    <3>2. Moving' = None BY <3>1, TcbAssumption DEF Moving
    <3>3. \A u \in Thread : Place(u)' = state'[u]
      BY <3>2, TcbAssumption DEF Place
    <3> QED BY <1>0, <1>2, <2>2, <3>1, <3>3 DEF TcbTypeOK
  <2> QED BY <1>2, <2>1, <2>2
<1>8. /\ ListsMatchPlace'
      /\ \A q \in Program : ready'[q] \subseteq ThreadsOf(q)
      /\ \A q \in Program \ {p} : exec'[q] = exec[q]
      /\ exec'[p] = exec_after(t, state[t], dst, exec[p])
  <2>1. p \in Scheduler BY DEF Scheduler
  <2>2. state[t] # "EXIT" /\ state[t] # "NEW" BY <1>3 DEF Active
  <2> QED BY <1>1, <1>2, <1>3, <1>4, <1>5, <1>7, <2>1, <2>2, MoveBeginLists
<1>9. /\ state[t] \notin {"EXEC"} /\ dst # "EXEC" => exec'[p] = exec[p]
      /\ dst = "EXEC" => exec'[p] = t
      /\ state[t] = "EXEC" => exec'[p] = None
  BY <1>3, <1>8 DEF exec_after, LegalMove
<1>10. QueuesDistinct' /\ JoinedAreOwn' BY <1>1, QueuesStay
<1>11. \A q \in Program, u \in Thread : Notifying(q, u)' <=> Notifying(q, u)
  BY <1>1 DEF Notifying
<1>12. exec'[p] # None => exec'[p] \in ThreadsOf(p)
  BY <1>0, <1>2, <1>8 DEF exec_after, OwnThreadsOf
<1>13. /\ \A q \in Program \ {p} : todo'[q] = todo[q]
       /\ \A u \in ThreadsOf(p) : u \in Thread /\ Owner[u] = p
       /\ \A q \in Program \ {p} : \A u \in ThreadsOf(q) : u \in Thread /\ u # t
  BY <1>0, <1>1, <1>2 DEF TypeOK, ThreadsOf
<1>14. ASSUME NEW q \in Program \ {p}
       PROVE  OwnThreadsOf(q)' /\ CallsKnownOf(q)' /\ ClientKnownOf(q)'
  <2>1. \A u \in ThreadsOf(q) : state'[u] = state[u]
    BY <1>0, <1>1, <1>13 DEF MoveBegin, TcbTypeOK
  <2>2. Bystander(q)
    BY <1>1, <1>8, <1>13, <2>1 DEF Bystander
  <2>3. Members(wakeupList'[q]) \subseteq ThreadsOf(q)
    BY <1>1 DEF WakerInv, WakerPart, OwnThreads, OwnThreadsOf
  <2> QED BY <1>8, <2>2, <2>3, BystanderOwn, BystanderCalls, BystanderClient
<1>15. ThreadsOf(p)' = ThreadsOf(p) BY DEF ThreadsOf
<1>16. CASE dst \in Active
  <2>1. UNCHANGED <<state, todo>> /\ listMutex' = p
    <3>1. dst # "EXIT" BY <1>16 DEF Active
    <3>2. todo' = [todo EXCEPT ![p] = todo[p]] BY <1>1, <3>1
    <3> QED BY <1>0, <1>1, <1>16, <3>2 DEF MoveBegin, TypeOK
  <2>2. Calls(p)' = Calls(p) BY <2>1 DEF Calls
  <2>3. SlotToCome'
    <3>1. degree \in Int /\ available \in Nat /\ MaxMultiprog \in Nat
      BY <1>0, TcbAssumption DEF TcbTypeOK
    <3>2. available + degree + One(lpc = "post") = MaxMultiprog
      BY <1>0 DEF SlotsAccounted
    <3>3. degree <= MaxMultiprog BY <3>1, <3>2 DEF One
    <3>4. degree' = degree - 1
      BY <1>1, <1>3 DEF MoveBegin, decrease_multiprog, One
    <3> QED BY <3>1, <3>3, <3>4 DEF SlotToCome
  <2>4. ThreadsWait' BY <1>1, <1>11, <2>1, WaitsStay, CallsStay
  <2>5. OwnThreadsOf(p)'
    BY <1>0, <1>1, <1>8, <1>12, <1>15, <2>2 DEF OwnThreadsOf
  <2>6. CallsKnownOf(p)'
    <3>1. \A c \in Calls(p) : LegalCall(c)' BY <1>0, <2>1 DEF CallsKnownOf, LegalCall
    <3>2. ExecIsFreed(p)'
      <4> SUFFICES ASSUME NEW c \in Calls(p), c.to = "EXEC"
                   PROVE  exec'[p] = None \/ exec'[p] = todo[p][1].tcb
        BY <2>1, <2>2 DEF ExecIsFreed
      <4>1. exec[p] = None \/ exec[p] = todo[p][1].tcb
        BY <1>0 DEF CallsKnownOf, ExecIsFreed
      <4> QED BY <1>8, <4>1 DEF exec_after
    <3>3. \A u : Closing(p, u)' <=> Closing(p, u) BY <2>2 DEF Closing
    <3>4. CloseWakes(p)' BY <1>0, <1>1, <2>1, <2>2, <3>3 DEF CallsKnownOf, CloseWakes
    <3>5. (CallsDiffer(todo[p]) /\ CallsEnd(todo[p]))'
      BY <1>0, <2>1 DEF CallsKnownOf, CallsDiffer, CallsEnd
    <3> QED BY <2>2, <3>1, <3>2, <3>4, <3>5 DEF CallsKnownOf
  <2>7. ASSUME call.wake PROVE exec'[p] = exec[p]
    <3>1. dst = "READY" /\ state[t] = "BLOCKED" BY <1>2, <2>7 DEF LegalCall
    <3> QED BY <1>9, <3>1
  <2>8. ClientKnownOf(p)'
    <3>1. ASSUME pc[p] \in Serving, ~owes[p]
          PROVE  /\ exec'[p] = cur[p] \/ (todo[p] # <<>> /\ todo[p][1] = Move(cur[p], "EXEC"))
                 /\ \A c \in Calls(p) : c.wake \/ c.to = "EXEC"
      <4>1. /\ exec[p] = cur[p] \/ (todo[p] # <<>> /\ todo[p][1] = Move(cur[p], "EXEC"))
            /\ \A c \in Calls(p) : c.wake \/ c.to = "EXEC"
        BY <1>0, <1>6, <3>1 DEF ClientKnownOf, Serving
      <4>2. CASE todo[p] # <<>> /\ todo[p][1] = Move(cur[p], "EXEC")
        BY <4>1, <4>2
      <4>3. CASE exec[p] = cur[p]
        <5>1. dst # "EXEC" BY <1>5, <1>6, <4>3
        <5>2. call.wake BY <1>2, <4>1, <5>1
        <5> QED BY <2>7, <4>1, <4>3, <5>2
      <4> QED BY <4>1, <4>2, <4>3
    <3>2. ASSUME pc[p] \in {"join", "joinmiss"}
          PROVE  \A c \in Calls(p) : c.wake
      BY <1>0, <3>2 DEF ClientKnownOf, Serving
    <3>3. pc[p] = "reply" => \E c \in Calls(p) : c.to = "EXEC"
      BY <1>0, <1>1 DEF ClientKnownOf, Serving
    <3>4. pc[p] # "mainwait" => mainLoaded[p]
      BY <1>0, <1>6 DEF ClientKnownOf, Serving
    <3> QED BY <1>1, <1>6, <2>1, <2>2, <3>1, <3>2, <3>3, <3>4 DEF ClientKnownOf, Serving
  <2> QED BY <1>8, <1>10, <1>14, <2>3, <2>4, <2>5, <2>6, <2>8
          DEF WakerPart, OwnThreads, AllCallsKnown, ClientKnown
<1>17. CASE dst = "EXIT"
  <2>1. /\ listMutex' = None /\ state'[t] = "EXIT" /\ state[t] = "EXEC"
        /\ \A u \in Thread \ {t} : state'[u] = state[u]
    BY <1>0, <1>1, <1>2, <1>3, <1>17 DEF MoveBegin, Active, TcbTypeOK, LegalMove
  <2>2. rest = <<>> /\ Calls(p) = {call} /\ todo'[p] = <<>>
    BY <1>0, <1>1, <1>2, <1>17 DEF TypeOK
  <2>3. Calls(p)' = {} BY <2>2, MembersOfFew DEF Calls
  <2>4. \A q \in Program \ {p} : Calls(q)' = Calls(q) BY <1>13 DEF Calls
  <2>5. call.wake = FALSE
    <3>1. call.wake \in BOOLEAN BY <1>0, <1>2, CallFacts
    <3> QED BY <1>2, <1>17, <3>1 DEF LegalCall
  <2>6. SlotToCome' BY <2>1, TcbAssumption DEF SlotToCome
  <2>7. /\ \A q \in Program, u \in Thread : Waking(q, u)' <=> Waking(q, u)
        /\ \A q \in Program \ {p}, u \in Thread : Closing(q, u)' <=> Closing(q, u)
        /\ \A u \in Thread : /\ Blocking(u)' <=> Blocking(u)
                             /\ Owner[u] = p => ~Blocking(u)
                             /\ Closing(p, u) <=> u = t
    BY <1>17, <2>2, <2>3, <2>4, <2>5, TcbAssumption, ZenonT(60) DEF Waking, Closing, Blocking
  <2>8. \A u \in Members(joined[t]) : state[u] # "BLOCKED" /\ Owner[u] = p
    <3> SUFFICES ASSUME NEW u \in Members(joined[t]) PROVE state[u] # "BLOCKED" /\ Owner[u] = p
      OBVIOUS
    <3>1. Closing(p, t) BY <1>2, <2>7
    <3>2. ~\E c \in Calls(p) : c.to = "READY" BY <1>17, <2>2
    <3>3. Owner[u] = p
      BY <1>2 DEF WakerInv, WakerPart, OwnThreads, JoinedAreOwn, ThreadsOf
    <3> QED BY <1>0, <1>2, <3>1, <3>2, <3>3 DEF CallsKnownOf, CloseWakes
  <2>9. ASSUME NEW u \in Thread PROVE WaitsRight(u)'
    <3>0. WaitsRight(u) BY DEF WakerInv, WakerPart, ThreadsWait
    <3>a. Parked(u)' <=> Parked(u)
      BY <2>1, <2>7 DEF Parked
    <3>1. CASE u \in Members(joined[t])
      <4>1. WaitsOn(u, "join", t) /\ "join" \in Kind /\ t \in Waker
        BY <1>2, <2>1, <3>1 DEF WaitsOn, Kind, Waker
      <4>2. KindsAre(u, "join", t) BY <3>0, <4>1, OneWaitKinds
      <4>3. \A v \in Thread : ~(state'[v] # "EXIT" /\ u \in Members(joined'[v]))
        BY <1>1, <2>1, <4>2 DEF KindsAre
      <4>4. KindsAre(u, "none", None)'
        BY <1>1, <1>11, <2>7, <4>2, <4>3 DEF KindsAre
      <4>5. ~Parked(u)' BY <2>7, <2>8, <3>1, <3>a DEF Parked
      <4> QED BY <4>4, <4>5, WaitsOver
    <3>2. CASE u \notin Members(joined[t])
      <4>1. \A v \in Thread : state'[v] # "EXIT" /\ u \in Members(joined'[v])
                <=> state[v] # "EXIT" /\ u \in Members(joined[v])
        BY <1>1, <2>1, <3>2
      <4>2. \A k \in Kind, x \in Waker : WaitsOn(u, k, x)' <=> WaitsOn(u, k, x)
        BY <1>1, <1>11, <2>7, <4>1, SameWaits
      <4>3. \A x \in Thread : Closing(Owner[u], x) /\ WaitsOn(u, "join", x)
                => Closing(Owner[u], x)'
        <5>1. \A x \in Thread : WaitsOn(u, "join", x) => x # t
          BY <3>2 DEF WaitsOn
        <5>2. Owner[u] \in Program BY TcbAssumption
        <5> QED BY <2>7, <5>1, <5>2
      <4>4. \A r \in Sem : WaitsOn(u, "sem", r) /\ Blocking(u)' => semMutex'[r] = Owner[u]
        BY <1>1, <2>7, <3>0 DEF WaitsRight
      <4>5. state[u] = "BLOCKED" => state'[u] = "BLOCKED" BY <2>1
      <4> QED BY <3>0, <3>a, <4>2, <4>3, <4>4, <4>5, WaitsKept
    <3> QED BY <3>1, <3>2
  <2>10. ThreadsWait' BY <2>9 DEF ThreadsWait
  <2>11. OwnThreadsOf(p)'
    BY <1>0, <1>1, <1>8, <1>12, <1>15, <2>3 DEF OwnThreadsOf
  <2>12. CallsKnownOf(p)'
    <3>1. (CallsDiffer(todo[p]) /\ CallsEnd(todo[p]))' BY <2>2, MembersOfFew
    <3> QED BY <2>3, <3>1 DEF CallsKnownOf, ExecIsFreed, CloseWakes, Closing
  <2>13. ClientKnownOf(p)'
    <3>1. pc[p] \in Serving => owes[p]
      BY <1>0, <1>2, <1>6, <1>17, <2>5 DEF ClientKnownOf, Serving
    <3>2. pc[p] \notin {"join", "joinmiss"}
      BY <1>0, <1>2, <2>5 DEF ClientKnownOf, Serving
    <3>3. pc[p] # "reply"
      BY <1>0, <1>1, <1>17, <2>2 DEF ClientKnownOf, Serving
    <3>4. pc[p] # "mainwait" => mainLoaded[p]
      BY <1>0, <1>6 DEF ClientKnownOf, Serving
    <3> QED BY <1>1, <1>6, <2>3, <3>1, <3>2, <3>3, <3>4 DEF ClientKnownOf, Serving
  <2> QED BY <1>8, <1>10, <1>14, <2>6, <2>10, <2>11, <2>12, <2>13
          DEF WakerPart, OwnThreads, AllCallsKnown, ClientKnown
<1> QED BY <1>2, <1>16, <1>17


LEMMA WakerMoveEnd ==
    ASSUME WakerInv, NEW p \in Program, StMoveEnd(p)
    PROVE  WakerPart'
<1> USE DEF ltsVars, semVars, clientVars, consoleVars
<1>0. /\ TypeOK /\ TcbTypeOK /\ MoverIsKnown
      /\ CallsKnownOf(p) /\ OwnThreadsOf(p) /\ ClientKnownOf(p)
  BY DEF WakerInv, WakerPart, ClientKnown, AllCallsKnown, OwnThreads, CreationInv, SlotInv,
         TypeInv, TypeOK
<1> PICK call : call = todo[p][1] OBVIOUS
<1> PICK rest : rest = Tail(todo[p]) OBVIOUS
<1> PICK t : t = call.tcb OBVIOUS
<1> PICK dst : dst = call.to OBVIOUS
<1>1. /\ todo[p] # <<>> /\ MoveEnd(p, t, dst) /\ listMutex = p /\ jammed = None
      /\ todo' = [todo EXCEPT ![p] = rest]
      /\ semMutex' = [s \in Sem |-> IF semMutex[s] = p THEN None ELSE semMutex[s]]
      /\ UNCHANGED <<pc, arg, joined, wakeupList, cur, owes, mainLoaded, semBlocked>>
  BY <1>0 DEF StMoveEnd, MoveEnd, MoverIsKnown
<1>2. /\ call \in Calls(p) /\ t \in ThreadsOf(p) /\ t \in Thread /\ Owner[t] = p
      /\ dst \in Active \cup {"EXIT"} /\ LegalCall(call)
      /\ Members(rest) = Calls(p) \ {call} /\ CallsDiffer(rest) /\ CallsEnd(rest)
      /\ \A d \in Members(rest) : d.tcb # t
      /\ dst \in {"EXEC", "EXIT", "BLOCKED"} => rest = <<>> /\ Calls(p) = {call}
      /\ rest # <<>> => \A d \in Calls(p) : d.to # "BLOCKED"
  BY <1>1, HeadCall
<1>3. <<state[t], dst>> \in LegalMove
  BY <1>2 DEF LegalCall
<1>4. dst \in Active BY <1>0, <1>1 DEF MoverIsKnown
<1>5. Moving = t /\ Destination = dst
  BY <1>1, MovingByProgram, TcbAssumption DEF Destination
<1>6. /\ ListsMatchPlace' /\ SlotToCome'
      /\ state'[t] = dst /\ \A u \in Thread \ {t} : state'[u] = state[u]
      /\ UNCHANGED listVars
  <2>1. p \in Scheduler BY DEF Scheduler
  <2> QED BY <1>1, <1>2, <1>4, <1>5, <2>1, MoveEndLists
<1>7. /\ todo'[p] = rest /\ Calls(p)' = Members(rest)
      /\ \A q \in Program \ {p} : todo'[q] = todo[q] /\ Calls(q)' = Calls(q)
  BY <1>0, <1>1, NewCalls
<1>8. Calls(p)' = Calls(p) \ {call}
  BY <1>2, <1>7
<1>9. /\ exec[p] = t <=> dst = "EXEC"
      /\ UNCHANGED <<ready, exec>>
  <2>1. Place(t) = dst BY <1>5 DEF Place
  <2> QED BY <1>2, <1>6, <2>1 DEF WakerInv, WakerPart, ListsMatchPlace, listVars
<1>10. \A c \in Calls(p)' : c.tcb # t /\ c.tcb \in Thread /\ c.tcb \in ThreadsOf(p) /\ LegalCall(c)
  BY <1>0, <1>2, <1>7, <1>8 DEF CallsKnownOf, OwnThreadsOf, ThreadsOf
<1>11. QueuesDistinct' /\ JoinedAreOwn' BY <1>1, QueuesStay
<1>12. \A q \in Program, u \in Thread : Notifying(q, u)' <=> Notifying(q, u)
  BY <1>1 DEF Notifying
<1>13. /\ ThreadsOf(p)' = ThreadsOf(p)
       /\ \A q \in Program \ {p} : \A u \in ThreadsOf(q) : u \in Thread /\ u # t
  BY <1>2 DEF ThreadsOf
<1>14. ASSUME NEW q \in Program \ {p}
       PROVE  OwnThreadsOf(q)' /\ CallsKnownOf(q)' /\ ClientKnownOf(q)'
  <2>1. Bystander(q)
    BY <1>1, <1>6, <1>7, <1>9, <1>13 DEF Bystander
  <2>2. ready'[q] \subseteq ThreadsOf(q) /\ Members(wakeupList'[q]) \subseteq ThreadsOf(q)
    BY <1>1, <1>9 DEF WakerInv, WakerPart, OwnThreads, OwnThreadsOf
  <2> QED BY <2>1, <2>2, BystanderOwn, BystanderCalls, BystanderClient
<1>15. OwnThreadsOf(p)'
  BY <1>0, <1>1, <1>9, <1>10, <1>13 DEF OwnThreadsOf
<1>16. /\ \A u \in Thread : Closing(p, u)' <=> Closing(p, u)
       /\ \A q \in Program \ {p}, u \in Thread : /\ Closing(q, u)' <=> Closing(q, u)
                                                 /\ Waking(q, u)' <=> Waking(q, u)
  <2>1. call.to # "EXIT" BY <1>4 DEF Active
  <2> QED BY <1>7, <1>8, <2>1 DEF Closing, Waking
<1>17. \A u \in Thread : u # t => (Waking(p, u)' <=> Waking(p, u)) /\ (Blocking(u)' <=> Blocking(u))
  <2> SUFFICES ASSUME NEW u \in Thread, u # t
               PROVE  (Waking(p, u)' <=> Waking(p, u)) /\ (Blocking(u)' <=> Blocking(u))
    OBVIOUS
  <2>1. Waking(p, u)' <=> Waking(p, u) BY <1>8 DEF Waking
  <2>2. CASE Owner[u] = p BY <1>8, <2>1, <2>2 DEF Blocking
  <2>3. CASE Owner[u] # p BY <1>7, <2>1, <2>3, TcbAssumption DEF Blocking
  <2> QED BY <2>2, <2>3
<1>18. ~Waking(p, t)' /\ ~Blocking(t)' /\ \A u \in Thread : Owner[u] = p => ~Blocking(u)'
  <2>1. ~Waking(p, t)' /\ ~Blocking(t)'
    BY <1>2, <1>10 DEF Waking, Blocking
  <2>2. \A c \in Calls(p)' : c.to # "BLOCKED"
    BY <1>2, <1>7, <1>8, MembersOfFew
  <2>3. \A u \in Thread : Owner[u] = p => ~Blocking(u)'
    BY <2>2 DEF Blocking
  <2> QED BY <2>1, <2>3
<1>19. /\ Waking(p, t) <=> call.wake
       /\ Blocking(t) <=> dst = "BLOCKED"
  <2>1. \A c \in Calls(p) : c.tcb = t <=> c = call
    BY <1>2
  <2> QED BY <1>2, <2>1 DEF Waking, Blocking
<1>20. \A v \in Thread : state'[v] = "EXIT" <=> state[v] = "EXIT"
  BY <1>3, <1>4, <1>6 DEF LegalMove, Active
<1>s. \A u \in Thread : WaitsRight(u) BY DEF WakerInv, WakerPart, ThreadsWait
<1>21. ASSUME NEW u \in Thread, u # t PROVE WaitsRight(u)'
  <2>1. \A k \in Kind, x \in Waker : WaitsOn(u, k, x)' <=> WaitsOn(u, k, x)
    BY <1>1, <1>12, <1>16, <1>17, <1>20, <1>21, SameWaits
  <2>2. \A x \in Thread : Closing(Owner[u], x) => Closing(Owner[u], x)'
    BY <1>16, TcbAssumption
  <2>3. \A r \in Sem : WaitsOn(u, "sem", r) /\ Blocking(u)' => semMutex'[r] = Owner[u]
    BY <1>1, <1>s, <1>17, <1>18, <1>21 DEF WaitsRight
  <2>4. state'[u] = state[u] BY <1>6, <1>21
  <2> QED BY <1>s, <1>17, <1>21, <2>1, <2>2, <2>3, <2>4, WaitsKept DEF Parked
<1>22. WaitsRight(t)'
  <2>0. \A x \in Thread : Closing(Owner[t], x) => Closing(Owner[t], x)'
    BY <1>2, <1>16
  <2>1. CASE call.wake
    <3>1. dst = "READY" /\ state[t] = "BLOCKED" BY <1>2, <2>1 DEF LegalCall
    <3>2. WaitsOn(t, "wake", p) /\ "wake" \in Kind /\ p \in Waker
      BY <1>19, <2>1, WaitKinds DEF Kind, Waker
    <3>3. KindsAre(t, "wake", p) BY <1>2, <1>s, <3>2, OneWaitKinds
    <3>4. KindsAre(t, "none", None)'
      <4>1. \A q \in Program : ~Waking(q, t)'
        BY <1>2, <1>16, <1>18, <3>3 DEF KindsAre
      <4> QED BY <1>1, <1>2, <1>12, <1>20, <3>3, <4>1 DEF KindsAre
    <3>5. ~Parked(t)' BY <1>6, <1>18, <3>1 DEF Parked
    <3> QED BY <1>2, <3>4, <3>5, WaitsOver
  <2>2. CASE ~call.wake
    <3>1. \A q \in Program : Waking(q, t)' <=> Waking(q, t)
      BY <1>2, <1>16, <1>18, <1>19, <2>2
    <3>2. \A k \in Kind, x \in Waker : WaitsOn(t, k, x)' <=> WaitsOn(t, k, x)
      BY <1>1, <1>2, <1>12, <1>20, <3>1, SameWaits
    <3>3. CASE state[t] = "BLOCKED"
      <4>1. dst = "READY" BY <1>3, <3>3 DEF LegalMove
      <4>2. \E u \in Thread : Closing(p, u) /\ t \in Members(joined[u])
        BY <1>0, <1>2, <2>2, <3>3, <4>1, ZenonT(60) DEF CallsKnownOf, CloseWakes
      <4> PICK u \in Thread : Closing(p, u) /\ t \in Members(joined[u]) BY <4>2
      <4>3. state[u] = "EXEC"
        <5>1. PICK c \in Calls(p) : c.tcb = u /\ c.to = "EXIT" BY DEF Closing
        <5> QED BY <1>0, <5>1 DEF CallsKnownOf, LegalCall, LegalMove
      <4>4. WaitsOn(t, "join", u) /\ "join" \in Kind /\ u \in Waker
        BY <4>3 DEF WaitsOn, Kind, Waker
      <4>5. \A k \in Kind, x \in Waker : WaitsOn(t, k, x) <=> k = "join" /\ x = u
        BY <1>2, <1>s, <4>4, OneWait
      <4>6. Closing(Owner[t], u)' BY <1>2, <1>16
      <4>7. \A k \in Kind, x \in Waker : WaitsOn(t, k, x)' <=> k = "join" /\ x = u
        BY <3>2, <4>5
      <4> QED BY <1>2, <4>4, <4>6, <4>7, WaitsBecomeOne
    <3>4. CASE state[t] # "BLOCKED"
      <4>1. Parked(t)' <=> Parked(t)
        BY <1>6, <1>18, <1>19, <3>4 DEF Parked
      <4>2. \A r \in Sem : WaitsOn(t, "sem", r) /\ Blocking(t)' => semMutex'[r] = Owner[t]
        BY <1>18
      <4> QED BY <1>2, <1>s, <2>0, <3>2, <3>4, <4>1, <4>2, WaitsKept
    <3> QED BY <3>3, <3>4
  <2> QED BY <2>1, <2>2
<1>23. ThreadsWait' BY <1>21, <1>22 DEF ThreadsWait
<1>24. CallsKnownOf(p)'
  <2>1. ASSUME NEW c \in Calls(p)' PROVE LegalCall(c)'
    <3>1. state'[c.tcb] = state[c.tcb] BY <1>6, <1>10
    <3> QED BY <1>10, <3>1 DEF LegalCall
  <2>2. (CallsDiffer(todo[p]) /\ CallsEnd(todo[p]))'
    BY <1>2, <1>7 DEF CallsDiffer, CallsEnd
  <2>3. ExecIsFreed(p)'
    <3> SUFFICES ASSUME NEW c \in Calls(p)', c.to = "EXEC" PROVE exec'[p] = None
      BY DEF ExecIsFreed
    <3>1. exec[p] = None \/ exec[p] = t
      BY <1>0, <1>8 DEF CallsKnownOf, ExecIsFreed
    <3>2. dst # "EXEC" BY <1>2, <1>8
    <3> QED BY <1>9, <3>1, <3>2
  <2>4. CloseWakes(p)'
    <3>0. CloseWakes(p) BY <1>0 DEF CallsKnownOf
    <3>1. ASSUME NEW c \in Calls(p)', ~c.wake, c.to = "READY", state'[c.tcb] = "BLOCKED"
          PROVE  \E u \in Thread : Closing(p, u)' /\ c.tcb \in Members(joined'[u])
      <4>1. c \in Calls(p) /\ state[c.tcb] = "BLOCKED" BY <1>6, <1>8, <1>10, <3>1
      <4>2. \E u \in Thread : Closing(p, u) /\ c.tcb \in Members(joined[u])
        BY <3>0, <3>1, <4>1 DEF CloseWakes
      <4> QED BY <1>1, <1>16, <4>2
    <3>2. ASSUME NEW u \in Thread, Closing(p, u)', NEW v \in Members(joined'[u]),
                 state'[v] = "BLOCKED"
          PROVE  \E c \in Calls(p)' : c.tcb = v /\ c.to = "READY"
      <4>1. Closing(p, u) /\ v \in Members(joined[u]) BY <1>1, <1>16, <3>2
      <4>2. v \in Thread
        BY <4>1 DEF WakerInv, WakerPart, OwnThreads, JoinedAreOwn, ThreadsOf
      <4>3. v # t
        <5> SUFFICES ASSUME dst = "BLOCKED" PROVE FALSE BY <1>6, <3>2
        <5>1. Calls(p)' = {} BY <1>2, <1>8
        <5> QED BY <3>2, <5>1 DEF Closing
      <4>4. state[v] = "BLOCKED" BY <1>6, <3>2, <4>2, <4>3
      <4>5. PICK c \in Calls(p) : c.tcb = v /\ c.to = "READY"
        BY <3>0, <4>1, <4>4 DEF CloseWakes
      <4> QED BY <1>8, <4>3, <4>5
    <3> QED BY <3>1, <3>2 DEF CloseWakes
  <2> QED BY <2>1, <2>2, <2>3, <2>4 DEF CallsKnownOf
<1>25. ClientKnownOf(p)'
  <2>1. pc[p] \notin {"mainwait", "none", "start", "notify", "crashed"}
    BY <1>0, <1>1 DEF MoverIsKnown, IdlePlace
  <2>2. cur[p] # None BY <1>0, <1>2, <1>3, <2>1 DEF ClientKnownOf, Serving, LegalMove
  <2>3. ASSUME pc[p] \in Serving, ~owes[p]
        PROVE  exec[p] = cur[p] /\ \A c \in Calls(p)' : c.wake \/ c.to = "EXEC"
    <3>1. /\ exec[p] = cur[p] \/ call = Move(cur[p], "EXEC")
          /\ \A c \in Calls(p) : c.wake \/ c.to = "EXEC"
      BY <1>0, <2>2, <2>3 DEF ClientKnownOf, Serving
    <3>2. ASSUME call = Move(cur[p], "EXEC") PROVE exec[p] = cur[p]
      <4>1. call.tcb = cur[p] /\ call.to = "EXEC" BY ONLY <3>2 DEF Move
      <4>2. t = cur[p] /\ dst = "EXEC" BY <4>1
      <4> QED BY <1>9, <4>2
    <3> QED BY <1>8, <3>1, <3>2
  <2>4. ASSUME pc[p] \in {"join", "joinmiss"}
        PROVE  \A c \in Calls(p)' : c.wake
    BY <1>0, <1>8, <2>4 DEF ClientKnownOf, Serving
  <2>5. ASSUME pc[p] = "reply"
        PROVE  (\E c \in Calls(p)' : c.to = "EXEC") \/ (exec[p] # None /\ todo'[p] = <<>>)
    <3>1. PICK c \in Calls(p) : c.to = "EXEC" BY <1>0, <1>1, <2>5 DEF ClientKnownOf, Serving
    <3>2. CASE c = call
      <4>1. t # None BY <1>2, TcbAssumption
      <4> QED BY <1>2, <1>7, <1>9, <3>1, <3>2, <4>1
    <3>3. CASE c # call BY <1>8, <3>1, <3>3
    <3> QED BY <3>2, <3>3
  <2>6. mainLoaded[p] BY <1>0, <2>1, <2>2 DEF ClientKnownOf, Serving
  <2> QED BY <1>1, <1>9, <2>1, <2>2, <2>3, <2>4, <2>5, <2>6 DEF ClientKnownOf, Serving
<1> QED BY <1>6, <1>11, <1>14, <1>15, <1>23, <1>24, <1>25
        DEF WakerPart, OwnThreads, AllCallsKnown, ClientKnown
-----------------------------------------------------------------------------
(* The induction. *)

LEMMA WakerInit == Init => WakerInv
<1> SUFFICES ASSUME Init PROVE WakerInv OBVIOUS
<1> USE DEF Init, TcbInit
<1>0. CreationInv BY CreationInit
<1>1. Members(<<>>) = {} /\ Distinct(<<>>) /\ CallsDiffer(<<>>) /\ CallsEnd(<<>>)
  BY MembersOfFew
<1>2. \A p \in Program : Calls(p) = {} BY <1>1 DEF Calls
<1>3. Moving = None BY MovingIsNone
<1>4. \A t \in Thread : Place(t) = "none" /\ t # None
  BY <1>3, TcbAssumption DEF Place
<1>5. \A t \in Thread : Owner[t] \in Program BY TcbAssumption
<1>6. ListsMatchPlace BY <1>1, <1>4, <1>5 DEF ListsMatchPlace
<1>7. OwnThreads BY <1>1, <1>2 DEF OwnThreads, JoinedAreOwn, OwnThreadsOf
<1>8. AllCallsKnown
  BY <1>1, <1>2 DEF AllCallsKnown, CallsKnownOf, ExecIsFreed, CloseWakes, Closing
<1>9. QueuesDistinct BY <1>1 DEF QueuesDistinct
<1>10. ASSUME NEW t \in Thread PROVE WaitsRight(t)
  <2>1. \A k \in Kind, x \in Waker : ~WaitsOn(t, k, x)
    BY <1>1, <1>2 DEF Kind, WaitsOn
  <2>2. ~Parked(t) BY <1>2, <1>5 DEF Parked, Blocking
  <2>3. \A s \in Sem : ~WaitsOn(t, "sem", s) BY <1>1 DEF WaitsOn
  <2> QED BY <2>1, <2>2, <2>3 DEF WaitsRight
<1>11. ClientKnown BY DEF ClientKnown, ClientKnownOf, Serving, ThreadsOf
<1>12. SlotToCome BY TcbAssumption DEF SlotToCome
<1> QED BY <1>0, <1>6, <1>7, <1>8, <1>9, <1>10, <1>11, <1>12
        DEF WakerInv, WakerPart, ThreadsWait

LEMMA WakerStep == WakerInv /\ [Next]_vars => WakerInv'
<1> SUFFICES ASSUME WakerInv, [Next]_vars PROVE WakerInv' OBVIOUS
<1>1. CreationInv' BY CreationStep DEF WakerInv
<1>2. ASSUME LongTerm PROVE WakerPart'
  BY <1>2, WakerElsewhere, WakerLtsMoveBegin, WakerLtsMoveEnd DEF LongTerm, WakerInv
<1>3. ASSUME NEW p \in Program, ShortTerm(p) PROVE WakerPart'
  BY <1>3, WakerMoveBegin, WakerMoveEnd, WakerPlain, WakerWakeupThreads, WakerMainLoaded,
     WakerSchedule, WakerNotify, WakerJoin, WakerJam, WakerLogMetrics DEF ShortTerm
<1>4. ASSUME NEW p \in Program, Request(p) PROVE WakerPart'
  BY <1>4, WakerCreate, WakerPlain, WakerWait, WakerSignal, WakerClose DEF Request
<1>5. ASSUME NEW p \in Program, Accept(p) PROVE WakerPart'
  BY <1>5, WakerPlain
<1>6. ASSUME Ending \/ Quit \/ UNCHANGED vars PROVE WakerPart'
  BY <1>6, WakerElsewhere DEF WakerInv
<1>7. WakerPart'
  BY <1>2, <1>3, <1>4, <1>5, <1>6 DEF Next
<1> QED BY <1>1, <1>7 DEF WakerInv

\* In every reachable state each parked thread waits for exactly one waker,
\* and the lists, the calls to make and the client agree with it.
THEOREM WakersCorrect == Spec => []WakerInv
<1> QED BY WakerInit, WakerStep, PTL DEF Spec

-----------------------------------------------------------------------------
(* What follows from the invariant. *)

\* Whenever a short-term scheduler calls move_tcb_to, the thread is still in
\* the state the handler chose it for, whatever the other schedulers did since.
THEOREM MovesHold == Spec => []NoRedundantMove
<1>1. ASSUME WakerInv, NEW p \in Program, todo[p] # <<>>
      PROVE  <<state[todo[p][1].tcb], todo[p][1].to>> \in LegalMove
  <2>1. todo[p] \in Seq(MoveCall)
    BY <1>1 DEF WakerInv, CreationInv, SlotInv, TypeInv, TypeOK
  <2>2. todo[p][1] \in Calls(p) BY <1>1, <2>1 DEF Calls, Members
  <2> QED BY <1>1, <2>2 DEF WakerInv, WakerPart, AllCallsKnown, CallsKnownOf, LegalCall
<1>2. WakerInv => NoRedundantMove BY <1>1 DEF NoRedundantMove
<1> QED BY <1>2, WakersCorrect, PTL

\* A client that asked after its last wait, join or close runs the thread that
\* is program->exec, also while suse_join searches: the handlers that use
\* program->exec without a test for NULL meet NULL only for a client that went
\* on without asking, for any programs, threads and semaphores.
THEOREM ExecsHold == Spec => []ExecIsWhatTheClientRuns
<1>1. ASSUME WakerInv, NEW p \in Program
      PROVE  /\ pc[p] \in {"recv", "join", "joinmiss"} /\ mainLoaded[p] /\ ~owes[p]
                    => cur[p] # None /\ exec[p] = cur[p]
             /\ pc[p] = "crashed" => owes[p]
  <2>0. /\ ClientKnownOf(p) /\ MoverIsKnown
        /\ (mainLoaded[p] => Admitted(Main[p]))
        /\ Main[p] \in ThreadsOf(p) /\ todo[p] \in Seq(MoveCall)
    BY <1>1, TcbAssumption DEF WakerInv, WakerPart, ClientKnown, CreationInv, SlotInv,
       Known, MainKnown, ThreadsOf, TypeInv, TypeOK
  <2>1. ASSUME pc[p] \in {"recv", "join", "joinmiss"}, mainLoaded[p], ~owes[p]
        PROVE  cur[p] # None /\ exec[p] = cur[p]
    <3>1. cur[p] # None
      BY <2>0, <2>1 DEF ClientKnownOf, Admitted, Active
    <3>2. exec[p] = cur[p] \/ (todo[p] # <<>> /\ todo[p][1] = Move(cur[p], "EXEC"))
      BY <2>0, <2>1, <3>1 DEF ClientKnownOf, Serving
    <3>3. ASSUME todo[p] # <<>> PROVE todo[p][1].wake
      <4>1. pc[p] # "recv" BY <2>0, <3>3 DEF MoverIsKnown, IdlePlace
      <4>2. todo[p][1] \in Calls(p) BY <2>0, <3>3 DEF Calls, Members
      <4> QED BY <2>0, <2>1, <4>1, <4>2 DEF ClientKnownOf
    <3>4. ~Move(cur[p], "EXEC").wake BY DEF Move
    <3> QED BY <3>1, <3>2, <3>3, <3>4
  <2>2. pc[p] = "crashed" => owes[p] BY <2>0 DEF ClientKnownOf
  <2> QED BY <2>1, <2>2
<1>2. WakerInv => ExecIsWhatTheClientRuns BY <1>1 DEF ExecIsWhatTheClientRuns
<1> QED BY <1>2, WakersCorrect, PTL

\* Only the long-term scheduler can sleep in move_tcb_to with no slot to
\* come, and only when every slot is held by an admitted thread.
THEOREM HangsHold == Spec => []OnlyLtsCanHang
<1>1. ASSUME WakerInv PROVE OnlyLtsCanHang
  <2>1. /\ SlotToCome /\ MoverIsKnown
        /\ available + degree + One(lpc = "post") = MaxMultiprog
        /\ available \in Nat /\ degree \in Int /\ MaxMultiprog \in Nat
    BY <1>1, TcbAssumption DEF WakerInv, WakerPart, CreationInv, SlotInv, SlotsAccounted,
       TypeInv, TypeOK, TcbTypeOK
  <2>2. listMutex \in Program /\ jammed = None => available > 0 \/ lpc = "post"
    BY <2>1 DEF SlotToCome, One
  <2>3. listMutex = Lts /\ available = 0 => degree = MaxMultiprog
    BY <2>1 DEF MoverIsKnown, One
  <2> QED BY <2>2, <2>3 DEF OnlyLtsCanHang
<1> QED BY <1>1, WakersCorrect, PTL

\* A list without repetition is as long as the set of its elements.
LEMMA DistinctLength ==
    ASSUME NEW S, NEW list \in Seq(S), Distinct(list)
    PROVE  IsFiniteSet(Members(list)) /\ Cardinality(Members(list)) = Len(list)
<1> DEFINE f == [i \in 1 .. Len(list) |-> list[i]]
<1>0. Len(list) \in Nat /\ DOMAIN list = 1 .. Len(list) OBVIOUS
<1>1. f \in Bijection(1 .. Len(list), Members(list))
  <2>1. f \in [1 .. Len(list) -> Members(list)] BY <1>0 DEF Members
  <2>2. \A i, j \in 1 .. Len(list) : f[i] = f[j] => i = j BY <1>0 DEF Distinct
  <2>3. \A x \in Members(list) : \E i \in 1 .. Len(list) : f[i] = x
    BY <1>0 DEF Members
  <2> HIDE DEF f
  <2> QED BY <2>1, <2>2, <2>3 DEF Bijection, Injection, Surjection, IsInjective
<1>2. ExistsBijection(1 .. Len(list), Members(list))
  BY <1>1 DEF ExistsBijection
<1> QED BY <1>0, <1>2, FS_NatBijection, FS_CountingElements

\* Between two calls of move_tcb_to every thread is on the list its state
\* names and on no other.
THEOREM ListsHold == Spec => []ListsMatchState
<1>1. ASSUME WakerInv, Moving = None PROVE ListsMatchState
  <2>0. /\ TcbTypeOK /\ ListsMatchPlace /\ NewListKnown
        /\ \A p \in Program : ready[p] \subseteq ThreadsOf(p)
    BY <1>1 DEF WakerInv, WakerPart, CreationInv, SlotInv, TypeInv, TypeOK,
       OwnThreads, OwnThreadsOf
  <2>1. \A t \in Thread : Place(t) = state[t]
    BY <1>1, TcbAssumption DEF Place
  <2>2. \A t \in Thread : t \in Members(newList) <=> state[t] = "NEW"
    BY <2>0, <2>1 DEF ListsMatchPlace
  <2>3. newList \in Seq(Thread) /\ Distinct(newList)
    BY <2>0 DEF TcbTypeOK, NewListKnown, Distinct
  <2>4. Members(newList) = {t \in Thread : state[t] = "NEW"}
    BY <2>2, <2>3, MembersType
  <2>5. Len(newList) = Cardinality({t \in Thread : state[t] = "NEW"})
    BY <2>3, <2>4, DistinctLength
  <2>6. \A t \in Thread : (\E i \in DOMAIN newList : newList[i] = t) <=> state[t] = "NEW"
    BY <2>2 DEF Members
  <2>7. \A p \in Program : ready[p] = {t \in ThreadsOf(p) : state[t] = "READY"}
    BY <2>0, <2>1 DEF ListsMatchPlace, ThreadsOf
  <2>8. /\ \A t \in Thread : exec[Owner[t]] = t <=> state[t] = "EXEC"
        /\ blockedList = {t \in Thread : state[t] = "BLOCKED"}
        /\ exitList = {t \in Thread : state[t] = "EXIT"}
    BY <2>0, <2>1 DEF ListsMatchPlace, TcbTypeOK
  <2> QED BY <2>5, <2>6, <2>7, <2>8 DEF ListsMatchState
<1>2. WakerInv => ListsMatchState BY <1>1 DEF ListsMatchState
<1> QED BY <1>2, WakersCorrect, PTL

\* The elements of Wakers(t), one disjunct per place a wake-up can be in.
LEMMA WakersAre ==
    ASSUME NEW t, NEW w
    PROVE  w \in Wakers(t) <=>
              \/ \E s \in Sem : \E i \in InQueue(semBlocked[s], t) : w = <<"sem", <<s, i>>>>
              \/ \E p \in Program : \E i \in InQueue(wakeupList[p], t) :
                    w = <<"wakeup", <<p, i>>>>
              \/ \E p \in Program : \E i \in PendingWakes(p) :
                    todo[p][i].tcb = t /\ w = <<"wake", <<p, i>>>>
              \/ \E p \in Program : pc[p] = "notify" /\ arg[p] = t /\ w = <<"notify", p>>
              \/ \E u \in Thread : \E i \in InQueue(joined[u], t) :
                    state[u] # "EXIT" /\ w = <<"join", <<u, i>>>>
<1> DEFINE A == UNION {{s} \X InQueue(semBlocked[s], t) : s \in Sem}
           B == UNION {{p} \X InQueue(wakeupList[p], t) : p \in Program}
           C == UNION {{p} \X {i \in PendingWakes(p) : todo[p][i].tcb = t} : p \in Program}
           D == {p \in Program : pc[p] = "notify" /\ arg[p] = t}
           E == UNION {{u} \X InQueue(joined[u], t) : u \in {v \in Thread : state[v] # "EXIT"}}
<1>1. \A x : x \in A <=> \E s \in Sem : \E i \in InQueue(semBlocked[s], t) : x = <<s, i>>
  OBVIOUS
<1>2. \A x : x \in B <=> \E p \in Program : \E i \in InQueue(wakeupList[p], t) : x = <<p, i>>
  OBVIOUS
<1>3. \A x : x \in C <=> \E p \in Program : \E i \in PendingWakes(p) :
                             todo[p][i].tcb = t /\ x = <<p, i>>
  OBVIOUS
<1>4. \A x : x \in E <=> \E u \in Thread : \E i \in InQueue(joined[u], t) :
                             state[u] # "EXIT" /\ x = <<u, i>>
  OBVIOUS
<1>5. w \in Wakers(t) <=> \/ \E x \in A : w = <<"sem", x>>
                          \/ \E x \in B : w = <<"wakeup", x>>
                          \/ \E x \in C : w = <<"wake", x>>
                          \/ \E x \in D : w = <<"notify", x>>
                          \/ \E x \in E : w = <<"join", x>>
  <2> HIDE DEF A, B, C, D, E
  <2>1. Wakers(t) = ({"sem"} \X A) \cup ({"wakeup"} \X B) \cup ({"wake"} \X C)
                    \cup ({"notify"} \X D) \cup ({"join"} \X E)
    BY DEF Wakers, A, B, C, D, E
  <2> QED BY <2>1
<1> HIDE DEF A, B, C, E
<1> QED BY <1>1, <1>2, <1>3, <1>4, <1>5

\* A blocked thread waits for exactly one thing: a semaphore's queue, a
\* wake-up on its way to it, or a thread that has not exited.  No wake-up is
\* lost and none comes twice, for any programs, threads and semaphores.
THEOREM BlockedHold == Spec => []BlockedHasOneWaker
<1>1. ASSUME WakerInv, NEW t \in Thread, state[t] = "BLOCKED"
      PROVE  Cardinality(Wakers(t)) = 1
  <2>0. /\ WaitsRight(t) /\ QueuesDistinct
        /\ \A p \in Program : CallsDiffer(todo[p])
    BY <1>1 DEF WakerInv, WakerPart, ThreadsWait, AllCallsKnown, CallsKnownOf
  <2>1. \A s \in Sem : \A i \in InQueue(semBlocked[s], t) : WaitsOn(t, "sem", s)
    BY DEF InQueue, WaitsOn, Members
  <2>2. \A p \in Program : \A i \in InQueue(wakeupList[p], t) : WaitsOn(t, "wakeup", p)
    BY DEF InQueue, WaitsOn, Members
  <2>3. \A p \in Program : \A i \in PendingWakes(p) :
            todo[p][i].tcb = t => WaitsOn(t, "wake", p)
    BY DEF PendingWakes, WaitsOn, Calls, Members
  <2>4. \A p \in Program : pc[p] = "notify" /\ arg[p] = t => WaitsOn(t, "notify", p)
    BY DEF WaitsOn
  <2>5. \A u \in Thread : \A i \in InQueue(joined[u], t) :
            state[u] # "EXIT" => WaitsOn(t, "join", u)
    BY DEF InQueue, WaitsOn, Members
  <2>6. \A k1, k2 \in Kind, x1, x2 \in Waker :
            WaitsOn(t, k1, x1) /\ WaitsOn(t, k2, x2) => k1 = k2 /\ x1 = x2
    BY <2>0 DEF WaitsRight
  <2>7. \A s \in Sem : \A i, j \in InQueue(semBlocked[s], t) : i = j
    BY <2>0 DEF QueuesDistinct, Distinct, InQueue
  <2>8. \A p \in Program : \A i, j \in InQueue(wakeupList[p], t) : i = j
    BY <2>0 DEF QueuesDistinct, Distinct, InQueue
  <2>9. \A p \in Program : \A i, j \in PendingWakes(p) :
            todo[p][i].tcb = t /\ todo[p][j].tcb = t => i = j
    BY <2>0 DEF CallsDiffer, PendingWakes
  <2>10. \A u \in Thread : \A i, j \in InQueue(joined[u], t) : i = j
    BY <2>0 DEF QueuesDistinct, Distinct, InQueue
  <2>11. /\ \A s \in Sem : s \in Waker
         /\ \A p \in Program : p \in Waker
         /\ \A u \in Thread : u \in Waker
         /\ {"sem", "notify", "wakeup", "wake", "join"} \subseteq Kind
    BY DEF Waker, Kind
  <2>12. ASSUME NEW v \in Wakers(t), NEW w \in Wakers(t) PROVE v = w
    <3> DEFINE
          Of(x, k, y) ==
            \/ k = "sem" /\ y \in Sem /\ \E i \in InQueue(semBlocked[y], t) : x = <<"sem", <<y, i>>>>
            \/ k = "wakeup" /\ y \in Program
               /\ \E i \in InQueue(wakeupList[y], t) : x = <<"wakeup", <<y, i>>>>
            \/ k = "wake" /\ y \in Program
               /\ \E i \in PendingWakes(y) : todo[y][i].tcb = t /\ x = <<"wake", <<y, i>>>>
            \/ k = "notify" /\ y \in Program /\ pc[y] = "notify" /\ arg[y] = t /\ x = <<"notify", y>>
            \/ k = "join" /\ y \in Thread
               /\ \E i \in InQueue(joined[y], t) : state[y] # "EXIT" /\ x = <<"join", <<y, i>>>>
    <3>1. ASSUME NEW x \in Wakers(t)
          PROVE  \E k \in Kind, y \in Waker : Of(x, k, y) /\ WaitsOn(t, k, y)
      <4>1. CASE \E s \in Sem : \E i \in InQueue(semBlocked[s], t) : x = <<"sem", <<s, i>>>>
        BY <2>1, <2>11, <4>1
      <4>2. CASE \E p \in Program : \E i \in InQueue(wakeupList[p], t) :
                    x = <<"wakeup", <<p, i>>>>
        BY <2>2, <2>11, <4>2
      <4>3. CASE \E p \in Program : \E i \in PendingWakes(p) :
                    todo[p][i].tcb = t /\ x = <<"wake", <<p, i>>>>
        BY <2>3, <2>11, <4>3
      <4>4. CASE \E p \in Program : pc[p] = "notify" /\ arg[p] = t /\ x = <<"notify", p>>
        BY <2>4, <2>11, <4>4
      <4>5. CASE \E u \in Thread : \E i \in InQueue(joined[u], t) :
                    state[u] # "EXIT" /\ x = <<"join", <<u, i>>>>
        BY <2>5, <2>11, <4>5
      <4> QED BY <3>1, <4>1, <4>2, <4>3, <4>4, <4>5, WakersAre
    <3>2. PICK k1 \in Kind, y1 \in Waker : Of(v, k1, y1) /\ WaitsOn(t, k1, y1)
      BY <3>1
    <3>3. PICK k2 \in Kind, y2 \in Waker : Of(w, k2, y2) /\ WaitsOn(t, k2, y2)
      BY <3>1
    <3>4. k1 = k2 /\ y1 = y2 BY <2>6, <3>2, <3>3
    <3>5. Of(v, k1, y1) /\ Of(w, k1, y1) BY <3>2, <3>3, <3>4
    <3> QED BY <2>7, <2>8, <2>9, <2>10, <3>5, SMTT(60)
  <2>13. \E w : w \in Wakers(t)
    <3>1. PICK k \in Kind, x \in Waker : WaitsOn(t, k, x)
      BY <1>1, <2>0 DEF WaitsRight, Parked
    <3>2. CASE k = "sem"
      <4>1. x \in Sem /\ \E i \in InQueue(semBlocked[x], t) : TRUE
        BY <3>1, <3>2 DEF WaitsOn, Members, InQueue
      <4> PICK i \in InQueue(semBlocked[x], t) : TRUE BY <4>1
      <4> PICK w : w = <<"sem", <<x, i>>>> OBVIOUS
      <4> QED BY <4>1, WakersAre
    <3>3. CASE k = "wakeup"
      <4>1. x \in Program /\ \E i \in InQueue(wakeupList[x], t) : TRUE
        BY <3>1, <3>3 DEF WaitsOn, Members, InQueue
      <4> PICK i \in InQueue(wakeupList[x], t) : TRUE BY <4>1
      <4> PICK w : w = <<"wakeup", <<x, i>>>> OBVIOUS
      <4> QED BY <4>1, WakersAre
    <3>4. CASE k = "wake"
      <4>1. x \in Program /\ \E i \in PendingWakes(x) : todo[x][i].tcb = t
        BY <3>1, <3>4 DEF WaitsOn, Calls, Members, PendingWakes
      <4> PICK i \in PendingWakes(x) : todo[x][i].tcb = t BY <4>1
      <4> PICK w : w = <<"wake", <<x, i>>>> OBVIOUS
      <4> QED BY <4>1, WakersAre
    <3>5. CASE k = "notify"
      <4>1. x \in Program /\ pc[x] = "notify" /\ arg[x] = t
        BY <3>1, <3>5 DEF WaitsOn
      <4> PICK w : w = <<"notify", x>> OBVIOUS
      <4> QED BY <4>1, WakersAre
    <3>6. CASE k = "join"
      <4>1. x \in Thread /\ state[x] # "EXIT" /\ \E i \in InQueue(joined[x], t) : TRUE
        BY <3>1, <3>6 DEF WaitsOn, Members, InQueue
      <4> PICK i \in InQueue(joined[x], t) : TRUE BY <4>1
      <4> PICK w : w = <<"join", <<x, i>>>> OBVIOUS
      <4> QED BY <4>1, WakersAre
    <3> QED BY <3>2, <3>3, <3>4, <3>5, <3>6 DEF Kind
  <2>14. \E w : Wakers(t) = {w}
    <3>1. PICK w : w \in Wakers(t) BY <2>13
    <3>2. \A v \in Wakers(t) : v = w BY <2>12, <3>1
    <3> QED BY <3>1, <3>2
  <2> QED BY <2>14, FS_Singleton
<1>2. WakerInv => BlockedHasOneWaker BY <1>1 DEF BlockedHasOneWaker
<1> QED BY <1>2, WakersCorrect, PTL

\* With room for every thread the long-term scheduler never sleeps on a slot
\* while it holds state_list_mutex, so no thread hangs the server.
THEOREM RoomIsEnough ==
    ASSUME Cardinality(Thread) <= MaxMultiprog
    PROVE  Spec => []LtsNeverHangs
<1>1. ASSUME WakerInv PROVE LtsNeverHangs
  <2> SUFFICES ASSUME lpc = "moving", available = 0 PROVE FALSE
    BY <1>1 DEF LtsNeverHangs, WakerInv, CreationInv, SlotInv, TypeInv, TypeOK, TcbTypeOK
  <2>1. /\ available + degree + One(lpc = "post") = MaxMultiprog
        /\ degree = Cardinality(Holders) /\ listMutex = Lts /\ jammed = None
        /\ current \in Thread
    <3>1. TypeInv /\ MoverIsKnown /\ SlotsAccounted
      BY <1>1 DEF WakerInv, CreationInv, SlotInv
    <3>2. listMutex = Lts /\ jammed = None
      BY <3>1, TcbAssumption DEF MoverIsKnown, TypeInv, TypeOK, TcbTypeOK
    <3>3. current \in Thread BY <3>1 DEF TypeInv, TypeOK, CurrentIsKept
    <3> QED BY <3>1, <3>2, <3>3 DEF SlotsAccounted, Holders
  <2>2. degree = MaxMultiprog
    BY <1>1, <2>1, TcbAssumption DEF One, WakerInv, CreationInv, SlotInv, TypeInv, TypeOK, TcbTypeOK
  <2>3. Moving = current BY <2>1, MovingByLts
  <2>4. current \notin Holders /\ Holders \subseteq Thread
    BY <2>3 DEF Holders, HoldsSlot
  <2>5. Cardinality(Holders) < Cardinality(Thread)
    <3>1. Holders # Thread BY <2>1, <2>4
    <3>2. Cardinality(Holders) <= Cardinality(Thread) /\
             (Cardinality(Holders) = Cardinality(Thread) => Holders = Thread)
      BY <2>4, TcbAssumption, FS_Subset
    <3>3. Cardinality(Holders) \in Nat /\ Cardinality(Thread) \in Nat
      BY <2>4, TcbAssumption, FS_Subset, FS_CardinalityType
    <3> QED BY <3>1, <3>2, <3>3
  <2>6. Cardinality(Holders) \in Nat /\ Cardinality(Thread) \in Nat
    BY <2>4, TcbAssumption, FS_Subset, FS_CardinalityType
  <2> QED BY <2>1, <2>2, <2>5, <2>6, TcbAssumption
<1> QED BY <1>1, WakersCorrect, PTL

-----------------------------------------------------------------------------
(* tcb_counter counts what is ready and the wake-ups to serve. *)

\* The calls of a list that serve a wake-up, and the calls that serve none.
PendingOf(list) == {i \in DOMAIN list : list[i].wake}
PlainCall == [tcb : Thread, to : Active \cup {"EXIT"}, wake : {FALSE}]

LEMMA PendingFinite ==
    ASSUME NEW list \in Seq(MoveCall)
    PROVE  IsFiniteSet(PendingOf(list)) /\ Cardinality(PendingOf(list)) \in Nat
<1>1. DOMAIN list = 1 .. Len(list) /\ Len(list) \in Nat OBVIOUS
<1>2. IsFiniteSet(1 .. Len(list)) BY <1>1, FS_Interval
<1>3. PendingOf(list) \in SUBSET (1 .. Len(list)) BY <1>1 DEF PendingOf
<1>4. IsFiniteSet(PendingOf(list)) BY <1>2, <1>3, FS_Subset
<1> QED BY <1>4, FS_CardinalityType

LEMMA PendingNone ==
    ASSUME NEW list \in Seq(PlainCall)
    PROVE  PendingOf(list) = {} /\ Cardinality(PendingOf(list)) = 0
<1>1. \A i \in DOMAIN list : list[i] \in PlainCall OBVIOUS
<1>2. PendingOf(list) = {} BY <1>1 DEF PendingOf, PlainCall
<1> QED BY <1>2, FS_EmptySet

\* The wake-ups left when the first call is made.
LEMMA PendingTail ==
    ASSUME NEW list \in Seq(MoveCall), list # <<>>
    PROVE  Cardinality(PendingOf(Tail(list)))
               = Cardinality(PendingOf(list)) - One(list[1].wake)
<1> DEFINE n == Len(list)
           rest == Tail(list)
<1>1. /\ n \in Nat /\ n # 0 /\ DOMAIN list = 1 .. n
      /\ rest \in Seq(MoveCall) /\ DOMAIN rest = 1 .. n - 1
      /\ \A i \in 1 .. n - 1 : rest[i] = list[i + 1]
      /\ list[1] \in MoveCall
  OBVIOUS
<1> HIDE DEF n, rest
<1> DEFINE f == [i \in PendingOf(rest) |-> i + 1]
<1>2. /\ \A i \in PendingOf(rest) : i \in 1 .. n - 1 /\ i + 1 \in PendingOf(list) \ {1}
      /\ \A j \in PendingOf(list) \ {1} : j - 1 \in PendingOf(rest) /\ (j - 1) + 1 = j
  <2>1. ASSUME NEW i \in PendingOf(rest)
        PROVE  i \in 1 .. n - 1 /\ i + 1 \in PendingOf(list) \ {1}
    BY <1>1 DEF PendingOf
  <2>2. ASSUME NEW j \in PendingOf(list) \ {1}
        PROVE  j - 1 \in PendingOf(rest) /\ (j - 1) + 1 = j
    <3>1. j \in 1 .. n /\ j # 1 /\ list[j].wake BY <1>1 DEF PendingOf
    <3>2. j - 1 \in 1 .. n - 1 /\ (j - 1) + 1 = j BY <1>1, <3>1
    <3>3. rest[j - 1] = list[j] BY <1>1, <3>2
    <3> QED BY <1>1, <3>1, <3>2, <3>3 DEF PendingOf
  <2> QED BY <2>1, <2>2
<1>3. f \in Bijection(PendingOf(rest), PendingOf(list) \ {1})
  <2>1. f \in [PendingOf(rest) -> PendingOf(list) \ {1}] BY <1>2
  <2>2. \A i, j \in PendingOf(rest) : f[i] = f[j] => i = j BY <1>2
  <2>3. \A j \in PendingOf(list) \ {1} : \E i \in PendingOf(rest) : f[i] = j
    <3> SUFFICES ASSUME NEW j \in PendingOf(list) \ {1}
                 PROVE  \E i \in PendingOf(rest) : f[i] = j
      OBVIOUS
    <3>1. j - 1 \in PendingOf(rest) /\ f[j - 1] = j BY <1>2
    <3> QED BY <3>1
  <2> HIDE DEF f
  <2> QED BY <2>1, <2>2, <2>3 DEF Bijection, Injection, Surjection, IsInjective
<1>4. ExistsBijection(PendingOf(rest), PendingOf(list) \ {1})
  <2> HIDE DEF f
  <2> QED BY <1>3 DEF ExistsBijection
<1>5. Cardinality(PendingOf(list) \ {1}) = Cardinality(PendingOf(rest))
  BY <1>1, <1>4, PendingFinite, FS_Bijection
<1>6. Cardinality(PendingOf(list) \ {1}) =
          IF 1 \in PendingOf(list) THEN Cardinality(PendingOf(list)) - 1
          ELSE Cardinality(PendingOf(list))
  BY PendingFinite, FS_RemoveElement
<1>7. 1 \in PendingOf(list) <=> list[1].wake
  BY <1>1 DEF PendingOf
<1>8. Cardinality(PendingOf(list)) \in Nat BY PendingFinite
<1>9. CASE list[1].wake BY <1>5, <1>6, <1>7, <1>8, <1>9 DEF One, rest
<1>10. CASE ~list[1].wake BY <1>5, <1>6, <1>7, <1>8, <1>10 DEF One, rest
<1> QED BY <1>9, <1>10

LEMMA PendingWakesOf ==
    ASSUME NEW list \in Seq(Thread)
    PROVE  LET calls == [i \in DOMAIN list |-> Wake(list[i])]
           IN  Cardinality(PendingOf(calls)) = Len(list)
<1> DEFINE calls == [i \in DOMAIN list |-> Wake(list[i])]
<1>1. DOMAIN list = 1 .. Len(list) /\ Len(list) \in Nat OBVIOUS
<1>2. PendingOf(calls) = 1 .. Len(list) BY <1>1 DEF PendingOf, Wake
<1> HIDE DEF calls
<1>3. Cardinality(PendingOf(calls)) = Len(list) BY <1>1, <1>2, FS_Interval, SMTT(60)
<1> QED BY <1>3 DEF calls

\* wakeup_threads() takes or leaves every wake-up.
LEMMA HalvesLength ==
    ASSUME NEW list \in Seq(Thread)
    PROVE  /\ Taken(list) \in Seq(Thread) /\ Left(list) \in Seq(Thread)
           /\ Len(Taken(list)) \in Nat /\ Len(Left(list)) \in Nat
           /\ Len(Taken(list)) + Len(Left(list)) = Len(list)
<1> DEFINE n == Len(list)
<1>1. n \in Nat OBVIOUS
<1>2. n \div 2 \in Nat /\ (n + 1) \div 2 \in Nat /\ (n + 1) \div 2 + n \div 2 = n
  BY <1>1
<1>3. Taken(list) \in Seq(Thread) /\ Left(list) \in Seq(Thread) BY HalvesType
<1>4. DOMAIN Taken(list) = 1 .. (n + 1) \div 2 /\ DOMAIN Left(list) = 1 .. n \div 2
  BY DEF Taken, Left
<1>5. Len(Taken(list)) = (n + 1) \div 2 /\ Len(Left(list)) = n \div 2
  BY <1>2, <1>3, <1>4
<1> QED BY <1>2, <1>3, <1>5

\* Only wakeup_threads() makes calls that serve a wake-up.
LEMMA PlainCalls ==
    ASSUME TypeOK
    PROVE  /\ \A t \in Thread, dst \in Active \cup {"EXIT"} : <<Move(t, dst)>> \in Seq(PlainCall)
           /\ \A t \in Thread : close_calls(t) \in Seq(PlainCall)
           /\ \A p \in Program, t \in Thread : change_exec(p, t) \in Seq(PlainCall)
<1>1. \A t \in Thread, dst \in Active \cup {"EXIT"} : Move(t, dst) \in PlainCall
  BY DEF Move, PlainCall
<1>2. ASSUME NEW t \in Thread PROVE close_calls(t) \in Seq(PlainCall)
  <2> DEFINE list == joined[t]
  <2>1. list \in Seq(Thread) BY DEF TypeOK
  <2>2. DOMAIN list = 1 .. Len(list) /\ Len(list) \in Nat BY <2>1
  <2>3. \A i \in 1 .. Len(list) : list[i] \in Thread BY <2>1
  <2>4. [i \in DOMAIN list |-> Move(list[i], "READY")] \in Seq(PlainCall)
    BY <1>1, <2>2, <2>3 DEF Active
  <2>5. <<Move(t, "EXIT")>> \in Seq(PlainCall) BY <1>1
  <2> QED BY <2>4, <2>5 DEF close_calls
<1>3. ASSUME NEW p \in Program, NEW t \in Thread PROVE change_exec(p, t) \in Seq(PlainCall)
  <2>1. exec[p] # None => Move(exec[p], "READY") \in PlainCall
    BY <1>1 DEF TypeOK, TcbTypeOK, Active
  <2>2. Move(t, "EXEC") \in PlainCall BY <1>1 DEF Active
  <2> QED BY <2>1, <2>2 DEF change_exec
<1> QED BY <1>1, <1>2, <1>3

\* What tcb_counter has to be.
CountIs(p) ==
    tcbCounter[p] = Cardinality(ready[p]) + Len(wakeupList[p]) + Cardinality(PendingOf(todo[p]))

LEMMA CountersAre ==
    /\ CounterMatches <=> \A p \in Program : CountIs(p)
    /\ CounterMatches' <=> \A p \in Program : CountIs(p)'
BY DEF CounterMatches, CountIs, PendingWakes, PendingOf

LEMMA CountTypes ==
    ASSUME TypeOK, NEW p \in Program
    PROVE  /\ tcbCounter[p] \in Nat
           /\ IsFiniteSet(ready[p]) /\ Cardinality(ready[p]) \in Nat
           /\ wakeupList[p] \in Seq(Thread) /\ Len(wakeupList[p]) \in Nat
           /\ todo[p] \in Seq(MoveCall) /\ Cardinality(PendingOf(todo[p])) \in Nat
<1>1. /\ tcbCounter[p] \in Nat /\ ready[p] \in SUBSET Thread
      /\ wakeupList[p] \in Seq(Thread) /\ todo[p] \in Seq(MoveCall)
  BY DEF TypeOK, TcbTypeOK
<1>2. IsFiniteSet(ready[p]) BY <1>1, TcbAssumption, FS_Subset
<1>3. Len(wakeupList[p]) \in Nat BY <1>1
<1> QED BY <1>1, <1>2, <1>3, FS_CardinalityType, PendingFinite

\* The counter and the ready set move together.
LEMMA CountMoved ==
    ASSUME WakerInv, NEW self \in Scheduler, NEW t \in Thread,
           NEW dst \in Active \cup {"EXIT"}, MoveBegin(self, t, dst), listMutex = None,
           NEW p \in Program
    PROVE  /\ IsFiniteSet(ready'[p]) /\ Cardinality(ready'[p]) \in Nat
           /\ tcbCounter'[p] - Cardinality(ready'[p]) = tcbCounter[p] - Cardinality(ready[p])
<1> PICK old : old = ready[p] OBVIOUS
<1> PICK new : new = ready'[p] OBVIOUS
<1> PICK from \in State : from = state[t]
  BY DEF WakerInv, CreationInv, SlotInv, TypeInv, TypeOK, TcbTypeOK
<1>0. TypeOK /\ TcbTypeOK /\ ListsMatchPlace
  BY DEF WakerInv, WakerPart, CreationInv, SlotInv, TypeInv, TypeOK
<1>1. /\ listMutex = None /\ from # dst
      /\ ready' = [ready EXCEPT ![Owner[t]] =
             (@ \ Only(from = "READY", t)) \cup Only(dst = "READY", t)]
      /\ tcbCounter' = [tcbCounter EXCEPT ![Owner[t]] =
             @ - One(from = "READY") + One(dst = "READY")]
  BY DEF MoveBegin, program_remove_and_add, count_after
<1>2. t \in ready[Owner[t]] <=> from = "READY"
  BY <1>0, <1>1, MovingIsNone, TcbAssumption DEF ListsMatchPlace, Place
<1>3. IsFiniteSet(old) /\ Cardinality(old) \in Nat /\ tcbCounter[p] \in Nat
  BY <1>0, CountTypes
<1>4. CASE p = Owner[t]
  <2>1. /\ new = (old \ Only(from = "READY", t)) \cup Only(dst = "READY", t)
        /\ tcbCounter'[p] = tcbCounter[p] - One(from = "READY") + One(dst = "READY")
    BY <1>0, <1>1, <1>4 DEF TcbTypeOK
  <2>2. CASE from = "READY"
    <3>1. new = old \ {t} /\ tcbCounter'[p] = tcbCounter[p] - 1
      BY <1>1, <1>3, <2>1, <2>2 DEF Only, One
    <3>2. t \in old BY <1>2, <1>4, <2>2
    <3>3. IsFiniteSet(new) /\ Cardinality(new) = Cardinality(old) - 1
      BY <1>3, <3>1, <3>2, FS_RemoveElement
    <3> QED BY <1>3, <3>1, <3>3, FS_CardinalityType
  <2>3. CASE from # "READY" /\ dst = "READY"
    <3>1. new = old \cup {t} /\ tcbCounter'[p] = tcbCounter[p] + 1
      BY <1>3, <2>1, <2>3 DEF Only, One
    <3>2. t \notin old BY <1>2, <1>4, <2>3
    <3>3. IsFiniteSet(new) /\ Cardinality(new) = Cardinality(old) + 1
      <4>1. /\ IsFiniteSet(old \cup {t})
            /\ Cardinality(old \cup {t}) =
                   IF t \in old THEN Cardinality(old) ELSE Cardinality(old) + 1
        BY <1>3, FS_AddElement
      <4> QED BY <3>1, <3>2, <4>1
    <3> QED BY <1>3, <3>1, <3>3, FS_CardinalityType
  <2>4. CASE from # "READY" /\ dst # "READY"
    <3>1. new = old /\ tcbCounter'[p] = tcbCounter[p]
      BY <1>3, <2>1, <2>4 DEF Only, One
    <3> QED BY <1>3, <3>1
  <2> QED BY <2>2, <2>3, <2>4
<1>5. CASE p # Owner[t]
  <2>1. new = old /\ tcbCounter'[p] = tcbCounter[p]
    BY <1>0, <1>1, <1>5 DEF TcbTypeOK
  <2> QED BY <1>3, <2>1
<1> QED BY <1>4, <1>5

LEMMA CountKept ==
    ASSUME TypeOK, CounterMatches, UNCHANGED <<tcbCounter, ready, wakeupList>>,
           \A q \in Program : Cardinality(PendingOf(todo'[q])) = Cardinality(PendingOf(todo[q]))
    PROVE  CounterMatches'
<1>1. \A q \in Program : CountIs(q) BY CountersAre
<1>2. \A q \in Program : CountIs(q)' BY <1>1 DEF CountIs
<1> QED BY <1>2, CountersAre

LEMMA CountReplaced ==
    ASSUME TypeOK, CounterMatches, UNCHANGED <<tcbCounter, ready, wakeupList>>,
           NEW p \in Program, NEW list \in Seq(PlainCall),
           todo[p] = <<>>, todo' = [todo EXCEPT ![p] = list]
    PROVE  CounterMatches'
<1>1. /\ todo'[p] = list
      /\ \A q \in Program \ {p} : todo'[q] = todo[q]
  BY DEF TypeOK
<1>2. Cardinality(PendingOf(list)) = 0 /\ Cardinality(PendingOf(<<>>)) = 0
  <2>1. <<>> \in Seq(PlainCall) OBVIOUS
  <2> QED BY <2>1, PendingNone
<1>3. \A q \in Program : Cardinality(PendingOf(todo'[q])) = Cardinality(PendingOf(todo[q]))
  BY <1>1, <1>2
<1> QED BY <1>3, CountKept

LEMMA CountByMove ==
    ASSUME WakerInv, CounterMatches, NEW self \in Scheduler, NEW t \in Thread,
           NEW dst \in Active \cup {"EXIT"}, MoveBegin(self, t, dst), listMutex = None,
           UNCHANGED wakeupList,
           \A q \in Program : Cardinality(PendingOf(todo'[q])) = Cardinality(PendingOf(todo[q]))
    PROVE  CounterMatches'
<1>0. TypeOK BY DEF WakerInv, CreationInv, SlotInv, TypeInv
<1>1. ASSUME NEW q \in Program PROVE CountIs(q)'
  <2>1. CountIs(q) BY CountersAre
  <2>2. /\ Cardinality(ready'[q]) \in Nat
        /\ tcbCounter'[q] - Cardinality(ready'[q]) = tcbCounter[q] - Cardinality(ready[q])
    BY CountMoved
  <2>3. tcbCounter'[q] \in Nat
    <3>1. TcbTypeOK' BY <1>0, MoveBeginType DEF TypeOK
    <3> QED BY <3>1 DEF TcbTypeOK
  <2>4. /\ tcbCounter[q] \in Nat /\ Cardinality(ready[q]) \in Nat
        /\ Len(wakeupList[q]) \in Nat /\ Cardinality(PendingOf(todo[q])) \in Nat
    BY <1>0, CountTypes
  <2>5. Cardinality(PendingOf(todo'[q])) = Cardinality(PendingOf(todo[q]))
    OBVIOUS
  <2>6. wakeupList'[q] = wakeupList[q] OBVIOUS
  <2>7. tcbCounter[q] = Cardinality(ready[q])
                + (Len(wakeupList[q]) + Cardinality(PendingOf(todo[q])))
    BY <2>1, <2>4 DEF CountIs
  <2>8. tcbCounter'[q] = Cardinality(ready'[q])
                + (Len(wakeupList[q]) + Cardinality(PendingOf(todo[q])))
    BY <2>2, <2>3, <2>4, <2>7, SMTT(60)
  <2> QED BY <2>2, <2>4, <2>5, <2>6, <2>8 DEF CountIs
<1> QED BY <1>1, CountersAre

LEMMA CountMoveBegin ==
    ASSUME WakerInv, CounterMatches, NEW p \in Program, StMoveBegin(p)
    PROVE  CounterMatches'
<1> PICK list : list = todo[p] OBVIOUS
<1> PICK call : call = list[1] OBVIOUS
<1> PICK t : t = call.tcb OBVIOUS
<1> PICK dst : dst = call.to OBVIOUS
<1>0. TypeOK /\ MoverIsKnown BY DEF WakerInv, CreationInv, SlotInv, TypeInv
<1>m. listMutex = None BY <1>0, LocksWhenFree DEF StMoveBegin, MoveBegin
<1>1. /\ list # <<>> /\ MoveBegin(p, t, dst) /\ UNCHANGED wakeupList
      /\ todo' = [todo EXCEPT ![p] = IF dst = "EXIT" THEN Tail(list) ELSE list]
      /\ p \in Scheduler
  BY DEF StMoveBegin, Scheduler
<1>2. /\ t \in Thread /\ dst \in Active \cup {"EXIT"} /\ LegalCall(call)
      /\ list \in Seq(MoveCall)
  BY <1>0, <1>1, HeadCall DEF TypeOK
<1>3. /\ todo'[p] = IF dst = "EXIT" THEN Tail(list) ELSE list
      /\ \A q \in Program \ {p} : todo'[q] = todo[q]
  BY <1>0, <1>1 DEF TypeOK
<1>4. Cardinality(PendingOf(todo'[p])) = Cardinality(PendingOf(list))
  <2>1. CASE dst = "EXIT"
    <3>1. ~call.wake BY <1>2, <2>1 DEF LegalCall
    <3>2. Cardinality(PendingOf(Tail(list)))
              = Cardinality(PendingOf(list)) - One(list[1].wake)
      BY <1>1, <1>2, PendingTail
    <3>3. Cardinality(PendingOf(list)) \in Nat BY <1>2, PendingFinite
    <3> QED BY <1>3, <2>1, <3>1, <3>2, <3>3 DEF One
  <2>2. CASE dst # "EXIT" BY <1>3, <2>2
  <2> QED BY <2>1, <2>2
<1>5. \A q \in Program : Cardinality(PendingOf(todo'[q])) = Cardinality(PendingOf(todo[q]))
  BY <1>3, <1>4
<1> QED BY <1>m, <1>1, <1>2, <1>5, CountByMove

LEMMA CountMoveEnd ==
    ASSUME WakerInv, CounterMatches, NEW p \in Program, StMoveEnd(p)
    PROVE  CounterMatches'
<1> PICK list : list = todo[p] OBVIOUS
<1>0. TypeOK BY DEF WakerInv, CreationInv, SlotInv, TypeInv
<1>1. /\ list # <<>> /\ todo' = [todo EXCEPT ![p] = Tail(list)]
      /\ UNCHANGED <<wakeupList, ready>>
      /\ tcbCounter' = IF list[1].wake THEN [tcbCounter EXCEPT ![p] = @ - 1] ELSE tcbCounter
  BY DEF StMoveEnd, MoveEnd, listVars
<1>2. list \in Seq(MoveCall) BY <1>0 DEF TypeOK
<1>3. todo'[p] = Tail(list) /\ \A q \in Program \ {p} : todo'[q] = todo[q]
  BY <1>0, <1>1 DEF TypeOK
<1>4. Cardinality(PendingOf(Tail(list))) = Cardinality(PendingOf(list)) - One(list[1].wake)
  BY <1>1, <1>2, PendingTail
<1>5. /\ tcbCounter'[p] = tcbCounter[p] - One(list[1].wake)
      /\ \A q \in Program \ {p} : tcbCounter'[q] = tcbCounter[q]
  <2>1. tcbCounter \in [Program -> Nat] BY <1>0 DEF TypeOK, TcbTypeOK
  <2>2. CASE list[1].wake BY <1>1, <2>1, <2>2 DEF One
  <2>3. CASE ~list[1].wake BY <1>1, <2>1, <2>3 DEF One
  <2> QED BY <2>2, <2>3
<1>6. ASSUME NEW q \in Program PROVE CountIs(q)'
  <2>1. CountIs(q) BY CountersAre
  <2>2. /\ tcbCounter[q] \in Nat /\ Cardinality(ready[q]) \in Nat
        /\ Len(wakeupList[q]) \in Nat /\ Cardinality(PendingOf(todo[q])) \in Nat
    BY <1>0, CountTypes
  <2>3. CASE q = p
    <3>1. One(list[1].wake) \in Int BY DEF One
    <3>2. Cardinality(PendingOf(todo'[q])) = Cardinality(PendingOf(todo[q])) - One(list[1].wake)
      BY <1>3, <1>4, <2>3
    <3>3. tcbCounter'[q] = tcbCounter[q] - One(list[1].wake) BY <1>5, <2>3
    <3> QED BY <1>1, <2>1, <2>2, <3>1, <3>2, <3>3 DEF CountIs
  <2>4. CASE q # p BY <1>1, <1>3, <1>5, <2>1, <2>4 DEF CountIs
  <2> QED BY <2>3, <2>4
<1> QED BY <1>6, CountersAre

LEMMA CountWakeupThreads ==
    ASSUME WakerInv, CounterMatches, NEW p \in Program, StWakeupThreads(p)
    PROVE  CounterMatches'
<1> PICK list : list = wakeupList[p] OBVIOUS
<1> PICK taken : taken = Taken(list) OBVIOUS
<1> PICK calls : calls = [i \in DOMAIN taken |-> Wake(taken[i])] OBVIOUS
<1>0. TypeOK BY DEF WakerInv, CreationInv, SlotInv, TypeInv
<1>1. /\ todo[p] = <<>> /\ todo' = [todo EXCEPT ![p] = calls]
      /\ wakeupList' = [wakeupList EXCEPT ![p] = Left(list)]
      /\ UNCHANGED <<tcbCounter, ready>>
  BY DEF StWakeupThreads, tcbVars, listVars
<1>2. /\ list \in Seq(Thread) /\ taken \in Seq(Thread)
      /\ Len(taken) \in Nat /\ Len(Left(list)) \in Nat /\ Len(taken) + Len(Left(list)) = Len(list)
  <2>1. list \in Seq(Thread) BY <1>0 DEF TypeOK
  <2> QED BY <2>1, HalvesLength
<1>3. /\ todo'[p] = calls /\ wakeupList'[p] = Left(list)
      /\ \A q \in Program \ {p} : todo'[q] = todo[q] /\ wakeupList'[q] = wakeupList[q]
  BY <1>0, <1>1 DEF TypeOK
<1>4. Cardinality(PendingOf(calls)) = Len(taken)
  BY <1>2, PendingWakesOf
<1>5. Cardinality(PendingOf(todo[p])) = 0
  <2>1. <<>> \in Seq(PlainCall) OBVIOUS
  <2> QED BY <1>1, <2>1, PendingNone
<1>6. ASSUME NEW q \in Program PROVE CountIs(q)'
  <2>1. CountIs(q) BY CountersAre
  <2>2. tcbCounter[q] \in Nat /\ Cardinality(ready[q]) \in Nat BY <1>0, CountTypes
  <2>3. CASE q = p
    <3>1. tcbCounter[q] = Cardinality(ready[q]) + Len(list) + 0
      BY <1>5, <2>1, <2>3 DEF CountIs
    <3>2. tcbCounter[q] = Cardinality(ready[q]) + Len(Left(list)) + Len(taken)
      BY <1>2, <2>2, <3>1
    <3> QED BY <1>1, <1>3, <1>4, <2>3, <3>2 DEF CountIs
  <2>4. CASE q # p BY <1>1, <1>3, <2>1, <2>4 DEF CountIs
  <2> QED BY <2>3, <2>4
<1> QED BY <1>6, CountersAre

LEMMA CountNotify ==
    ASSUME WakerInv, CounterMatches, NEW p \in Program, StNotifyWakeup(p)
    PROVE  CounterMatches'
<1> PICK t : t = arg[p] OBVIOUS
<1>0. TypeOK /\ ArgIsKept BY DEF WakerInv, CreationInv, SlotInv, TypeInv
<1>1. t \in Thread
  BY <1>0 DEF StNotifyWakeup, ArgIsKept, TypeOK
<1> PICK target \in Program : target = Owner[t] BY <1>1, TcbAssumption
<1>2. /\ wakeupList' = [wakeupList EXCEPT ![target] = Append(@, t)]
      /\ tcbCounter' = [tcbCounter EXCEPT ![target] = @ + 1]
      /\ UNCHANGED <<todo, ready>>
  BY DEF StNotifyWakeup, sem_post_tcb_counter, listVars
<1>3. /\ wakeupList'[target] = Append(wakeupList[target], t)
      /\ tcbCounter'[target] = tcbCounter[target] + 1
      /\ \A q \in Program \ {target} : /\ wakeupList'[q] = wakeupList[q]
                                       /\ tcbCounter'[q] = tcbCounter[q]
  BY <1>0, <1>2, SMTT(60) DEF TypeOK, TcbTypeOK
<1>4. wakeupList[target] \in Seq(Thread) BY <1>0 DEF TypeOK
<1>5. Len(wakeupList'[target]) = Len(wakeupList[target]) + 1 BY <1>1, <1>3, <1>4
<1>6. ASSUME NEW q \in Program PROVE CountIs(q)'
  <2>1. CountIs(q) BY CountersAre
  <2>2. /\ tcbCounter[q] \in Nat /\ Cardinality(ready[q]) \in Nat
        /\ Len(wakeupList[q]) \in Nat /\ Cardinality(PendingOf(todo[q])) \in Nat
    BY <1>0, CountTypes
  <2>3. CASE q = target
    <3>1. ready'[q] = ready[q] /\ todo'[q] = todo[q] BY <1>2
    <3>2. tcbCounter'[q] = tcbCounter[q] + 1 /\ Len(wakeupList'[q]) = Len(wakeupList[q]) + 1
      BY <1>3, <1>5, <2>3
    <3> QED BY <2>1, <2>2, <3>1, <3>2 DEF CountIs
  <2>4. CASE q # target BY <1>2, <1>3, <2>1, <2>4 DEF CountIs
  <2> QED BY <2>3, <2>4
<1> QED BY <1>6, CountersAre

LEMMA CountHandlers ==
    ASSUME WakerInv, CounterMatches, NEW p \in Program,
           StMainLoaded(p) \/ StSchedule(p) \/ StJoin(p) \/ StWait(p) \/ StClose(p)
    PROVE  CounterMatches'
<1>0. TypeOK /\ MoverIsKnown BY DEF WakerInv, CreationInv, SlotInv, TypeInv
<1>1. UNCHANGED <<tcbCounter, ready, wakeupList>>
  BY DEF StMainLoaded, StSchedule, StJoin, StWait, StClose, tcbVars, listVars
<1>2. todo[p] = <<>>
  BY <1>0 DEF StMainLoaded, StSchedule, StJoin, StWait, StClose, Running, MoverIsKnown, IdlePlace
<1>3. ASSUME exec[p] # None
      PROVE  /\ exec[p] \in Thread
             /\ <<Move(exec[p], "BLOCKED")>> \in Seq(PlainCall)
             /\ close_calls(exec[p]) \in Seq(PlainCall)
  BY <1>0, <1>3, PlainCalls DEF TypeOK, TcbTypeOK, Active
<1>4. \/ UNCHANGED todo
      \/ \E list \in Seq(PlainCall) : todo' = [todo EXCEPT ![p] = list]
  <2>1. CASE StMainLoaded(p)
    <3>1. <<Move(Main[p], "EXEC")>> \in Seq(PlainCall)
      BY <1>0, PlainCalls, TcbAssumption DEF Active
    <3> QED BY <2>1, <3>1 DEF StMainLoaded
  <2>2. CASE StSchedule(p)
    <3>1. \A t \in ready[p] : change_exec(p, t) \in Seq(PlainCall)
      BY <1>0, PlainCalls DEF TypeOK, TcbTypeOK
    <3> QED BY <2>2, <3>1 DEF StSchedule
  <2>3. CASE StJoin(p) BY <1>3, <2>3 DEF StJoin
  <2>4. CASE StWait(p)
    <3>1. exec[p] # None BY <2>4 DEF StWait, Running
    <3>2. \/ todo' = todo \/ todo' = [todo EXCEPT ![p] = <<Move(exec[p], "BLOCKED")>>]
      BY <2>4 DEF StWait
    <3> QED BY <1>3, <3>1, <3>2
  <2>5. CASE StClose(p) BY <1>3, <2>5 DEF StClose, Running
  <2> QED BY <2>1, <2>2, <2>3, <2>4, <2>5
<1>5. CASE UNCHANGED todo BY <1>0, <1>1, <1>5, CountKept
<1>6. CASE \E list \in Seq(PlainCall) : todo' = [todo EXCEPT ![p] = list]
  BY <1>0, <1>1, <1>2, <1>6, CountReplaced
<1> QED BY <1>4, <1>5, <1>6

LEMMA CountElsewhere ==
    ASSUME WakerInv, CounterMatches, UNCHANGED <<tcbCounter, ready, wakeupList, todo>>
    PROVE  CounterMatches'
BY CountKept DEF WakerInv, CreationInv, SlotInv, TypeInv

LEMMA CountStep ==
    ASSUME WakerInv, CounterMatches, [Next]_vars
    PROVE  CounterMatches'
<1> USE DEF tcbVars, ltsVars, semVars, clientVars, consoleVars, listVars
<1>1. ASSUME LongTerm PROVE CounterMatches'
  <2>1. CASE LtsMoveBegin
    <3>1. current \in Thread
      BY <2>1 DEF LtsMoveBegin, WakerInv, CreationInv, SlotInv, TypeInv, TypeOK, CurrentIsKept
    <3>2. listMutex = None
      BY <2>1, LtsLocksWhenFree DEF LtsMoveBegin, MoveBegin, WakerInv, CreationInv, SlotInv
    <3> QED BY <2>1, <3>1, <3>2, CountByMove DEF LtsMoveBegin, Scheduler, Active
  <2>2. CASE LtsTake \/ LtsStop \/ LtsCheckWait \/ LtsCheckPost \/ LtsMoveEnd \/ LtsSignalMain
    BY <2>2, CountElsewhere
       DEF LtsTake, LtsStop, LtsCheckWait, LtsCheckPost, LtsMoveEnd, LtsSignalMain, MoveEnd
  <2> QED BY <1>1, <2>1, <2>2 DEF LongTerm
<1>2. ASSUME NEW p \in Program, ShortTerm(p) PROVE CounterMatches'
  <2>1. CASE StStart(p) \/ StLoopTest(p) \/ StUnpark(p) \/ StReply(p) \/ StJam(p)
             \/ StLogMetrics(p)
    BY <2>1, CountElsewhere DEF StStart, StLoopTest, StUnpark, StReply, StJam, StLogMetrics
  <2> QED BY <1>2, <2>1, CountMoveBegin, CountMoveEnd, CountWakeupThreads, CountNotify,
             CountHandlers DEF ShortTerm
<1>3. ASSUME NEW p \in Program, Request(p) PROVE CounterMatches'
  <2>1. CASE \/ StCreateMain(p) \/ StCreate(p) \/ StAskNext(p) \/ StReject(p)
             \/ StSignal(p) \/ StAskJoin(p) \/ StDisconnect(p) \/ StCrash(p)
    BY <2>1, CountElsewhere DEF StCrash, StCreateMain, StCreate, StAskNext, StReject, StSignal,
       StAskJoin, StDisconnect, create_tcb
  <2> QED BY <1>3, <2>1, CountHandlers DEF Request
<1>4. ASSUME NEW p \in Program, Accept(p) PROVE CounterMatches'
  BY <1>4, CountElsewhere DEF Accept
<1>5. ASSUME Ending \/ Quit \/ UNCHANGED vars PROVE CounterMatches'
  BY <1>5, CountElsewhere DEF Ending, ListenerEnd, ShutdownSocket, JoinListener,
     JoinLongTerm, JoinPrograms, Quit, vars
<1> QED BY <1>1, <1>2, <1>3, <1>4, <1>5 DEF Next

\* tcb_counter counts the program's ready threads and the wake-ups it has not
\* served: wait_for_threads sleeps exactly when there is nothing to run, and
\* never on a wake-up that already came.
THEOREM CountersHold == Spec => []CounterMatches
<1>1. Init => CounterMatches
  <2> SUFFICES ASSUME Init, NEW p \in Program PROVE CountIs(p)
    BY CountersAre
  <2>1. tcbCounter[p] = 0 /\ ready[p] = {} /\ wakeupList[p] = <<>> /\ todo[p] = <<>>
    BY DEF Init, TcbInit
  <2>2. <<>> \in Seq(PlainCall) OBVIOUS
  <2>3. Cardinality(PendingOf(<<>>)) = 0 BY <2>2, PendingNone
  <2> QED BY <2>1, <2>3, FS_EmptySet DEF CountIs
<1>2. WakerInv /\ CounterMatches /\ [Next]_vars => CounterMatches' BY CountStep
<1> QED BY <1>1, <1>2, WakersCorrect, PTL DEF Spec

\* Nobody sleeps on work: a scheduler is not left waiting on tcb_counter with a
\* thread to run or a wake-up to serve, nor the long-term one on new_counter
\* with a NEW thread.
NobodySleepsOnWork ==
    /\ \A p \in Program :
          pc[p] = "park" /\ (ready[p] # {} \/ wakeupList[p] # <<>> \/ PendingWakes(p) # {})
              => tcbCounter[p] > 0
    /\ lpc = "wait" /\ newList # <<>> => newCounter > 0

\* No wake-up is lost between the look at a list and the sleep, at which no
\* mutex is held: the semaphores have a post for all that is left to do.  What
\* is left of SchedulingIsAnswered and EveryThreadIsAdmitted is fairness.
THEOREM WorkIsNoticed == Spec => []NobodySleepsOnWork
<1>1. ASSUME WakerInv, CounterMatches, NEW p \in Program,
             ready[p] # {} \/ wakeupList[p] # <<>> \/ PendingWakes(p) # {}
      PROVE  tcbCounter[p] > 0
  <2>1. /\ wakeupList[p] \in Seq(Thread) /\ todo[p] \in Seq(MoveCall)
        /\ ready[p] \in SUBSET Thread
    BY <1>1 DEF WakerInv, CreationInv, SlotInv, TypeInv, TypeOK, TcbTypeOK
  <2>2. IsFiniteSet(ready[p]) BY <2>1, TcbAssumption, FS_Subset
  <2>3. IsFiniteSet(PendingWakes(p))
    <3>1. DOMAIN todo[p] = 1 .. Len(todo[p]) /\ Len(todo[p]) \in Nat
      BY <2>1, LenProperties
    <3>2. IsFiniteSet(DOMAIN todo[p]) BY <3>1, FS_Interval
    <3> QED BY <3>2, FS_Subset DEF PendingWakes
  <2>4. /\ Cardinality(ready[p]) \in Nat /\ Cardinality(PendingWakes(p)) \in Nat
        /\ Cardinality(ready[p]) = 0 <=> ready[p] = {}
        /\ Cardinality(PendingWakes(p)) = 0 <=> PendingWakes(p) = {}
    BY <2>2, <2>3, FS_EmptySet, FS_CardinalityType
  <2>5. Len(wakeupList[p]) \in Nat /\ (Len(wakeupList[p]) = 0 <=> wakeupList[p] = <<>>)
    BY <2>1, LenProperties, EmptySeq
  <2>6. tcbCounter[p] = Cardinality(ready[p]) + Len(wakeupList[p])
                            + Cardinality(PendingWakes(p))
    BY <1>1 DEF CounterMatches
  <2> QED BY <1>1, <2>4, <2>5, <2>6
<1>2. ASSUME WakerInv, NoLostCreation, lpc = "wait", newList # <<>>
      PROVE  newCounter > 0
  <2>1. newList \in Seq(Thread) /\ newCounter \in Nat
    BY <1>2 DEF WakerInv, CreationInv, SlotInv, TypeInv, TypeOK, TcbTypeOK
  <2>2. Len(newList) \in Nat /\ Len(newList) # 0
    BY <1>2, <2>1, LenProperties, EmptySeq
  <2>3. newCounter = Len(newList) + One(console \notin BeforeTheLastPost)
    BY <1>2, <2>1 DEF NoLostCreation, One
  <2> QED BY <2>1, <2>2, <2>3 DEF One
<1>3. WakerInv /\ CounterMatches /\ NoLostCreation => NobodySleepsOnWork
  BY <1>1, <1>2 DEF NobodySleepsOnWork
<1> QED BY <1>3, WakersCorrect, CountersHold, CreationsHold, PTL

-----------------------------------------------------------------------------
(* The server implements the threads' life cycle. *)

LEMMA CreateIsAbstract ==
    ASSUME NEW p \in Program, NEW t \in Thread, create_tcb(p, t)
    PROVE  Lifecycle!Next
<1>1. Lifecycle!Create(t) BY DEF create_tcb, Lifecycle!Create, Lifecycle!Step
<1> QED BY <1>1 DEF Lifecycle!Next

LEMMA AdmitIsAbstract ==
    ASSUME WakerInv, LtsMoveEnd
    PROVE  Lifecycle!Next
<1>0. /\ TypeInv /\ MoverIsKnown /\ SlotsAccounted /\ state[current] = "NEW"
  BY DEF LtsMoveEnd, WakerInv, CreationInv, SlotInv, NewListKnown
<1>1. /\ current \in Thread /\ listMutex = Lts /\ jammed = None
      /\ available > 0 /\ state' = [state EXCEPT ![current] = "READY"]
  BY <1>0, TcbAssumption
     DEF LtsMoveEnd, MoveEnd, increase_multiprog, TypeInv, TypeOK, TcbTypeOK, CurrentIsKept,
         MoverIsKnown
<1>2. Moving = current BY <1>1, MovingByLts
<1>3. Lifecycle!Admitted = {t \in Thread : HoldsSlot(t)}
  BY <1>0, <1>2 DEF Lifecycle!Admitted, HoldsSlot, Active
<1>4. degree < MaxMultiprog
  <2>1. available \in Nat /\ degree \in Int
    BY <1>0 DEF TypeInv, TypeOK, TcbTypeOK
  <2>2. MaxMultiprog \in Nat BY TcbAssumption
  <2>3. One(lpc = "post") \in {0, 1} BY DEF One
  <2>4. available + degree + One(lpc = "post") = MaxMultiprog
    BY <1>0 DEF SlotsAccounted
  <2> HIDE DEF One
  <2> QED BY <1>1, <2>1, <2>2, <2>3, <2>4
<1>5. Lifecycle!Cardinality(Lifecycle!Admitted) < MaxMultiprog
  <2>1. \A S : Lifecycle!Cardinality(S) = Cardinality(S)
    BY DEF Lifecycle!Cardinality, Cardinality
  <2> QED BY <1>0, <1>3, <1>4, <2>1 DEF SlotsAccounted
<1>6. Lifecycle!Admit(current)
  BY <1>0, <1>1, <1>5 DEF Lifecycle!Admit, Lifecycle!Step
<1> QED BY <1>1, <1>6 DEF Lifecycle!Next

LEMMA MoveIsAbstract ==
    ASSUME WakerInv, NEW p \in Program, StMoveBegin(p) \/ StMoveEnd(p)
    PROVE  [Lifecycle!Next]_state
<1> PICK call : call = todo[p][1] OBVIOUS
<1> PICK t : t = call.tcb OBVIOUS
<1> PICK dst : dst = call.to OBVIOUS
<1>0. todo[p] # <<>> BY DEF StMoveBegin, StMoveEnd
<1>1. /\ t \in Thread /\ Owner[t] = p /\ <<state[t], dst>> \in LegalMove
      /\ dst \in Active \cup {"EXIT"}
  BY <1>0, HeadCall DEF LegalCall
<1>2. CASE StMoveBegin(p)
  <2>1. MoveBegin(p, t, dst) BY <1>2 DEF StMoveBegin
  <2>2. CASE dst \in Active BY <2>1, <2>2 DEF MoveBegin
  <2>3. CASE dst = "EXIT"
    <3>1. state' = [state EXCEPT ![t] = "EXIT"] BY <2>1, <2>3 DEF MoveBegin, Active
    <3>2. state[t] = "EXEC" BY <1>1, <2>3 DEF LegalMove
    <3>3. Lifecycle!Exit(t) BY <3>1, <3>2 DEF Lifecycle!Exit, Lifecycle!Step
    <3> QED BY <1>1, <3>3 DEF Lifecycle!Next
  <2> QED BY <1>1, <2>2, <2>3
<1>3. CASE StMoveEnd(p)
  <2>1. MoveEnd(p, t, dst) /\ listMutex = p /\ jammed = None
    BY <1>3 DEF StMoveEnd, MoveEnd, WakerInv, CreationInv, SlotInv, MoverIsKnown
  <2>2. state' = [state EXCEPT ![t] = dst] BY <2>1 DEF MoveEnd
  <2>3. CASE state[t] = "READY" /\ dst = "EXEC"
    <3>1. ListsMatchPlace BY DEF WakerInv, WakerPart
    <3>2. Moving = t /\ Destination = "EXEC"
      BY <2>1, <2>3, MovingByProgram, TcbAssumption DEF Destination
    <3>3. exec[p] = t BY <1>1, <3>1, <3>2 DEF ListsMatchPlace, Place
    <3>4. ASSUME NEW u \in Thread, Owner[u] = p, state[u] = "EXEC" PROVE FALSE
      <4>1. u # t BY <2>3, <3>4
      <4>2. exec[p] = u BY <3>1, <3>2, <3>4, <4>1 DEF ListsMatchPlace, Place
      <4> QED BY <3>3, <4>1, <4>2
    <3>5. Lifecycle!Running(Owner[t]) = {} BY <1>1, <3>4 DEF Lifecycle!Running
    <3>6. Lifecycle!Dispatch(t) BY <2>2, <2>3, <3>5 DEF Lifecycle!Dispatch, Lifecycle!Step
    <3> QED BY <1>1, <3>6 DEF Lifecycle!Next
  <2>4. CASE ~(state[t] = "READY" /\ dst = "EXEC") /\ dst # "EXIT"
    <3>1. Lifecycle!Preempt(t) \/ Lifecycle!Block(t) \/ Lifecycle!Wakeup(t)
      BY <1>1, <2>2, <2>4
         DEF LegalMove, Lifecycle!Preempt, Lifecycle!Block, Lifecycle!Wakeup, Lifecycle!Step
    <3> QED BY <1>1, <3>1 DEF Lifecycle!Next
  <2>5. dst # "EXIT"
    BY <2>1 DEF WakerInv, CreationInv, SlotInv, MoverIsKnown, Active
  <2> QED BY <2>3, <2>4, <2>5
<1> QED BY <1>2, <1>3

LEMMA StepIsAbstract ==
    ASSUME WakerInv, [Next]_vars
    PROVE  [Lifecycle!Next]_state
<1> USE DEF tcbVars, ltsVars, semVars, clientVars, consoleVars
<1>1. ASSUME LongTerm PROVE [Lifecycle!Next]_state
  <2>1. CASE LtsMoveBegin
    BY <2>1 DEF LtsMoveBegin, MoveBegin, Active
  <2>2. CASE LtsTake \/ LtsStop \/ LtsCheckWait \/ LtsCheckPost \/ LtsSignalMain
    BY <2>2 DEF LtsTake, LtsStop, LtsCheckWait, LtsCheckPost, LtsSignalMain
  <2> QED BY <1>1, <2>1, <2>2, AdmitIsAbstract DEF LongTerm
<1>2. ASSUME NEW p \in Program, ShortTerm(p) PROVE [Lifecycle!Next]_state
  <2>1. CASE ~(StMoveBegin(p) \/ StMoveEnd(p))
    BY <1>2, <2>1 DEF ShortTerm, StStart, StLoopTest, StWakeupThreads, StMainLoaded,
       StSchedule, StUnpark, StReply, StNotifyWakeup, StJoin, StJam, StLogMetrics
  <2> QED BY <2>1, MoveIsAbstract
<1>3. ASSUME NEW p \in Program, Request(p) PROVE [Lifecycle!Next]_state
  <2>1. CASE StCreateMain(p)
    BY <2>1, CreateIsAbstract, TcbAssumption DEF StCreateMain
  <2>2. CASE StCreate(p)
    BY <2>2, CreateIsAbstract DEF StCreate, ThreadsOf
  <2>3. CASE ~(StCreateMain(p) \/ StCreate(p))
    BY <1>3, <2>3 DEF Request, StAskNext, StReject, StCrash, StWait, StSignal, StAskJoin,
       StClose, StDisconnect
  <2> QED BY <2>1, <2>2, <2>3
<1>4. ASSUME NEW p \in Program, Accept(p) PROVE [Lifecycle!Next]_state
  BY <1>4 DEF Accept
<1>5. ASSUME Ending \/ Quit \/ UNCHANGED vars PROVE [Lifecycle!Next]_state
  BY <1>5 DEF Ending, ListenerEnd, ShutdownSocket, JoinListener, JoinLongTerm,
     JoinPrograms, Quit, vars
<1> QED BY <1>1, <1>2, <1>3, <1>4, <1>5 DEF Next

\* The server implements the abstract life cycle of its threads: one executing
\* thread per program, no admission over the multiprogramming degree, and no
\* other move, for any programs, threads and semaphores.
THEOREM LifecycleHolds == Spec => LifecycleSpec
<1>1. Init => Lifecycle!Init
  BY DEF Init, TcbInit, Lifecycle!Init
<1>2. WakerInv /\ [Next]_vars => [Lifecycle!Next]_state BY StepIsAbstract
<1> QED BY <1>1, <1>2, WakersCorrect, PTL DEF Spec, LifecycleSpec, Lifecycle!Spec

-----------------------------------------------------------------------------
(* What suse_join's search may look for. *)

\* A move leaves who executes alone, unless it is of that program's threads
\* and from EXEC or to it.
LEMMA MoveKeepsExec ==
    ASSUME TypeOK, NEW self, NEW t \in Thread, NEW dst, MoveBegin(self, t, dst),
           NEW p \in Program, Owner[t] # p \/ (state[t] # "EXEC" /\ dst # "EXEC")
    PROVE  exec'[p] = exec[p]
<1>1. exec \in [Program -> Thread \cup {None}] BY DEF TypeOK, TcbTypeOK
<1>2. exec' = [exec EXCEPT ![Owner[t]] = exec_after(t, state[t], dst, @)]
  BY DEF MoveBegin, program_remove_and_add
<1>3. CASE Owner[t] # p BY <1>1, <1>2, <1>3
<1>4. CASE state[t] # "EXEC" /\ dst # "EXEC"
  <2>1. exec_after(t, state[t], dst, exec[p]) = exec[p] BY <1>4 DEF exec_after
  <2> QED BY <1>1, <1>2, <2>1
<1> QED BY <1>3, <1>4

\* While a program searches, nobody changes who executes in it.
LEMMA SearchKeepsExec ==
    ASSUME WakerInv, Next, NEW p \in Program, Searching(p)
    PROVE  exec'[p] = exec[p]
<1> USE DEF tcbVars, listVars
<1>0. /\ TypeOK /\ ClientKnownOf(p) /\ CallsKnownOf(p) /\ NewListKnown /\ CurrentIsKept
  BY DEF WakerInv, WakerPart, ClientKnown, AllCallsKnown, CreationInv, SlotInv, TypeInv
<1>1. CASE LongTerm
  <2>1. CASE LtsMoveBegin
    <3>1. current \in Thread
      BY <1>0, <2>1 DEF LtsMoveBegin, CurrentIsKept, TypeOK
    <3>2. state[current] = "NEW"
      <4>1. newList # <<>> /\ current = newList[1]
        BY <1>0, <2>1 DEF LtsMoveBegin, NewListKnown, InLine
      <4>2. newList \in Seq(Thread) BY <1>0 DEF TypeOK, TcbTypeOK
      <4>3. 1 \in DOMAIN newList BY <4>1, <4>2
      <4> QED BY <1>0, <4>1, <4>3 DEF NewListKnown
    <3>3. MoveBegin(Lts, current, "READY") BY <2>1 DEF LtsMoveBegin
    <3> QED BY <1>0, <3>1, <3>2, <3>3, MoveKeepsExec
  <2>2. CASE LtsMoveEnd BY <2>2 DEF LtsMoveEnd, MoveEnd
  <2>3. CASE LtsTake \/ LtsStop \/ LtsCheckWait \/ LtsCheckPost \/ LtsSignalMain
    BY <2>3 DEF LtsTake, LtsStop, LtsCheckWait, LtsCheckPost, LtsSignalMain
  <2> QED BY <1>1, <2>1, <2>2, <2>3 DEF LongTerm
<1>2. CASE \E q \in Program : ShortTerm(q)
  <2> PICK q \in Program : ShortTerm(q) BY <1>2
  <2>1. CASE StMoveBegin(q)
    <3> PICK call : call = todo[q][1] OBVIOUS
    <3> PICK t : t = call.tcb OBVIOUS
    <3> PICK dst : dst = call.to OBVIOUS
    <3>1. todo[q] # <<>> /\ MoveBegin(q, t, dst) BY <2>1 DEF StMoveBegin
    <3>2. call \in Calls(q) /\ t \in Thread /\ Owner[t] = q
      BY <3>1, HeadCall
    <3>3. q = p => state[t] # "EXEC" /\ dst # "EXEC"
      BY <1>0, <3>2 DEF Searching, ClientKnownOf, Serving, CallsKnownOf, LegalCall
    <3>4. Owner[t] # p \/ (state[t] # "EXEC" /\ dst # "EXEC") BY <3>2, <3>3
    <3> QED BY <1>0, <3>1, <3>2, <3>4, MoveKeepsExec
  <2>2. CASE StMoveEnd(q) BY <2>2 DEF StMoveEnd, MoveEnd
  <2>3. CASE ~(StMoveBegin(q) \/ StMoveEnd(q))
    BY <2>3 DEF ShortTerm, StStart, StLoopTest, StWakeupThreads, StMainLoaded,
       StSchedule, StUnpark, StReply, StNotifyWakeup, sem_post_tcb_counter, StJoin, StJam,
       StLogMetrics
  <2> QED BY <2>1, <2>2, <2>3
<1>3. CASE \E q \in Program : Request(q) \/ Accept(q)
  BY <1>3 DEF Request, Accept, StCreateMain, StCreate, create_tcb, StAskNext, StReject,
     StCrash, StWait, StSignal, StAskJoin, StClose, StDisconnect
<1>4. CASE Ending \/ Quit
  BY <1>4 DEF Ending, ListenerEnd, ShutdownSocket, JoinListener, JoinLongTerm,
     JoinPrograms, Quit
<1> QED BY <1>1, <1>2, <1>3, <1>4 DEF Next

\* What a search looks for, and where it can be found.
LEMMA SearchedIsOwn ==
    ASSUME WakerInv, NEW p \in Program, Searching(p)
    PROVE  arg[p] \in Thread /\ Owner[arg[p]] = p
<1>1. OwnThreadsOf(p) BY DEF WakerInv, WakerPart, OwnThreads
<1> QED BY <1>1 DEF OwnThreadsOf, Searching, ThreadsOf

SearchFails(p) == ~joinable(p, arg[p]) /\ arg[p] \notin exitList

LEMMA SearchFailsFor ==
    ASSUME WakerInv, NEW p \in Program, Searching(p), listMutex = None
    PROVE  SearchFails(p) <=> Hopeless(p) \/ state[arg[p]] = "NEW"
<1> PICK t : t = arg[p] OBVIOUS
<1>1. t \in Thread /\ Owner[t] = p BY SearchedIsOwn
<1>2. Place(t) = state[t] BY <1>1, MovingIsNone, TcbAssumption DEF Place
<1>3. ListsMatchPlace BY DEF WakerInv, WakerPart
<1>4. state[t] \in State
  BY <1>1 DEF WakerInv, CreationInv, SlotInv, TypeInv, TypeOK, TcbTypeOK
<1>5. exec[p] = t <=> state[t] = "EXEC" BY <1>1, <1>2, <1>3 DEF ListsMatchPlace
<1>6. /\ t \in ready[p] <=> state[t] = "READY"
      /\ t \in blockedList <=> state[t] = "BLOCKED"
      /\ t \in exitList <=> state[t] = "EXIT"
  BY <1>1, <1>2, <1>3 DEF ListsMatchPlace
<1> QED BY <1>4, <1>5, <1>6 DEF State, SearchFails, joinable, Hopeless

\* suse_join, whenever it looks, misses a thread that waits to be admitted and
\* one it can never find, and no other.
SearchesMissOnlyThose ==
    \A p \in Program :
        Searching(p) /\ listMutex = None
            => (SearchFails(p) <=> Hopeless(p) \/ state[arg[p]] = "NEW")

\* suse_join's search of the three lists fails exactly when the thread is NEW,
\* executes (it is the one that joins) or was never created: however the lists
\* change while it wakes threads up, it misses no thread that is on one.  With
\* EveryThreadIsAdmitted this is why JoinSearchEnds holds.
THEOREM JoinsAreFound == Spec => []SearchesMissOnlyThose
<1>1. WakerInv => SearchesMissOnlyThose BY SearchFailsFor DEF SearchesMissOnlyThose
<1> QED BY <1>1, WakersCorrect, PTL

\* A search that does not find goes on, whoever takes a step.
LEMMA HopelessGoesOn ==
    ASSUME WakerInv, Next, NEW p \in Program, Hopeless(p)
    PROVE  Searching(p)' /\ arg'[p] = arg[p]
<1> USE DEF Searching, Goto, ltsVars
<1>0. /\ pc \in [Program -> StPlace] /\ arg \in [Program -> Thread \cup {None}]
      /\ Searching(p)
  BY DEF WakerInv, CreationInv, SlotInv, TypeInv, TypeOK, Hopeless
<1>1. ASSUME NEW q \in Program, ShortTerm(q)
      PROVE  Searching(p)' /\ arg'[p] = arg[p]
  <2>1. CASE StMoveBegin(q) \/ StMoveEnd(q)
    BY <1>0, <2>1 DEF StMoveBegin, StMoveEnd
  <2>2. CASE StWakeupThreads(q)
    BY <1>0, <2>2 DEF StWakeupThreads
  <2>3. CASE StJoin(q)
    <3>1. CASE q # p BY <1>0, <2>3, <3>1 DEF StJoin
    <3>2. CASE q = p
      <4>1. listMutex = None BY <2>3 DEF StJoin
      <4>2. SearchFails(p) BY <1>0, <4>1, SearchFailsFor
      <4>3. pc' = [pc EXCEPT ![p] = "joinmiss"] /\ arg' = arg
        BY <2>3, <3>2, <4>2 DEF StJoin, SearchFails
      <4> QED BY <1>0, <4>3
    <3> QED BY <3>1, <3>2
  <2>4. CASE StNotifyWakeup(q)
    BY <1>0, <2>4 DEF StNotifyWakeup
  <2>5. CASE StSchedule(q)
    BY <1>0, <2>5 DEF StSchedule
  <2>6. CASE StJam(q)
    <3>1. CASE pc' = pc BY <1>0, <2>6, <3>1 DEF StJam
    <3>2. CASE pc[q] = "recv" /\ pc' = [pc EXCEPT ![q] = "create"]
      BY <1>0, <2>6, <3>2 DEF StJam
    <3> QED BY <2>6, <3>1, <3>2 DEF StJam
  <2>7. CASE StStart(q) \/ StLoopTest(q) \/ StMainLoaded(q) \/ StUnpark(q)
             \/ StReply(q) \/ StLogMetrics(q)
    BY <1>0, <2>7 DEF StStart, StLoopTest, StMainLoaded, StUnpark, StReply, StLogMetrics
  <2> QED BY <1>1, <2>1, <2>2, <2>3, <2>4, <2>5, <2>6, <2>7 DEF ShortTerm
<1>2. ASSUME NEW q \in Program, Request(q)
      PROVE  Searching(p)' /\ arg'[p] = arg[p]
  <2>1. CASE StCreateMain(q) \/ StCreate(q) \/ StAskNext(q) \/ StReject(q) \/ StClose(q)
             \/ StDisconnect(q) \/ StCrash(q)
    BY <1>0, <2>1 DEF StCreateMain, StCreate, StAskNext, StReject, StClose, StDisconnect,
       StCrash, Running
  <2>2. CASE StWait(q)
    BY <1>0, <2>2 DEF StWait, Running
  <2>3. CASE StSignal(q)
    <3>1. pc[q] = "recv" BY <2>3 DEF StSignal, Running
    <3>2. q # p BY <1>0, <3>1
    <3>3. /\ arg' = arg \/ \E t : arg' = [arg EXCEPT ![q] = t]
          /\ \E place : pc' = [pc EXCEPT ![q] = place]
      BY <2>3 DEF StSignal
    <3> QED BY <1>0, <3>2, <3>3
  <2>4. CASE StAskJoin(q)
    BY <1>0, <2>4 DEF StAskJoin, Running
  <2> QED BY <1>2, <2>1, <2>2, <2>3, <2>4 DEF Request
<1>3. ASSUME NEW q \in Program, Accept(q)
      PROVE  Searching(p)' /\ arg'[p] = arg[p]
  BY <1>0, <1>3 DEF Accept
<1>4. ASSUME LongTerm \/ Ending \/ Quit
      PROVE  Searching(p)' /\ arg'[p] = arg[p]
  BY <1>0, <1>4 DEF LongTerm, LtsTake, LtsStop, LtsCheckWait, LtsCheckPost, LtsMoveBegin,
     LtsMoveEnd, LtsSignalMain, Ending, ListenerEnd, ShutdownSocket, JoinListener,
     JoinLongTerm, JoinPrograms, Quit
<1> HIDE DEF Searching
<1> QED BY <1>1, <1>2, <1>3, <1>4 DEF Next

\* Only its own program's scheduler creates a thread, and that one searches.
LEMMA UncreatedStay ==
    ASSUME WakerInv, Next, NEW p \in Program, Searching(p), NEW t \in Thread,
           Owner[t] = p, state[t] = "none"
    PROVE  state'[t] = "none"
<1>0. state \in [Thread -> State] /\ pc[p] \notin {"recv", "create"}
  BY DEF WakerInv, CreationInv, SlotInv, TypeInv, TypeOK, TcbTypeOK, Searching
<1>1. ASSUME NEW u \in Thread, state[u] # "none", NEW dst, state' = [state EXCEPT ![u] = dst]
      PROVE  state'[t] = "none"
  BY <1>0, <1>1
<1>2. CASE \E q \in Program : StCreateMain(q) \/ StCreate(q)
  <2> PICK q \in Program : StCreateMain(q) \/ StCreate(q) BY <1>2
  <2>1. PICK u \in Thread : create_tcb(q, u)
    BY TcbAssumption DEF StCreateMain, StCreate, ThreadsOf
  <2>2. pc[q] \in {"recv", "create"} BY DEF StCreateMain, StCreate
  <2>3. Owner[u] = q /\ state' = [state EXCEPT ![u] = "NEW"] BY <2>1 DEF create_tcb
  <2>4. u # t BY <1>0, <2>2, <2>3
  <2> QED BY <1>0, <2>3, <2>4
<1>3. CASE LongTerm
  <2>1. CASE LtsMoveEnd
    <3>1. /\ current \in Thread /\ state[current] = "NEW"
          /\ state' = [state EXCEPT ![current] = "READY"]
      BY <2>1 DEF LtsMoveEnd, MoveEnd, WakerInv, CreationInv, NewListKnown, SlotInv,
         TypeInv, TypeOK, CurrentIsKept
    <3> QED BY <1>1, <3>1
  <2>2. CASE ~LtsMoveEnd
    <3>1. state' = state
      BY <1>3, <2>2 DEF LongTerm, LtsMoveBegin, MoveBegin, Active, LtsTake, LtsStop,
         LtsCheckWait, LtsCheckPost, LtsSignalMain, tcbVars
    <3> QED BY <3>1
  <2> QED BY <2>1, <2>2
<1>4. ASSUME NEW q \in Program, ShortTerm(q) PROVE state'[t] = "none"
  <2>1. CASE state' = state BY <2>1
  <2>2. ASSUME NEW u \in Thread, NEW dst \in Active \cup {"EXIT"}, Admitted(u),
               state' = [state EXCEPT ![u] = dst]
        PROVE  state'[t] = "none"
    <3>1. state[u] # "none" BY <2>2 DEF Admitted, Active
    <3> QED BY <1>1, <2>2, <3>1
  <2>3. CreationInv BY DEF WakerInv
  <2> QED BY <1>4, <2>1, <2>2, <2>3, ShortTermStates
<1>5. ASSUME NEW q \in Program, Request(q), ~(StCreateMain(q) \/ StCreate(q))
      PROVE  state'[t] = "none"
  BY <1>5 DEF Request, StAskNext, StReject, StCrash, StWait, StSignal, StAskJoin, StClose,
     StDisconnect, tcbVars
<1>6. CASE Ending \/ Quit \/ \E q \in Program : Accept(q)
  BY <1>6 DEF Ending, ListenerEnd, ShutdownSocket, JoinListener, JoinLongTerm, JoinPrograms,
     Quit, Accept, tcbVars
<1> QED BY <1>2, <1>3, <1>4, <1>5, <1>6 DEF Next

\* A thread that joins itself, or one that was never created, is searched for
\* without end: the thread keeps executing and the other stays uncreated, since
\* the scheduler that could change either is the one that searches.
THEOREM HopelessJoins == Spec => HopelessJoinsLast
<1>1. ASSUME WakerInv, [Next]_vars, NEW p \in Program, Hopeless(p)
      PROVE  Hopeless(p)'
  <2>1. CASE UNCHANGED vars
    BY <1>1, <2>1 DEF Hopeless, Searching, vars, tcbVars, listVars
  <2>2. CASE Next
    <3>1. Searching(p) BY <1>1 DEF Hopeless
    <3>2. Searching(p)' /\ arg'[p] = arg[p] BY <1>1, <2>2, HopelessGoesOn
    <3>3. exec'[p] = exec[p] BY <1>1, <2>2, <3>1, SearchKeepsExec
    <3>4. state[arg[p]] = "none" => state'[arg[p]] = "none"
      BY <1>1, <2>2, <3>1, SearchedIsOwn, UncreatedStay
    <3> QED BY <1>1, <3>2, <3>3, <3>4 DEF Hopeless
  <2> QED BY <1>1, <2>1, <2>2
<1>2. WakerInv /\ [Next]_vars => \A p \in Program : Hopeless(p) => Hopeless(p)' BY <1>1
<1> QED BY <1>2, WakersCorrect, PTL DEF Spec, HopelessJoinsLast
-----------------------------------------------------------------------------
\* When schedule_next has made its moves, the answer names a thread of the
\* program, and that thread executes.
RepliesAreKnown ==
    \A p \in Program :
        pc[p] = "reply" /\ todo[p] = <<>>
            => exec[p] \in ThreadsOf(p) /\ state[exec[p]] = "EXEC"

\* notify_program may read program->exec->tid without a test for NULL: whatever
\* the other schedulers did between the choice of the thread and the answer,
\* the thread that is named is one of this program and is the one in EXEC.
THEOREM AnswersNameWhoExecutes == Spec => []RepliesAreKnown
<1>1. ASSUME WakerInv, NEW p \in Program, pc[p] = "reply", todo[p] = <<>>
      PROVE  exec[p] \in ThreadsOf(p) /\ state[exec[p]] = "EXEC"
  <2>1. TypeOK /\ ClientKnownOf(p)
    BY <1>1 DEF WakerInv, WakerPart, ClientKnown, CreationInv, SlotInv, TypeInv
  <2>2. Calls(p) = {} BY <1>1, <2>1, CallFacts
  <2>3. exec[p] # None BY <1>1, <2>1, <2>2 DEF ClientKnownOf, Serving
  <2> QED BY <1>1, <2>3, ExecExecutes DEF ThreadsOf
<1>2. WakerInv => RepliesAreKnown BY <1>1 DEF RepliesAreKnown
<1> QED BY <1>2, WakersCorrect, PTL

=============================================================================
