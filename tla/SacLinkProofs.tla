---------------------------- MODULE SacLinkProofs ----------------------------
(* For every set of workers: the messages of the connection have their form, *)
(* no more of them travel than workers wait, an operation that met no other  *)
(* gets its own answer, and it never waits for nothing.                      *)
EXTENDS SacLinkProperties, SequenceTheorems, FiniteSetTheorems, TLAPS

\* What a server that ended was sent is gone, and nothing more is sent to it.
NothingSentToTheDead == ~ up => toServer = <<>>

LinkInv == TypeOK /\ NothingSentToTheDead /\ LinkDrains

-----------------------------------------------------------------------------
(* Messages and pieces. *)

LEMMA ARequestIsPieces ==
  ASSUME NEW op \in Op, NEW w \in Worker, NEW n
  PROVE  pieces(n, [op |-> op, worker |-> w, part |-> "whole"]) \in Seq(Request)
  <1>1. \A part \in Part : [op |-> op, worker |-> w, part |-> part] \in Request
    BY DEF Request
  <1>. QED  BY <1>1 DEF pieces, Part

LEMMA AnAnswerIsPieces ==
  ASSUME NEW v \in Value, NEW w \in Worker, NEW n
  PROVE  pieces(n, [value |-> v, worker |-> w, part |-> "whole"]) \in Seq(Answer)
  <1>1. \A part \in Part : [value |-> v, worker |-> w, part |-> part] \in Answer
    BY DEF Answer
  <1>. QED  BY <1>1 DEF pieces, Part

LEMMA ShortIsOnePiece ==
  ASSUME NEW m
  PROVE  Len(pieces(1, m)) = 1
  BY DEF pieces

\* A read takes a piece or more from the front.
LEMMA ReadTakesSome ==
  ASSUME NEW S, NEW s \in Seq(S), NEW k \in readable(s)
  PROVE  /\ k \in 1 .. Len(s)
         /\ unread(s, k) \in Seq(S)
         /\ Len(unread(s, k)) = Len(s) - k
  <1>1. k \in 1 .. Len(s)
    BY DEF readable
  <1>2. unread(s, k) \in Seq(S) /\ Len(unread(s, k)) = Len(s) - k
    BY <1>1, SubSeqProperties DEF unread
  <1>. QED  BY <1>1, <1>2

\* Whatever is served is answered with a value.
LEMMA AnswersAreValues ==
  ASSUME NEW m \in Request, NEW v \in first_string(<<m>>)
  PROVE  v \in Value
  <1>1. m.op \in Op
    BY DEF Request
  <1>. QED  BY <1>1 DEF first_string, Value

LEMMA FirstStringOfTheFirst ==
  ASSUME NEW s \in Seq(Request), s # <<>>
  PROVE  s[1] \in Request /\ first_string(s) = first_string(<<s[1]>>)
  BY DEF first_string

\* A read that ends inside the next message leaves as many pieces.
LEMMA ACutRequestIsOne ==
  ASSUME NEW s \in Seq(Request), cuttable(s), NEW t \in cut_request(s)
  PROVE  t \in Seq(Request) /\ Len(t) = Len(s)
  <1>1. s # <<>> /\ s[1] \in Request /\ t = [s EXCEPT ![1].part = "rest"]
    BY DEF cuttable, cut_request
  <1>. DEFINE m == [s[1] EXCEPT !.part = "rest"]
  <1>2. m \in Request
    BY <1>1 DEF Request, Part
  <1>3. t = [s EXCEPT ![1] = m]
    BY <1>1
  <1>. HIDE DEF m
  <1>. QED  BY <1>1, <1>2, <1>3

LEMMA RestsAreValues ==
  ASSUME NEW v \in Value
  PROVE  rests(v) \subseteq Value
  <1>1. Malformed \in Value /\ Closed \in Value
    BY DEF Value
  <1>2. "n" \in Value /\ "data" \in Value /\ "ENOENT" \in Value
    <2>1. "n" \in replies["open"] /\ "data" \in replies["read"] /\ "ENOENT" \in replies["mknod"]
      BY DEF replies, creation_refusals
    <2>2. "open" \in Op /\ "read" \in Op /\ "mknod" \in Op
      BY DEF Op
    <2>. QED  BY <2>1, <2>2 DEF Value
  <1>3. CASE v \in {"n", "data"}
    BY <1>1, <1>2, <1>3 DEF rests
  <1>4. CASE v = "S_IFREG n"
    BY <1>1, <1>2, <1>4 DEF rests
  <1>5. CASE v = "-ENOENT"
    BY <1>1, <1>2, <1>5 DEF rests
  <1>6. CASE v \notin {"n", "data", "S_IFREG n", "-ENOENT"}
    BY <1>1, <1>2, <1>6 DEF rests
  <1>. QED  BY <1>3, <1>4, <1>5, <1>6

LEMMA ACutAnswerIsOne ==
  ASSUME NEW s \in Seq(Answer), cuttable(s), NEW t \in cut_answer(s)
  PROVE  t \in Seq(Answer) /\ Len(t) = Len(s)
  <1>1. s # <<>> /\ s[1] \in Answer
    BY DEF cuttable
  <1>2. s[1].value \in Value
    BY <1>1 DEF Answer
  <1>3. PICK v \in rests(s[1].value) : t = [s EXCEPT ![1].part = "rest", ![1].value = v]
    BY DEF cut_answer
  <1>4. v \in Value
    BY <1>2, <1>3, RestsAreValues
  <1>. DEFINE m == [s[1] EXCEPT !.part = "rest", !.value = v]
  <1>5. m \in Answer
    BY <1>1, <1>4 DEF Answer, Part
  <1>6. t = [s EXCEPT ![1] = m]
    BY <1>1, <1>3
  <1>. HIDE DEF m
  <1>. QED  BY <1>1, <1>5, <1>6

-----------------------------------------------------------------------------
(* Workers that wait. *)

LEMMA WaitingIsCounted ==
  /\ IsFiniteSet(Waiting) /\ IsFiniteSet(Waiting')
  /\ Cardinality(Waiting) \in Nat /\ Cardinality(Waiting') \in Nat
  <1>1. Waiting \in SUBSET Worker /\ Waiting' \in SUBSET Worker
    BY DEF Waiting
  <1>. QED  BY <1>1, SacLinkAssumption, FS_Subset, FS_CardinalityType

LEMMA OneMoreWaits ==
  ASSUME TypeOK, NEW w \in Worker, NEW op \in Op, calling[w] = None,
         calling' = [calling EXCEPT ![w] = op]
  PROVE  Cardinality(Waiting') = Cardinality(Waiting) + 1
  <1>1. None \notin Op
    BY SacLinkAssumption
  <1>2. Waiting' = Waiting \cup {w} /\ w \notin Waiting
    BY <1>1 DEF Waiting, TypeOK
  <1>. QED  BY <1>2, WaitingIsCounted, FS_AddElement

LEMMA OneLessWaits ==
  ASSUME TypeOK, NEW w \in Worker, calling[w] # None,
         calling' = [calling EXCEPT ![w] = None]
  PROVE  Cardinality(Waiting') = Cardinality(Waiting) - 1
  <1>1. Waiting' = Waiting \ {w} /\ w \in Waiting
    BY DEF Waiting, TypeOK
  <1>. QED  BY <1>1, WaitingIsCounted, FS_RemoveElement
-----------------------------------------------------------------------------
(* What a step does to what travels. *)

LEMMA ServeDoes ==
  ASSUME TypeOK, Serve
  PROVE  \E k \in readable(toServer), v \in first_string(toServer),
            n \in sizes(toServer[1].op, "read") :
            /\ toClient' = toClient \o
                 pieces(n, [value |-> v, worker |-> toServer[1].worker, part |-> "whole"])
            /\ toServer' \in Seq(Request) /\ k \in 1 .. Len(toServer)
            /\ Len(toServer') = Len(toServer) - k
            /\ long' \in BOOLEAN
            /\ ~ long' => ~ long /\ n = 1 /\ toServer' = unread(toServer, k)
  <1>1. toServer \in Seq(Request) /\ long \in BOOLEAN
    BY DEF TypeOK
  <1>2. PICK k \in readable(toServer), v \in first_string(toServer),
             n \in sizes(toServer[1].op, "read") :
          /\ \/ toServer' = requests_left(k) /\ long' = (long \/ n > 1)
             \/ /\ cuttable(requests_left(k))
                /\ toServer' \in cut_request(requests_left(k)) /\ long' = TRUE
          /\ toClient' = toClient \o
               pieces(n, [value |-> v, worker |-> toServer[1].worker, part |-> "whole"])
    BY DEF Serve
  <1>3. n \in {1, 2}
    BY <1>2, SacLinkAssumption DEF sizes
  <1>4. /\ k \in 1 .. Len(toServer) /\ requests_left(k) \in Seq(Request)
        /\ Len(requests_left(k)) = Len(toServer) - k
    BY <1>1, <1>2, ReadTakesSome DEF requests_left
  <1>5. toServer' \in Seq(Request) /\ Len(toServer') = Len(requests_left(k))
    BY <1>2, <1>4, ACutRequestIsOne
  <1>6. long' \in BOOLEAN
    BY <1>1, <1>2
  <1>7. ~ long' => ~ long /\ n = 1 /\ toServer' = unread(toServer, k)
    <2>1. ASSUME ~ long'
          PROVE  toServer' = requests_left(k) /\ ~ (long \/ n > 1)
      BY <1>2, <2>1
    <2>. QED  BY <1>3, <2>1 DEF requests_left
  <1>. QED  BY <1>2, <1>4, <1>5, <1>6, <1>7

LEMMA ReceiveDoes ==
  ASSUME TypeOK, NEW w \in Worker, Receive(w)
  PROVE  /\ toClient' \in Seq(Answer) /\ Len(toClient') < Len(toClient)
         /\ Len(toClient) \in Nat
         /\ Return(w, toClient[1].value, toClient[1].worker)
         /\ long' \in BOOLEAN /\ (~ long' => ~ long)
  <1>1. toClient \in Seq(Answer) /\ long \in BOOLEAN
    BY DEF TypeOK
  <1>2. PICK k \in readable(toClient) :
          /\ \/ toClient' = unread(toClient, k) /\ long' = long
             \/ /\ cuttable(unread(toClient, k))
                /\ toClient' \in cut_answer(unread(toClient, k)) /\ long' = TRUE
          /\ Return(w, toClient[1].value, toClient[1].worker)
    BY DEF Receive
  <1>3. /\ k \in 1 .. Len(toClient) /\ unread(toClient, k) \in Seq(Answer)
        /\ Len(unread(toClient, k)) = Len(toClient) - k /\ Len(toClient) \in Nat
    BY <1>1, <1>2, ReadTakesSome, LenProperties
  <1>4. toClient' \in Seq(Answer) /\ Len(toClient') = Len(unread(toClient, k))
    BY <1>2, <1>3, ACutAnswerIsOne
  <1>5. Len(toClient') < Len(toClient)
    BY <1>3, <1>4
  <1>6. long' \in BOOLEAN /\ (~ long' => ~ long)
    <2>1. long' = long \/ long' = TRUE
      BY <1>2
    <2>2. CASE long' = long
      BY <1>1, <2>2
    <2>3. CASE long' = TRUE
      BY <2>3
    <2>. QED  BY <2>1, <2>2, <2>3
  <1>7. Return(w, toClient[1].value, toClient[1].worker)
    BY <1>2
  <1>8. toClient' \in Seq(Answer) /\ Len(toClient) \in Nat
    BY <1>3, <1>4
  <1>. QED  BY <1>5, <1>6, <1>7, <1>8

\* What an operation tells FUSE of.
LEMMA ReturnTells ==
  ASSUME NEW w, NEW value, NEW from, Return(w, value, from)
  PROVE  \E told \in results(calling[w], value) :
            /\ returned' = [worker |-> w, op |-> calling[w], value |-> value,
                            from |-> from, told |-> told]
            /\ told \in {"success", "error", "killed"}
            /\ calling' = [calling EXCEPT ![w] = None]
            /\ overlap' \in BOOLEAN /\ mounted' \in BOOLEAN
  <1>1. results(calling[w], value) \subseteq {"success", "error", "killed"}
    BY DEF results
  <1>2. PICK told \in results(calling[w], value) :
          /\ returned' = [worker |-> w, op |-> calling[w], value |-> value,
                          from |-> from, told |-> told]
          /\ calling' = [calling EXCEPT ![w] = None]
          /\ overlap' \in BOOLEAN /\ mounted' \in BOOLEAN
    BY DEF Return
  <1>. QED  BY <1>1, <1>2

-----------------------------------------------------------------------------
(* One lemma for each action. *)

LEMMA InitHasLinkInv == Init => LinkInv
  <1>. SUFFICES ASSUME Init
                PROVE  LinkInv
    OBVIOUS
  <1>1. TypeOK
    <2>1. /\ calling \in [Worker -> Op \cup {None}] /\ returned = None
          /\ toServer = <<>> /\ toClient = <<>>
          /\ up = TRUE /\ mounted = TRUE /\ overlap = FALSE /\ long = FALSE
      BY DEF Init
    <2>2. toServer \in Seq(Request) /\ toClient \in Seq(Answer)
      BY <2>1
    <2>. QED  BY <2>1, <2>2 DEF TypeOK
  <1>2. Cardinality(Waiting) \in Nat
    BY WaitingIsCounted
  <1>. QED  BY <1>1, <1>2 DEF Init, LinkInv, NothingSentToTheDead, LinkDrains

LEMMA SendKeeps ==
  ASSUME LinkInv, NEW w \in Worker, NEW op \in Op, Send(w, op)
  PROVE  LinkInv'
  <1>. DEFINE m == [op |-> op, worker |-> w, part |-> "whole"]
  <1>1. PICK n \in sizes(op, "write") :
          /\ toServer' = IF up THEN toServer \o pieces(n, m) ELSE toServer
          /\ long' = (long \/ n > 1)
    BY DEF Send
  <1>2. n \in {1, 2}
    BY <1>1, SacLinkAssumption DEF sizes
  <1>3. toServer \in Seq(Request) /\ toClient \in Seq(Answer) /\ long \in BOOLEAN
    BY DEF LinkInv, TypeOK
  <1>4. pieces(n, m) \in Seq(Request)
    BY ARequestIsPieces
  <1>. HIDE DEF m
  <1>5. /\ toServer' \in Seq(Request)
        /\ Len(toServer') <= Len(toServer) + Len(pieces(n, m))
        /\ ~ up => toServer' = toServer
    <2>1. CASE up
      BY <2>1, <1>1, <1>3, <1>4, ConcatProperties
    <2>2. CASE ~ up
      BY <2>2, <1>1, <1>3, <1>4
    <2>. QED  BY <2>1, <2>2
  <1>6. TypeOK'
    <2>. USE <1>2, <1>5 DEF LinkInv, TypeOK, Send
    <2>1. calling' \in [Worker -> Op \cup {None}]
      OBVIOUS
    <2>2. returned' = None
      OBVIOUS
    <2>3. /\ toClient' \in Seq(Answer) /\ up' \in BOOLEAN /\ mounted' \in BOOLEAN
          /\ overlap' \in BOOLEAN
      OBVIOUS
    <2>4. long' \in BOOLEAN
      BY <1>1
    <2>. QED  BY <2>1, <2>2, <2>3, <2>4, <1>5
  <1>7. NothingSentToTheDead'
    BY <1>5 DEF LinkInv, NothingSentToTheDead, Send
  <1>8. LinkDrains'
    <2>. SUFFICES ASSUME ~ long'
                  PROVE  (Len(toServer) + Len(toClient) <= Cardinality(Waiting))'
      BY DEF LinkDrains
    <2>1. ~ long /\ n = 1
      <3>1. ~ (long \/ n > 1)
        BY <1>1
      <3>. QED  BY <3>1, <1>2
    <2>2. Len(toServer) + Len(toClient) <= Cardinality(Waiting)
      BY <2>1 DEF LinkInv, LinkDrains
    <2>3. Len(toServer') <= Len(toServer) + 1
      BY <2>1, <1>5, ShortIsOnePiece
    <2>4. Cardinality(Waiting') = Cardinality(Waiting) + 1
      BY OneMoreWaits DEF LinkInv, Send
    <2>5. /\ Len(toServer) \in Nat /\ Len(toClient) \in Nat
          /\ Len(toServer') \in Nat /\ toClient' = toClient
      BY <1>3, <1>5, LenProperties DEF Send
    <2>. QED  BY <2>2, <2>3, <2>4, <2>5, WaitingIsCounted
  <1>. QED  BY <1>6, <1>7, <1>8 DEF LinkInv

LEMMA ServeKeeps ==
  ASSUME LinkInv, Serve
  PROVE  LinkInv'
  <1>1. /\ toServer \in Seq(Request) /\ toClient \in Seq(Answer) /\ long \in BOOLEAN
        /\ toServer # <<>>
    BY DEF LinkInv, TypeOK, Serve
  <1>. DEFINE w == toServer[1].worker
              m(v) == [value |-> v, worker |-> w, part |-> "whole"]
  <1>2. PICK k \in readable(toServer), v \in first_string(toServer),
             n \in sizes(toServer[1].op, "read") :
          /\ toClient' = toClient \o pieces(n, m(v))
          /\ toServer' \in Seq(Request) /\ k \in 1 .. Len(toServer)
          /\ Len(toServer') = Len(toServer) - k
          /\ long' \in BOOLEAN
          /\ ~ long' => ~ long /\ n = 1
    BY ServeDoes DEF LinkInv
  <1>4. w \in Worker /\ v \in Value
    <2>1. toServer[1] \in Request /\ v \in first_string(<<toServer[1]>>)
      BY <1>1, <1>2, FirstStringOfTheFirst
    <2>2. w \in Worker
      BY <2>1 DEF Request
    <2>. QED  BY <2>1, <2>2, AnswersAreValues
  <1>. HIDE DEF w
  <1>5. /\ k \in 1 .. Len(toServer) /\ toServer' \in Seq(Request)
        /\ Len(toServer') = Len(toServer) - k
    BY <1>2
  <1>6. pieces(n, m(v)) \in Seq(Answer)
    BY <1>4, AnAnswerIsPieces
  <1>. HIDE DEF m
  <1>7. toClient' \in Seq(Answer) /\ Len(toClient') = Len(toClient) + Len(pieces(n, m(v)))
    BY <1>1, <1>2, <1>6, ConcatProperties
  <1>8. TypeOK'
    <2>1. long' \in BOOLEAN
      BY <1>2
    <2>2. returned' = None /\ UNCHANGED <<calling, up, mounted, overlap>>
      BY DEF Serve
    <2>. QED  BY <2>1, <2>2, <1>5, <1>7 DEF LinkInv, TypeOK
  <1>9. NothingSentToTheDead'
    BY DEF Serve, NothingSentToTheDead
  <1>10. LinkDrains'
    <2>. SUFFICES ASSUME ~ long'
                  PROVE  (Len(toServer) + Len(toClient) <= Cardinality(Waiting))'
      BY DEF LinkDrains
    <2>1. ~ long /\ n = 1
      BY <1>2
    <2>2. Len(toServer) + Len(toClient) <= Cardinality(Waiting)
      BY <2>1 DEF LinkInv, LinkDrains
    <2>3. Len(toClient') = Len(toClient) + 1
      BY <2>1, <1>7, ShortIsOnePiece
    <2>4. Waiting' = Waiting
      BY DEF Serve, Waiting
    <2>5. Len(toServer) \in Nat /\ Len(toClient) \in Nat
      BY <1>1, LenProperties
    <2>. QED  BY <2>2, <2>3, <2>4, <2>5, <1>5, WaitingIsCounted
  <1>. QED  BY <1>8, <1>9, <1>10 DEF LinkInv

\* What both ways to end an operation do to the types and to who waits.
LEMMA ReturnEnds ==
  ASSUME TypeOK, NEW w \in Worker, calling[w] # None, toClient' \in Seq(Answer),
         UNCHANGED <<toServer, up>>, long' \in BOOLEAN,
         NEW value \in Value, NEW from \in Worker \cup {None}, Return(w, value, from)
  PROVE  TypeOK' /\ Cardinality(Waiting') = Cardinality(Waiting) - 1
  <1>1. PICK told \in {"success", "error", "killed"} :
        /\ calling' = [calling EXCEPT ![w] = None]
        /\ returned' = [worker |-> w, op |-> calling[w], value |-> value,
                        from |-> from, told |-> told]
        /\ overlap' \in BOOLEAN /\ mounted' \in BOOLEAN
    BY ReturnTells
  <1>2. calling[w] \in Op
    BY DEF TypeOK
  <1>3. /\ returned'.worker \in Worker /\ returned'.op \in Op
        /\ returned'.value \in Value /\ returned'.from \in Worker \cup {None}
        /\ returned'.told \in {"success", "error", "killed"}
    BY <1>1, <1>2
  <1>4. calling' \in [Worker -> Op \cup {None}]
    BY <1>1 DEF TypeOK
  <1>5. TypeOK'
    BY <1>1, <1>3, <1>4 DEF TypeOK
  <1>. QED  BY <1>1, <1>5, OneLessWaits

LEMMA ReceiveKeeps ==
  ASSUME LinkInv, NEW w \in Worker, Receive(w)
  PROVE  LinkInv'
  <1>1. /\ toServer \in Seq(Request) /\ toClient \in Seq(Answer)
        /\ calling[w] # None /\ toClient # <<>> /\ UNCHANGED <<toServer, up>>
    BY DEF LinkInv, TypeOK, Receive
  <1>2. /\ toClient' \in Seq(Answer) /\ Len(toClient') < Len(toClient)
        /\ Return(w, toClient[1].value, toClient[1].worker)
        /\ long' \in BOOLEAN /\ (~ long' => ~ long)
    BY ReceiveDoes DEF LinkInv
  <1>4. toClient[1].value \in Value /\ toClient[1].worker \in Worker
    <2>1. toClient[1] \in Answer
      BY <1>1
    <2>. QED  BY <2>1 DEF Answer
  <1>5. TypeOK' /\ Cardinality(Waiting') = Cardinality(Waiting) - 1
    BY <1>1, <1>2, <1>4, ReturnEnds DEF LinkInv
  <1>6. NothingSentToTheDead'
    BY <1>1 DEF LinkInv, NothingSentToTheDead
  <1>7. LinkDrains'
    <2>1. Len(toServer) \in Nat /\ Len(toClient) \in Nat /\ Len(toClient') \in Nat
      BY <1>1, <1>2, LenProperties
    <2>. QED  BY <2>1, <1>1, <1>2, <1>5, WaitingIsCounted DEF LinkInv, LinkDrains
  <1>. QED  BY <1>5, <1>6, <1>7 DEF LinkInv

LEMMA ReceiveClosedKeeps ==
  ASSUME LinkInv, NEW w \in Worker, ReceiveClosed(w)
  PROVE  LinkInv'
  <1>1. /\ calling[w] # None /\ ~ up /\ toClient = <<>> /\ toClient' = toClient
        /\ UNCHANGED <<toServer, up, long>> /\ Return(w, Closed, None)
    BY DEF ReceiveClosed
  <1>2. Closed \in Value
    BY DEF Value
  <1>3. toClient' \in Seq(Answer)
    BY <1>1
  <1>4. TypeOK'
    <2>1. long' \in BOOLEAN
      BY <1>1 DEF LinkInv, TypeOK
    <2>. QED  BY <1>1, <1>2, <1>3, <2>1, ReturnEnds DEF LinkInv
  <1>5. toServer' = <<>> /\ toClient' = <<>>
    BY <1>1 DEF LinkInv, NothingSentToTheDead
  <1>6. Len(toServer') + Len(toClient') = 0
    BY <1>5
  <1>. QED  BY <1>4, <1>5, <1>6, WaitingIsCounted
            DEF LinkInv, NothingSentToTheDead, LinkDrains

LEMMA ServerEndsKeeps ==
  ASSUME LinkInv, ServerEnds
  PROVE  LinkInv'
  <1>1. /\ up' = FALSE /\ toServer' = <<>> /\ toClient' \in {toClient, <<>>}
        /\ returned' = None /\ UNCHANGED <<calling, mounted, overlap, long>>
    BY DEF ServerEnds
  <1>2. /\ toServer \in Seq(Request) /\ toClient \in Seq(Answer)
        /\ toServer' \in Seq(Request) /\ toClient' \in Seq(Answer)
    <2>1. toServer \in Seq(Request) /\ toClient \in Seq(Answer)
      BY DEF LinkInv, TypeOK
    <2>2. toServer' \in Seq(Request)
      BY <1>1
    <2>3. CASE toClient' = toClient
      BY <2>1, <2>2, <2>3
    <2>4. CASE toClient' = <<>>
      <3>1. toClient' \in Seq(Answer)
        BY <2>4
      <3>. QED  BY <2>1, <2>2, <3>1
    <2>. QED  BY <1>1, <2>3, <2>4
  <1>3. TypeOK'
    BY <1>1, <1>2 DEF LinkInv, TypeOK
  <1>4. LinkDrains'
    <2>1. /\ Len(toServer) \in Nat /\ Len(toClient) \in Nat
          /\ Len(toServer') = 0 /\ Len(toClient') \in {Len(toClient), 0}
      BY <1>1, <1>2, LenProperties
    <2>2. Waiting' = Waiting
      BY <1>1 DEF Waiting
    <2>. QED  BY <1>1, <2>1, <2>2, WaitingIsCounted DEF LinkInv, LinkDrains
  <1>. QED  BY <1>1, <1>3, <1>4 DEF LinkInv, NothingSentToTheDead

LEMMA StepKeepsLinkInv == LinkInv /\ [Next]_vars => LinkInv'
  <1>. SUFFICES ASSUME LinkInv, [Next]_vars
                PROVE  LinkInv'
    OBVIOUS
  <1>1. ASSUME NEW w \in Worker, NEW op \in Call, Send(w, op)
        PROVE  LinkInv'
    <2>1. op \in Op
      BY SacLinkAssumption
    <2>. QED  BY <1>1, <2>1, SendKeeps
  <1>2. ASSUME NEW w \in Worker, Receive(w) \/ ReceiveClosed(w)
        PROVE  LinkInv'
    BY <1>2, ReceiveKeeps, ReceiveClosedKeeps
  <1>3. CASE UNCHANGED vars
    BY <1>3 DEF vars, LinkInv, TypeOK, NothingSentToTheDead, LinkDrains, Waiting
  <1>. QED  BY <1>1, <1>2, <1>3, ServeKeeps, ServerEndsKeeps DEF Next
-----------------------------------------------------------------------------
(* Whose messages they are. *)

\* While no two operations met, what travels is the one waiting worker's.
WorkersOf(s) == {s[i].worker : i \in DOMAIN s}
QuietOwns ==
    ~ overlap /\ ~ long =>
        /\ \A v, w \in Waiting : v = w
        /\ WorkersOf(toServer) \subseteq Waiting
        /\ WorkersOf(toClient) \subseteq Waiting

LEMMA NobodyWaits ==
  ASSUME LinkInv, ~ long, Waiting = {}
  PROVE  toServer = <<>> /\ toClient = <<>>
  <1>1. Cardinality(Waiting) = 0
    BY FS_EmptySet
  <1>2. Len(toServer) + Len(toClient) <= 0
    BY <1>1 DEF LinkInv, LinkDrains
  <1>3. toServer \in Seq(Request) /\ toClient \in Seq(Answer)
    BY DEF LinkInv, TypeOK
  <1>. QED  BY <1>2, <1>3, LenProperties

LEMMA OneWaits ==
  ASSUME LinkInv, ~ long, NEW w \in Worker, Waiting = {w}
  PROVE  Len(toServer) + Len(toClient) <= 1
  <1>1. Cardinality(Waiting) = 1
    BY FS_Singleton
  <1>. QED  BY <1>1 DEF LinkInv, LinkDrains

LEMMA SendKeepsOwner ==
  ASSUME LinkInv, QuietOwns, NEW w \in Worker, NEW op \in Op, Send(w, op)
  PROVE  QuietOwns'
  <1>. SUFFICES ASSUME ~ overlap', ~ long'
                PROVE  /\ \A v, x \in Waiting' : v = x
                       /\ WorkersOf(toServer)' \subseteq Waiting'
                       /\ WorkersOf(toClient)' \subseteq Waiting'
    BY DEF QuietOwns
  <1>. DEFINE m == [op |-> op, worker |-> w, part |-> "whole"]
  <1>1. PICK n \in sizes(op, "write") :
          /\ toServer' = IF up THEN toServer \o pieces(n, m) ELSE toServer
          /\ long' = (long \/ n > 1)
    BY DEF Send
  <1>2. n \in {1, 2}
    BY <1>1, SacLinkAssumption DEF sizes
  <1>3. ~ long /\ n = 1
    <2>1. ~ (long \/ n > 1)
      BY <1>1
    <2>. QED  BY <2>1, <1>2
  <1>4. Waiting = {} /\ toClient' = toClient
    BY DEF Send
  <1>5. toServer = <<>> /\ toClient = <<>>
    BY <1>3, <1>4, NobodyWaits
  <1>6. pieces(n, m) = <<m>>
    BY <1>3 DEF pieces
  <1>7. toServer' \in {<<m>>, <<>>}
    BY <1>1, <1>5, <1>6
  <1>8. Waiting' = {w}
    <2>1. calling' = [calling EXCEPT ![w] = op] /\ calling \in [Worker -> Op \cup {None}]
      BY DEF Send, LinkInv, TypeOK
    <2>2. op # None
      BY SacLinkAssumption
    <2>3. \A v \in Worker : calling[v] = None
      BY <1>4 DEF Waiting
    <2>. QED  BY <2>1, <2>2, <2>3 DEF Waiting
  <1>9. WorkersOf(toServer)' \subseteq {w}
    <2>1. CASE toServer' = <<m>>
      BY <2>1 DEF WorkersOf
    <2>2. CASE toServer' = <<>>
      BY <2>2 DEF WorkersOf
    <2>. QED  BY <1>7, <2>1, <2>2
  <1>10. WorkersOf(toClient)' = {}
    BY <1>4, <1>5 DEF WorkersOf
  <1>. QED  BY <1>8, <1>9, <1>10

LEMMA ServeKeepsOwner ==
  ASSUME LinkInv, QuietOwns, Serve
  PROVE  QuietOwns'
  <1>. SUFFICES ASSUME ~ overlap', ~ long'
                PROVE  /\ \A v, x \in Waiting' : v = x
                       /\ WorkersOf(toServer)' \subseteq Waiting'
                       /\ WorkersOf(toClient)' \subseteq Waiting'
    BY DEF QuietOwns
  <1>1. PICK k \in readable(toServer), v \in first_string(toServer),
             n \in sizes(toServer[1].op, "read") :
          /\ toClient' = toClient \o
               pieces(n, [value |-> v, worker |-> toServer[1].worker, part |-> "whole"])
          /\ ~ long' => ~ long /\ n = 1 /\ toServer' = unread(toServer, k)
    BY ServeDoes DEF LinkInv
  <1>. DEFINE m == [value |-> v, worker |-> toServer[1].worker, part |-> "whole"]
  <1>3. ~ long /\ n = 1 /\ ~ overlap /\ toServer' = unread(toServer, k)
    BY <1>1 DEF Serve
  <1>4. /\ \A u, x \in Waiting : u = x
        /\ WorkersOf(toServer) \subseteq Waiting
        /\ WorkersOf(toClient) \subseteq Waiting
        /\ Waiting' = Waiting
    BY <1>3 DEF QuietOwns, Serve, Waiting
  <1>5. /\ toServer \in Seq(Request) /\ toClient \in Seq(Answer) /\ toServer # <<>>
    BY DEF LinkInv, TypeOK, Serve
  <1>6. 1 \in DOMAIN toServer /\ toServer[1].worker \in Waiting
    BY <1>4, <1>5 DEF WorkersOf
  <1>7. WorkersOf(toServer)' \subseteq Waiting
    <2>1. k \in 1 .. Len(toServer)
      BY DEF readable
    <2>2. /\ unread(toServer, k) \in Seq(Request)
          /\ \A i \in DOMAIN unread(toServer, k) :
               k + i \in DOMAIN toServer /\ unread(toServer, k)[i] = toServer[k + i]
      BY <1>5, <2>1, SubSeqProperties DEF unread
    <2>. QED  BY <1>3, <1>4, <2>2 DEF WorkersOf
  <1>8. toClient' = Append(toClient, m)
    BY <1>1, <1>3, <1>5 DEF pieces
  <1>9. WorkersOf(toClient)' \subseteq Waiting
    <2>. HIDE DEF m
    <2>1. m.worker \in Waiting
      BY <1>6 DEF m
    <2>2. \A i \in DOMAIN toClient' :
            \/ i \in DOMAIN toClient /\ toClient'[i] = toClient[i]
            \/ toClient'[i] = m
      BY <1>5, <1>8
    <2>. QED  BY <1>4, <2>1, <2>2 DEF WorkersOf
  <1>. QED  BY <1>4, <1>7, <1>9

LEMMA ReturnKeepsOwner ==
  ASSUME LinkInv, QuietOwns, NEW w \in Worker, Receive(w) \/ ReceiveClosed(w)
  PROVE  QuietOwns'
  <1>. SUFFICES ASSUME ~ overlap', ~ long'
                PROVE  /\ \A v, x \in Waiting' : v = x
                       /\ WorkersOf(toServer)' \subseteq Waiting'
                       /\ WorkersOf(toClient)' \subseteq Waiting'
    BY DEF QuietOwns
  <1>1. /\ calling' = [calling EXCEPT ![w] = None] /\ w \in Waiting
        /\ UNCHANGED <<toServer, up>> /\ ~ long
        /\ overlap' = (overlap /\ (Waiting # {w} \/ toServer # <<>> \/ toClient' # <<>>))
    BY ReceiveDoes DEF LinkInv, Receive, ReceiveClosed, Return, Waiting
  <1>2. Waiting' = Waiting \ {w}
    BY <1>1 DEF Waiting, LinkInv, TypeOK
  <1>3. toClient' \in Seq(Answer) /\ Len(toClient') <= Len(toClient)
        /\ (Receive(w) => Len(toClient') < Len(toClient))
    <2>1. CASE Receive(w)
      BY <2>1, ReceiveDoes, LenProperties DEF LinkInv
    <2>2. CASE ReceiveClosed(w) /\ ~ Receive(w)
      <3>1. toClient \in Seq(Answer) /\ toClient' = toClient
        BY <2>2 DEF LinkInv, TypeOK, ReceiveClosed
      <3>. QED  BY <2>2, <3>1, LenProperties
    <2>. QED  BY <2>1, <2>2
  <1>4. Waiting' = {} /\ toServer' = <<>> /\ toClient' = <<>>
    <2>1. CASE overlap
      BY <1>1, <1>2, <2>1
    <2>2. CASE ~ overlap
      <3>1. Waiting = {w} /\ ~ long
        BY <1>1, <2>2 DEF QuietOwns
      <3>2. Len(toServer) + Len(toClient) <= 1
        BY <3>1, OneWaits
      <3>3. /\ toServer \in Seq(Request) /\ Len(toServer) \in Nat
            /\ Len(toClient) \in Nat /\ Len(toClient') \in Nat
        BY <1>3, LenProperties DEF LinkInv, TypeOK
      <3>4. Len(toServer) = 0 /\ Len(toClient') = 0
        <4>1. CASE Receive(w)
          BY <1>3, <3>2, <3>3, <4>1
        <4>2. CASE ReceiveClosed(w)
          BY <4>2, <3>3 DEF ReceiveClosed, LinkInv, NothingSentToTheDead
        <4>. QED  BY <4>1, <4>2
      <3>. QED  BY <1>1, <1>2, <1>3, <3>1, <3>3, <3>4, LenProperties
    <2>. QED  BY <2>1, <2>2
  <1>. QED  BY <1>4 DEF WorkersOf

LEMMA ServerEndsKeepsOwner ==
  ASSUME LinkInv, QuietOwns, ServerEnds
  PROVE  QuietOwns'
  <1>1. /\ toServer' = <<>> /\ toClient' \in {toClient, <<>>}
        /\ UNCHANGED <<calling, overlap, long>>
    BY DEF ServerEnds
  <1>2. Waiting' = Waiting
    BY <1>1 DEF Waiting
  <1>3. WorkersOf(toServer)' = {}
    BY <1>1 DEF WorkersOf
  <1>4. WorkersOf(toClient)' \in {WorkersOf(toClient), {}}
    <2>1. CASE toClient' = toClient
      BY <2>1 DEF WorkersOf
    <2>2. CASE toClient' = <<>>
      BY <2>2 DEF WorkersOf
    <2>. QED  BY <1>1, <2>1, <2>2
  <1>. QED  BY <1>1, <1>2, <1>3, <1>4 DEF QuietOwns

LEMMA StepKeepsOwner == LinkInv /\ QuietOwns /\ [Next]_vars => QuietOwns'
  <1>. SUFFICES ASSUME LinkInv, QuietOwns, [Next]_vars
                PROVE  QuietOwns'
    OBVIOUS
  <1>1. ASSUME NEW w \in Worker, NEW op \in Call, Send(w, op)
        PROVE  QuietOwns'
    <2>1. op \in Op
      BY SacLinkAssumption
    <2>. QED  BY <1>1, <2>1, SendKeepsOwner
  <1>2. ASSUME NEW w \in Worker, Receive(w) \/ ReceiveClosed(w)
        PROVE  QuietOwns'
    BY <1>2, ReturnKeepsOwner
  <1>3. CASE UNCHANGED vars
    BY <1>3 DEF vars, QuietOwns, Waiting, WorkersOf
  <1>. QED  BY <1>1, <1>2, <1>3, ServeKeepsOwner, ServerEndsKeepsOwner DEF Next

\* The lone worker's answer is the answer to its own request.
LEMMA TheAnswerIsOwn ==
  ASSUME LinkInv, QuietOwns, Next
  PROVE  Alone /\ returned' # None => returned'.from = returned'.worker
  <1>. SUFFICES ASSUME Alone, returned' # None
                PROVE  returned'.from = returned'.worker
    OBVIOUS
  <1>1. PICK w \in Worker : Receive(w)
    <2>1. \A w \in Worker : ~ ReceiveClosed(w)
      BY DEF Alone, ReceiveClosed
    <2>. QED  BY <2>1 DEF Next, Send, Serve, ServerEnds
  <1>2. /\ toClient # <<>> /\ w \in Waiting
        /\ returned'.worker = w /\ returned'.from = toClient[1].worker
    BY <1>1 DEF Receive, Return, Waiting
  <1>3. toClient[1].worker \in WorkersOf(toClient)
    <2>1. toClient \in Seq(Answer)
      BY DEF LinkInv, TypeOK
    <2>. QED  BY <1>2, <2>1 DEF WorkersOf
  <1>. QED  BY <1>2, <1>3 DEF Alone, QuietOwns
-----------------------------------------------------------------------------
(* What the answers say. *)

\* While no two operations met, requests and answers are those of the
\* operation their worker is in.
QuietFits ==
    ~ overlap /\ ~ long =>
        /\ \A i \in DOMAIN toServer :
              /\ toServer[i].part = "whole"
              /\ toServer[i].op = calling[toServer[i].worker]
        /\ \A i \in DOMAIN toClient :
              toClient[i].value \in replies[calling[toClient[i].worker]]

\* A request sent is one of the operation its worker enters; nothing else travels
\* while it is alone.
LEMMA SendKeepsFit ==
  ASSUME LinkInv, QuietFits, NEW w \in Worker, NEW op \in Op, Send(w, op)
  PROVE  QuietFits'
  <1>. SUFFICES ASSUME ~ overlap', ~ long'
                PROVE  /\ \A i \in DOMAIN toServer' :
                             /\ toServer'[i].part = "whole"
                             /\ toServer'[i].op = calling'[toServer'[i].worker]
                       /\ \A i \in DOMAIN toClient' :
                             toClient'[i].value \in replies[calling'[toClient'[i].worker]]
    BY DEF QuietFits
  <1>. DEFINE m == [op |-> op, worker |-> w, part |-> "whole"]
  <1>1. PICK n \in sizes(op, "write") :
          /\ toServer' = IF up THEN toServer \o pieces(n, m) ELSE toServer
          /\ long' = (long \/ n > 1)
    BY DEF Send
  <1>2. n \in {1, 2}
    BY <1>1, SacLinkAssumption DEF sizes
  <1>3. ~ long /\ n = 1
    <2>1. ~ (long \/ n > 1)
      BY <1>1
    <2>. QED  BY <2>1, <1>2
  <1>4. Waiting = {} /\ toClient' = toClient
    BY DEF Send
  <1>5. toServer = <<>> /\ toClient = <<>>
    BY <1>3, <1>4, NobodyWaits
  <1>6. pieces(n, m) = <<m>>
    BY <1>3 DEF pieces
  <1>7. toServer' \in {<<m>>, <<>>}
    BY <1>1, <1>5, <1>6
  <1>8. calling'[w] = op
    BY DEF Send, LinkInv, TypeOK
  <1>9. \A i \in DOMAIN toServer' : toServer'[i] = m
    <2>. HIDE DEF m
    <2>1. CASE toServer' = <<m>>
      BY <2>1
    <2>2. CASE toServer' = <<>>
      BY <2>2
    <2>. QED  BY <1>7, <2>1, <2>2
  <1>. QED  BY <1>4, <1>5, <1>8, <1>9

\* The server answers the first request it reads with one of its operation's answers.
LEMMA ServeKeepsFit ==
  ASSUME LinkInv, QuietFits, Serve
  PROVE  QuietFits'
  <1>. SUFFICES ASSUME ~ overlap', ~ long'
                PROVE  /\ \A i \in DOMAIN toServer' :
                             /\ toServer'[i].part = "whole"
                             /\ toServer'[i].op = calling'[toServer'[i].worker]
                       /\ \A i \in DOMAIN toClient' :
                             toClient'[i].value \in replies[calling'[toClient'[i].worker]]
    BY DEF QuietFits
  <1>1. PICK k \in readable(toServer), v \in first_string(toServer),
             n \in sizes(toServer[1].op, "read") :
          /\ toClient' = toClient \o
               pieces(n, [value |-> v, worker |-> toServer[1].worker, part |-> "whole"])
          /\ ~ long' => ~ long /\ n = 1 /\ toServer' = unread(toServer, k)
    BY ServeDoes DEF LinkInv
  <1>. DEFINE m == [value |-> v, worker |-> toServer[1].worker, part |-> "whole"]
  <1>3. ~ long /\ n = 1 /\ ~ overlap /\ calling' = calling /\ toServer' = unread(toServer, k)
    BY <1>1 DEF Serve
  <1>4. /\ \A i \in DOMAIN toServer :
             /\ toServer[i].part = "whole"
             /\ toServer[i].op = calling[toServer[i].worker]
        /\ \A i \in DOMAIN toClient :
             toClient[i].value \in replies[calling[toClient[i].worker]]
    BY <1>3 DEF QuietFits
  <1>5. /\ toServer \in Seq(Request) /\ toClient \in Seq(Answer) /\ toServer # <<>>
        /\ 1 \in DOMAIN toServer
    BY DEF LinkInv, TypeOK, Serve
  <1>6. v \in replies[calling[toServer[1].worker]]
    BY <1>1, <1>4, <1>5 DEF first_string
  <1>7. \A i \in DOMAIN toServer' :
             /\ toServer'[i].part = "whole"
             /\ toServer'[i].op = calling'[toServer'[i].worker]
    <2>1. k \in 1 .. Len(toServer)
      BY DEF readable
    <2>2. /\ unread(toServer, k) \in Seq(Request)
          /\ \A i \in DOMAIN unread(toServer, k) :
               k + i \in DOMAIN toServer /\ unread(toServer, k)[i] = toServer[k + i]
      BY <1>5, <2>1, SubSeqProperties, SMTT(60) DEF unread
    <2>. QED  BY <1>3, <1>4, <2>2
  <1>8. toClient' = Append(toClient, m)
    BY <1>1, <1>3, <1>5 DEF pieces
  <1>9. \A i \in DOMAIN toClient' :
             toClient'[i].value \in replies[calling'[toClient'[i].worker]]
    <2>1. m.value = v /\ m.worker = toServer[1].worker
      OBVIOUS
    <2>. HIDE DEF m
    <2>2. \A i \in DOMAIN toClient' :
            \/ i \in DOMAIN toClient /\ toClient'[i] = toClient[i]
            \/ toClient'[i] = m
      BY <1>5, <1>8
    <2>. QED  BY <1>3, <1>4, <1>6, <2>1, <2>2
  <1>. QED  BY <1>7, <1>9

\* A lone worker that returns leaves nothing travelling.
LEMMA ReturnKeepsFit ==
  ASSUME LinkInv, QuietOwns, QuietFits, NEW w \in Worker, Receive(w) \/ ReceiveClosed(w)
  PROVE  QuietFits'
  <1>. SUFFICES ASSUME ~ overlap', ~ long'
                PROVE  toServer' = <<>> /\ toClient' = <<>>
    BY DEF QuietFits
  <1>1. LinkInv' /\ QuietOwns'
    BY ReturnKeepsOwner, ReceiveKeeps, ReceiveClosedKeeps
  <1>2. Waiting' = {}
    <2>1. calling' = [calling EXCEPT ![w] = None] /\ w \in Waiting
          /\ overlap' = (overlap /\ (Waiting # {w} \/ toServer # <<>> \/ toClient' # <<>>))
          /\ ~ long
      BY ReceiveDoes DEF LinkInv, Receive, ReceiveClosed, Return, Waiting
    <2>2. Waiting = {w}
      <3>1. CASE overlap
        BY <2>1, <3>1
      <3>2. CASE ~ overlap
        BY <2>1, <3>2 DEF QuietOwns
      <3>. QED  BY <3>1, <3>2
    <2>. QED  BY <2>1, <2>2 DEF Waiting, LinkInv, TypeOK
  <1>3. (Len(toServer) + Len(toClient))' <= 0
    <2>1. Cardinality(Waiting') = 0
      BY <1>2, FS_EmptySet
    <2>. QED  BY <1>1, <2>1 DEF LinkInv, LinkDrains
  <1>4. toServer' \in Seq(Request) /\ toClient' \in Seq(Answer)
    BY <1>1 DEF LinkInv, TypeOK
  <1>. QED  BY <1>3, <1>4, LenProperties

LEMMA StepKeepsFit == LinkInv /\ QuietOwns /\ QuietFits /\ [Next]_vars => QuietFits'
  <1>. SUFFICES ASSUME LinkInv, QuietOwns, QuietFits, [Next]_vars
                PROVE  QuietFits'
    OBVIOUS
  <1>1. ASSUME NEW w \in Worker, NEW op \in Call, Send(w, op)
        PROVE  QuietFits'
    <2>1. op \in Op
      BY SacLinkAssumption
    <2>. QED  BY <1>1, <2>1, SendKeepsFit
  <1>2. ASSUME NEW w \in Worker, Receive(w) \/ ReceiveClosed(w)
        PROVE  QuietFits'
    BY <1>2, ReturnKeepsFit
  <1>3. CASE ServerEnds
    <2>1. /\ toServer' = <<>> /\ toClient' \in {toClient, <<>>}
          /\ UNCHANGED <<calling, overlap, long>>
      BY <1>3 DEF ServerEnds
    <2>2. CASE toClient' = toClient
      BY <2>1, <2>2 DEF QuietFits
    <2>3. CASE toClient' = <<>>
      BY <2>1, <2>3 DEF QuietFits
    <2>. QED  BY <2>1, <2>2, <2>3
  <1>4. CASE UNCHANGED vars
    BY <1>4 DEF vars, QuietFits
  <1>. QED  BY <1>1, <1>2, <1>3, <1>4, ServeKeepsFit DEF Next

\* An operation's answers are told apart: errors from the rest.  Only a text
\* that is read may be told as either.
LEMMA ResultsAreTrue ==
  ASSUME NEW op \in Op, op # "write", NEW v \in replies[op], NEW told \in results(op, v)
  PROVE  /\ v \notin Done => told = "error"
         /\ told = "error" /\ v \in Done => op = "read" /\ v = "data"
  <1>1. CASE op = "open"
    BY <1>1 DEF replies, refusals, results, Done
  <1>2. CASE op = "read"
    BY <1>2 DEF replies, refusals, results, Done
  <1>3. CASE op = "getattr"
    <2>1. v \in {"S_IFDIR", "-ENOENT", "S_IFREG n"}
      BY <1>3 DEF replies
    <2>2. v \in Value
      BY DEF Value
    <2>3. v # Closed
      BY <2>1 DEF Closed
    <2>4. v \in refusals[op] <=> v = "-ENOENT"
      BY <1>3, <2>1, <2>2, <2>3 DEF refusals
    <2>5. told = "error" <=> v \in refusals[op]
      BY <1>3, <2>3 DEF results
    <2>. QED  BY <2>1, <2>4, <2>5 DEF Done
  <1>4. CASE op = "mknod"
    <2>1. v \in {"EEXIST", "ENAMETOOLONG", "ENOENT", "ENOTDIR", "n"}
      BY <1>4 DEF replies, creation_refusals
    <2>2. refusals[op] = creation_errors
      BY <1>4 DEF refusals
    <2>3. told = "error" <=> v \in refusals[op]
      BY <1>4 DEF results
    <2>. QED  BY <2>1, <2>2, <2>3 DEF Done, creation_errors
  <1>5. CASE op = "mkdir"
    <2>1. v \in {"EEXIST", "ENAMETOOLONG", "ENOENT", "ENOTDIR", "n"}
      BY <1>5 DEF replies, creation_refusals
    <2>2. refusals[op] = creation_errors
      BY <1>5 DEF refusals
    <2>3. told = "error" <=> v \in refusals[op]
      BY <1>5 DEF results
    <2>. QED  BY <2>1, <2>2, <2>3 DEF Done, creation_errors
  <1>. QED  BY <1>1, <1>2, <1>3, <1>4, <1>5 DEF Op

\* The lone worker's answer is one of its operation's, and is taken for what it says.
LEMMA TheAnswerIsTrue ==
  ASSUME LinkInv, QuietFits, QuietOwns, Next
  PROVE  Alone /\ returned' # None /\ returned'.op # "write"
           => /\ returned'.value \in replies[returned'.op]
              /\ returned'.value \notin Done => returned'.told = "error"
              /\ returned'.told = "error" /\ returned'.value \in Done
                   => returned'.op = "read" /\ returned'.value = "data"
  <1>. SUFFICES ASSUME Alone, returned' # None, returned'.op # "write"
                PROVE  /\ returned'.value \in replies[returned'.op]
                       /\ returned'.value \notin Done => returned'.told = "error"
                       /\ returned'.told = "error" /\ returned'.value \in Done
                            => returned'.op = "read" /\ returned'.value = "data"
    OBVIOUS
  <1>1. PICK w \in Worker : Receive(w)
    <2>1. \A w \in Worker : ~ ReceiveClosed(w)
      BY DEF Alone, ReceiveClosed
    <2>. QED  BY <2>1 DEF Next, Send, Serve, ServerEnds
  <1>2. /\ toClient # <<>> /\ w \in Waiting
        /\ returned'.worker = w /\ returned'.op = calling[w]
        /\ returned'.value = toClient[1].value
        /\ returned'.told \in results(calling[w], toClient[1].value)
    BY <1>1, ReturnTells DEF Receive, Waiting
  <1>3. 1 \in DOMAIN toClient /\ calling[w] \in Op
    BY <1>2 DEF LinkInv, TypeOK, Waiting
  <1>4. toClient[1].worker = w
    BY <1>2, <1>3 DEF Alone, QuietOwns, WorkersOf
  <1>5. toClient[1].value \in replies[calling[w]]
    BY <1>3, <1>4 DEF Alone, QuietFits
  <1>. QED  BY <1>2, <1>3, <1>5, ResultsAreTrue
-----------------------------------------------------------------------------
\* Type correctness: what is sent, what travels and what is returned keep
\* their form, for every set of workers and operations.
THEOREM LinkTypesHold == Spec => []TypeOK
  <1>1. LinkInv => TypeOK
    BY DEF LinkInv
  <1>. QED  BY <1>1, InitHasLinkInv, StepKeepsLinkInv, PTL DEF Spec

\* For every set of workers: while no message is longer than its reader's
\* buffer, no more pieces travel than workers wait, so that when the last of
\* them has its answer nothing is left for the next operation to find.
THEOREM DrainHolds == Spec => []LinkDrains
  <1>1. LinkInv => LinkDrains
    BY DEF LinkInv
  <1>. QED  BY <1>1, InitHasLinkInv, StepKeepsLinkInv, PTL DEF Spec

\* For every set of workers: an operation that met no other since the
\* connection was quiet gets the answer to its own request, however requests
\* and answers were read together before.
THEOREM OwnAnswersHold == Spec => OwnAnswerWhenAlone
  <1>1. Init => QuietOwns
    BY DEF Init, QuietOwns, Waiting, WorkersOf
  <1>2. LinkInv /\ QuietOwns /\ [Next]_vars =>
          [Alone /\ returned' # None => returned'.from = returned'.worker]_vars
    BY TheAnswerIsOwn
  <1>. QED  BY <1>1, <1>2, InitHasLinkInv, StepKeepsLinkInv, StepKeepsOwner, PTL
            DEF Spec, OwnAnswerWhenAlone

\* For every set of workers: such an operation, unless it is a write, reads one
\* of its own answers and tells FUSE of an error whenever the server refused;
\* without a refusal, only when it is a read that was given a text.
THEOREM TruthHolds == Spec => ToldTheTruthWhenAlone
  <1>1. Init => QuietOwns /\ QuietFits
    BY DEF Init, QuietOwns, QuietFits, Waiting, WorkersOf
  <1>2. LinkInv /\ QuietOwns /\ QuietFits /\ [Next]_vars =>
          [Alone /\ returned' # None /\ returned'.op # "write"
             => /\ returned'.value \in replies[returned'.op]
                /\ returned'.value \notin Done => returned'.told = "error"
                /\ returned'.told = "error" /\ returned'.value \in Done
                     => returned'.op = "read" /\ returned'.value = "data"]_vars
    BY TheAnswerIsTrue
  <1>. QED  BY <1>1, <1>2, InitHasLinkInv, StepKeepsLinkInv, StepKeepsOwner, StepKeepsFit,
               PTL DEF Spec, ToldTheTruthWhenAlone
-----------------------------------------------------------------------------
(* Nobody waits alone for nothing. *)

\* An operation that met no other waits with the client mounted, and with its
\* request on the way or an answer to read, its own or a leftover; unless the
\* server ended, and then its read returns.
LoneCallCanEnd ==
    ~ overlap =>
        /\ \A v, w \in Waiting : v = w
        /\ \A w \in Waiting : mounted /\ (up => toServer # <<>> \/ toClient # <<>>)

\* A message has a piece at least.
LEMMA SomethingIsSent ==
  ASSUME NEW S, NEW s \in Seq(S), NEW n, NEW m, pieces(n, m) \in Seq(S)
  PROVE  s \o pieces(n, m) # <<>>
  <1>1. Len(pieces(n, m)) = 1 \/ Len(pieces(n, m)) = 2
    <2>1. CASE n = 1
      BY <2>1, ShortIsOnePiece
    <2>2. CASE n # 1
      <3>1. pieces(n, m) = <<[m EXCEPT !.part = "head"], [m EXCEPT !.part = "rest"]>>
        BY <2>2 DEF pieces
      <3>2. \A x, y : Len(<<x, y>>) = 2
        OBVIOUS
      <3>. QED  BY <3>1, <3>2
    <2>. QED  BY <2>1, <2>2
  <1>2. Len(s \o pieces(n, m)) = Len(s) + Len(pieces(n, m)) /\ Len(s) \in Nat
    BY ConcatProperties, LenProperties
  <1>3. Len(s \o pieces(n, m)) # 0
    BY <1>1, <1>2, SMTT(60)
  <1>. QED  BY <1>3

\* A call is sent by a worker of its own, and the server gets it or is gone.
LEMMA SendCanEnd ==
  ASSUME LinkInv, LoneCallCanEnd, NEW w \in Worker, NEW op \in Op, Send(w, op)
  PROVE  LoneCallCanEnd'
  <1>. DEFINE m == [op |-> op, worker |-> w, part |-> "whole"]
  <1>1. PICK n : toServer' = IF up THEN toServer \o pieces(n, m) ELSE toServer
    BY DEF Send
  <1>2. toServer \in Seq(Request) /\ pieces(n, m) \in Seq(Request)
    BY ARequestIsPieces DEF LinkInv, TypeOK
  <1>. HIDE DEF m
  <1>3. up' => toServer' # <<>>
    BY <1>1, <1>2, SomethingIsSent DEF Send
  <1>4. Waiting' = Waiting \cup {w}
    BY SacLinkAssumption DEF Send, Waiting, LinkInv, TypeOK
  <1>5. mounted' /\ (~ overlap' => Waiting = {})
    BY DEF Send
  <1>. QED  BY <1>3, <1>4, <1>5 DEF LoneCallCanEnd

\* What is served is answered.
LEMMA ServeCanEnd ==
  ASSUME LinkInv, LoneCallCanEnd, Serve
  PROVE  LoneCallCanEnd'
  <1>1. toServer \in Seq(Request) /\ toClient \in Seq(Answer) /\ toServer # <<>>
    BY DEF LinkInv, TypeOK, Serve
  <1>. DEFINE m(v) == [value |-> v, worker |-> toServer[1].worker, part |-> "whole"]
  <1>2. PICK v \in first_string(toServer), n \in sizes(toServer[1].op, "read") :
          toClient' = toClient \o pieces(n, m(v))
    BY ServeDoes DEF LinkInv
  <1>3. toServer[1].worker \in Worker /\ v \in Value
    <2>1. toServer[1] \in Request /\ v \in first_string(<<toServer[1]>>)
      BY <1>1, <1>2, FirstStringOfTheFirst
    <2>2. toServer[1].worker \in Worker
      BY <2>1 DEF Request
    <2>. QED  BY <2>1, <2>2, AnswersAreValues
  <1>4. pieces(n, m(v)) \in Seq(Answer)
    BY <1>3, AnAnswerIsPieces
  <1>. HIDE DEF m
  <1>5. toClient' # <<>>
    BY <1>1, <1>2, <1>4, SomethingIsSent
  <1>6. UNCHANGED <<overlap, mounted>> /\ Waiting' = Waiting
    BY DEF Serve, Waiting
  <1>. QED  BY <1>5, <1>6 DEF LoneCallCanEnd

\* When an operation ends that met no other, nobody waits; the overlap ends
\* with the last of those that met.
LEMMA ReturnCanEnd ==
  ASSUME LinkInv, LoneCallCanEnd, NEW w \in Worker, Receive(w) \/ ReceiveClosed(w)
  PROVE  LoneCallCanEnd'
  <1>1. /\ calling' = [calling EXCEPT ![w] = None] /\ w \in Waiting
        /\ overlap' = (overlap /\ (Waiting # {w} \/ toServer # <<>> \/ toClient' # <<>>))
    BY DEF Receive, ReceiveClosed, Return, Waiting
  <1>2. Waiting' = Waiting \ {w}
    BY <1>1 DEF Waiting, LinkInv, TypeOK
  <1>3. ASSUME ~ overlap'
        PROVE  Waiting' = {}
    <2>1. CASE ~ overlap
      BY <2>1, <1>1, <1>2 DEF LoneCallCanEnd
    <2>2. CASE Waiting = {w}
      BY <2>2, <1>2
    <2>. QED  BY <2>1, <2>2, <1>1, <1>3
  <1>. QED  BY <1>3 DEF LoneCallCanEnd

LEMMA StepCanEnd == LinkInv /\ LoneCallCanEnd /\ [Next]_vars => LoneCallCanEnd'
  <1>. SUFFICES ASSUME LinkInv, LoneCallCanEnd, [Next]_vars
                PROVE  LoneCallCanEnd'
    OBVIOUS
  <1>1. CASE \E w \in Worker, op \in Call : Send(w, op)
    BY <1>1, SacLinkAssumption, SendCanEnd
  <1>2. CASE \E w \in Worker : Receive(w) \/ ReceiveClosed(w)
    BY <1>2, ReturnCanEnd
  <1>3. CASE Serve
    BY <1>3, ServeCanEnd
  <1>4. CASE ServerEnds
    BY <1>4 DEF ServerEnds, LoneCallCanEnd, Waiting
  <1>5. CASE UNCHANGED vars
    BY <1>5 DEF vars, LoneCallCanEnd, Waiting
  <1>. QED  BY <1>1, <1>2, <1>3, <1>4, <1>5 DEF Next

\* For every set of workers, and whatever was left over by operations that met
\* or by messages that took two reads: an operation that meets no other never
\* waits for nothing.  What is left of LoneCallEnds is fairness.
THEOREM LoneCallsCanEnd == Spec => []LoneCallCanEnd
  <1>1. Init => LoneCallCanEnd
    BY DEF Init, LoneCallCanEnd, Waiting
  <1>. QED  BY <1>1, InitHasLinkInv, StepKeepsLinkInv, StepCanEnd, PTL DEF Spec
=============================================================================
