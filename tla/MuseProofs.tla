----------------------------- MODULE MuseProofs -----------------------------
(* For every number of frames, the modified clock always ends at a frame, at *)
(* the one that its description names, and gets nearer to all the others.    *)
EXTENDS MuseProperties, IntervalLemmas, TLAPS

LEMMA FrameIsNat == Frame \subseteq Nat /\ 0 \in Frame
  BY MuseAssumption DEF Frame

LEMMA LeastOf ==
  ASSUME NEW S \in SUBSET Frame, S # {}
  PROVE  Min(S) \in S /\ \A k \in S : Min(S) <= k
  <1>1. FrameCount - 1 \in Nat /\ S \in SUBSET (0 .. FrameCount - 1)
    BY MuseAssumption DEF Frame
  <1>. QED  BY <1>1, LeastExists

\* The hand meets every frame in one round, and each of them once.
LEMMA TurnedIsAFrame ==
  ASSUME clockPointer \in Frame, NEW k \in Nat
  PROVE  turned(k) \in Frame
  BY MuseAssumption DEF turned, Frame

LEMMA TurnsAreRight ==
  ASSUME clockPointer \in Frame, NEW k \in Frame
  PROVE  turns_to(turned(k)) = k
  <1>1. clockPointer + k < FrameCount =>
          turned(k) = clockPointer + k /\ turns_to(turned(k)) = k
    BY MuseAssumption DEF turned, turns_to, Frame
  <1>2. clockPointer + k >= FrameCount =>
          turned(k) = clockPointer + k - FrameCount /\ turns_to(turned(k)) = k
    BY MuseAssumption DEF turned, turns_to, Frame
  <1>. QED  BY <1>1, <1>2, MuseAssumption DEF Frame

LEMMA EveryFrameIsMet ==
  ASSUME clockPointer \in Frame, NEW i \in Frame
  PROVE  turns_to(i) \in Frame /\ turned(turns_to(i)) = i
  <1>1. i >= clockPointer =>
          turns_to(i) = i - clockPointer /\ turned(turns_to(i)) = i
    BY MuseAssumption DEF turned, turns_to, Frame
  <1>2. i < clockPointer =>
          turns_to(i) = i - clockPointer + FrameCount /\ turned(turns_to(i)) = i
    BY MuseAssumption DEF turned, turns_to, Frame
  <1>. QED  BY <1>1, <1>2, MuseAssumption DEF Frame

\* What a round stops at is the first frame from the hand with those bits.
LEMMA StopsAtTheFirst ==
  ASSUME clockPointer \in Frame,
         NEW frames \in [Frame -> frame_t], NEW u \in {0, 1}, NEW m \in {0, 1},
         round(frames, u, m) # {}
  PROVE  LET v == turned(Min(round(frames, u, m))) IN
         /\ Min(round(frames, u, m)) \in Frame /\ v \in Frame
         /\ frames[v].used = u /\ frames[v].modif = m
         /\ \A i \in Frame \ {v} :
              frames[i].used = u /\ frames[i].modif = m => turns_to(v) < turns_to(i)
  <1>. DEFINE R == round(frames, u, m)
              v == turned(Min(R))
  <1>1. R \in SUBSET Frame
    BY DEF round
  <1>2. Min(R) \in R /\ \A k \in R : Min(R) <= k
    BY <1>1, LeastOf
  <1>3. Min(R) \in Frame /\ v \in Frame /\ turns_to(v) = Min(R)
    BY <1>1, <1>2, FrameIsNat, TurnedIsAFrame, TurnsAreRight
  <1>4. frames[v].used = u /\ frames[v].modif = m
    BY <1>2 DEF round
  <1>5. ASSUME NEW i \in Frame \ {v}, frames[i].used = u, frames[i].modif = m
        PROVE  turns_to(v) < turns_to(i)
    <2>1. turns_to(i) \in Frame /\ turned(turns_to(i)) = i
      BY EveryFrameIsMet
    <2>2. turns_to(i) \in R
      BY <2>1, <1>5 DEF round
    <2>3. turns_to(i) # Min(R)
      BY <2>1
    <2>4. Min(R) <= turns_to(i)
      BY <2>2, <1>2
    <2>5. turns_to(i) \in Nat /\ Min(R) \in Nat
      BY <2>1, <1>3, FrameIsNat
    <2>6. turns_to(v) = Min(R)
      BY <1>3
    <2>. HIDE DEF R, v
    <2>. QED  BY <2>3, <2>4, <2>5, <2>6
  <1>. QED  BY <1>3, <1>4, <1>5

\* A round that stops nowhere has met no such frame.
LEMMA NothingWasMissed ==
  ASSUME clockPointer \in Frame,
         NEW frames \in [Frame -> frame_t], NEW u \in {0, 1}, NEW m \in {0, 1},
         round(frames, u, m) = {}
  PROVE  \A i \in Frame : ~ (frames[i].used = u /\ frames[i].modif = m)
  BY EveryFrameIsMet DEF round

\* A whole second round clears every frame.
LEMMA AllAreCleared ==
  ASSUME clockPointer \in Frame, NEW frames \in [Frame -> frame_t]
  PROVE  /\ cleared(frames, Frame) \in [Frame -> frame_t]
         /\ \A i \in Frame : /\ cleared(frames, Frame)[i].used = 0
                             /\ cleared(frames, Frame)[i].modif = frames[i].modif
  <1>1. ASSUME NEW i \in Frame
        PROVE  cleared(frames, Frame)[i] = [frames[i] EXCEPT !.used = 0]
    BY EveryFrameIsMet DEF cleared, passed
  <1>2. ASSUME NEW i \in Frame
        PROVE  /\ [frames[i] EXCEPT !.used = 0] \in frame_t
               /\ [frames[i] EXCEPT !.used = 0].used = 0
               /\ [frames[i] EXCEPT !.used = 0].modif = frames[i].modif
    <2>. frames[i] \in frame_t
      OBVIOUS
    <2>. QED  BY DEF frame_t
  <1>3. cleared(frames, Frame) = [i \in Frame |-> cleared(frames, Frame)[i]]
    BY DEF cleared
  <1>. QED  BY <1>1, <1>2, <1>3

LEMMA SomeAreCleared ==
  ASSUME NEW frames \in [Frame -> frame_t], NEW turns
  PROVE  cleared(frames, turns) \in [Frame -> frame_t]
  <1>1. ASSUME NEW i \in Frame
        PROVE  passed(frames[i]) \in frame_t /\ frames[i] \in frame_t
    <2>. frames[i] \in frame_t
      OBVIOUS
    <2>. QED  BY DEF frame_t, passed
  <1>. QED  BY <1>1 DEF cleared

\* The victim the algorithm names: of the least class, and of those the first.
Named(v) ==
    /\ v \in Frame
    /\ \A i \in Frame \ {v} :
          \/ class(bitmapFrames[v]) < class(bitmapFrames[i])
          \/ /\ class(bitmapFrames[v]) = class(bitmapFrames[i])
             /\ turns_to(v) < turns_to(i)

\* The clock always finds a frame, whatever the table and the hand are.
THEOREM ClockFindsItsVictim ==
  ASSUME bitmapFrames \in [Frame -> frame_t], clockPointer \in Frame
  PROVE  /\ Named(clockModif.victim)
         /\ clockModif.pointer \in Frame
         /\ clockModif.frames \in [Frame -> frame_t]
  <1>. DEFINE one   == round(bitmapFrames, 0, 0)
              two   == round(bitmapFrames, 0, 1)
              after == cleared(bitmapFrames, Frame)
              three == round(after, 0, 0)
              four  == round(after, 0, 1)
  <1>1. \A i \in Frame : /\ bitmapFrames[i].used \in {0, 1}
                         /\ bitmapFrames[i].modif \in {0, 1}
    BY DEF frame_t
  <1>2. after \in [Frame -> frame_t]
    BY AllAreCleared
  <1>3. \A k \in Frame : turned(k + 1) \in Frame
    BY TurnedIsAFrame, FrameIsNat
  <1>4. CASE one # {}
    <2>1. clockModif = stop(Min(one), bitmapFrames)
      BY <1>4 DEF clockModif
    <2>2. Named(turned(Min(one)))
      BY <1>4, <1>1, StopsAtTheFirst DEF Named, class
    <2>. QED  BY <2>1, <2>2, <1>3, <1>4, StopsAtTheFirst DEF stop
  <1>5. CASE one = {} /\ two # {}
    <2>1. clockModif = stop(Min(two), cleared(bitmapFrames, 0 .. Min(two) - 1))
      BY <1>5 DEF clockModif
    <2>2. \A i \in Frame : ~ (bitmapFrames[i].used = 0 /\ bitmapFrames[i].modif = 0)
      BY <1>5, NothingWasMissed
    <2>3. Named(turned(Min(two)))
      BY <1>5, <1>1, <2>2, StopsAtTheFirst DEF Named, class
    <2>. QED  BY <2>1, <2>3, <1>3, <1>5, StopsAtTheFirst, SomeAreCleared DEF stop
  <1>6. CASE one = {} /\ two = {}
    <2>1. \A i \in Frame : /\ ~ (bitmapFrames[i].used = 0 /\ bitmapFrames[i].modif = 0)
                           /\ ~ (bitmapFrames[i].used = 0 /\ bitmapFrames[i].modif = 1)
      BY <1>6, NothingWasMissed
    <2>2. \A i \in Frame : /\ bitmapFrames[i].used = 1
                           /\ after[i].used = 0
                           /\ after[i].modif = bitmapFrames[i].modif
      BY <2>1, <1>1, AllAreCleared
    <2>3. CASE three # {}
      <3>1. clockModif = stop(Min(three), after)
        BY <1>6, <2>3 DEF clockModif
      <3>. DEFINE v == turned(Min(three))
      <3>2. /\ Min(three) \in Frame /\ v \in Frame /\ after[v].modif = 0
            /\ \A i \in Frame \ {v} : after[i].used = 0 /\ after[i].modif = 0
                                        => turns_to(v) < turns_to(i)
        BY <2>3, <1>2, StopsAtTheFirst
      <3>3. Named(v)
        <4>. HIDE DEF v, after, three
        <4>. QED  BY <1>1, <2>2, <3>2 DEF Named, class
      <3>. QED  BY <3>1, <3>2, <3>3, <1>2, <1>3 DEF stop
    <2>4. CASE three = {}
      <3>1. \A i \in Frame : after[i].modif = 1
        BY <2>2, <2>4, <1>1, <1>2, NothingWasMissed
      <3>2. four # {}
        BY <2>2, <3>1, FrameIsNat, TurnedIsAFrame DEF round
      <3>3. clockModif = stop(Min(four), after)
        BY <1>6, <2>4, <3>2 DEF clockModif
      <3>. DEFINE v == turned(Min(four))
      <3>4. /\ Min(four) \in Frame /\ v \in Frame
            /\ \A i \in Frame \ {v} : after[i].used = 0 /\ after[i].modif = 1
                                        => turns_to(v) < turns_to(i)
        BY <3>2, <1>2, StopsAtTheFirst
      <3>5. Named(v)
        <4>. HIDE DEF v, after, four
        <4>. QED  BY <1>1, <2>2, <3>1, <3>4 DEF Named, class
      <3>. QED  BY <3>3, <3>4, <3>5, <1>2, <1>3 DEF stop
    <2>. QED  BY <2>3, <2>4
  <1>. QED  BY <1>4, <1>5, <1>6

\* What every step keeps: the table has its form and the hand is in it.
LEMMA TypesAreKept ==
  ASSUME TypeOK, [Next]_vars
  PROVE  TypeOK'
  <1>. USE DEF TypeOK
  <1>1. ASSUME NEW i \in Frame, fillFrame(i) \/ freeFrame(i) \/ locateMetadata(i)
        PROVE  TypeOK'
    BY <1>1 DEF fillFrame, freeFrame, locateMetadata, frame_t
  <1>2. ASSUME NEW frames \in [Frame -> frame_t], NEW i \in Frame
        PROVE  taken(frames, i) \in [Frame -> frame_t]
    BY DEF taken, frame_t
  <1>3. CASE setAFrameFree
    <2>1. Min(freeFrames) \in Frame
      BY <1>3, LeastOf DEF setAFrameFree, freeFrames
    <2>. QED  BY <1>2, <1>3, <2>1 DEF setAFrameFree
  <1>4. CASE setAFrameClock
    <2>1. clockModif.victim \in Frame
      BY ClockFindsItsVictim DEF Named
    <2>. QED  BY <1>2, <1>4, <2>1, ClockFindsItsVictim DEF setAFrameClock
  <1>5. CASE UNCHANGED vars
    BY <1>5 DEF vars
  <1>. QED  BY <1>1, <1>3, <1>4, <1>5 DEF Next

\* The table of frames and the hand keep their form for ever: in particular
\* the hand never leaves the table, and no victim is the frame -1.
THEOREM FramesTypesHold == Spec => []TypeOK
  <1>1. Init => TypeOK
    BY FrameIsNat DEF Init, TypeOK, createBitmapFrames, frame_t
  <1>. QED  BY <1>1, TypesAreKept, PTL DEF Spec

\* Every choice of the clock is the frame that the comment above clockModif
\* names, for every number of frames.
THEOREM VictimsHold == Spec => VictimIsTheClocks
  <1>. DEFINE Right ==
         last'.op = "evict" =>
           /\ last'.frame \in Frame
           /\ \A i \in Frame \ {last'.frame} :
                 \/ class(bitmapFrames[last'.frame]) < class(bitmapFrames[i])
                 \/ /\ class(bitmapFrames[last'.frame]) = class(bitmapFrames[i])
                    /\ turns_to(last'.frame) < turns_to(i)
  <1>1. TypeOK /\ [Next]_vars => [Right]_vars
    <2>. SUFFICES ASSUME TypeOK, Next
                  PROVE  Right
      OBVIOUS
    <2>1. CASE setAFrameClock
      <3>1. Named(clockModif.victim)
        BY ClockFindsItsVictim DEF TypeOK
      <3>2. last'.frame = clockModif.victim
        BY <2>1 DEF setAFrameClock
      <3>. QED  BY <3>1, <3>2 DEF Named
    <2>2. CASE ~ setAFrameClock
      <3>1. ASSUME NEW i \in Frame, fillFrame(i) \/ freeFrame(i) \/ locateMetadata(i)
            PROVE  last'.op # "evict"
        BY <3>1 DEF fillFrame, freeFrame, locateMetadata
      <3>2. setAFrameFree => last'.op # "evict"
        BY DEF setAFrameFree
      <3>. QED  BY <2>2, <3>1, <3>2 DEF Next
    <2>. QED  BY <2>1, <2>2
  <1>. QED  BY <1>1, FramesTypesHold, PTL DEF Spec, VictimIsTheClocks
-----------------------------------------------------------------------------
(* How far the hand is from a frame. *)

\* The other frames that were never modified: no step gives modif back.
Clean(i) == {j \in Frame \ {i} : bitmapFrames[j].modif = 0}

\* What a step does to a frame that it leaves alone: one of the others is
\* modified for good; or, when the clock chose, the frame's used bit goes, or
\* the hand has fewer turns to it; any other step keeps both.
Nearer(i) ==
    /\ Clean(i)' \subseteq Clean(i)
    /\ \/ Clean(i)' # Clean(i)
       \/ /\ last'.op = "evict"
          /\ \/ bitmapFrames'[i].used < bitmapFrames[i].used
             \/ /\ bitmapFrames'[i].used = bitmapFrames[i].used
                /\ turns_to(i)' < turns_to(i)
       \/ /\ last'.op # "evict"
          /\ bitmapFrames'[i].used = bitmapFrames[i].used
          /\ turns_to(i)' = turns_to(i)

\* The hand gets nearer to every frame that is left alone.
HandGetsNearer == [][\A i \in Frame : last'.frame # i => Nearer(i)]_vars

\* What the rounds leave of the frames when the clock stops at v.
Passed(frames, v) ==
    /\ \A i \in Frame : /\ frames[i].modif = bitmapFrames[i].modif
                        /\ frames[i].used \in {0, bitmapFrames[i].used}
    /\ bitmapFrames[v].modif = 1 =>
          \A i \in Frame \ {v} :
             \/ frames[i].used < bitmapFrames[i].used
             \/ frames[i].used = bitmapFrames[i].used /\ turns_to(v) < turns_to(i)

\* The clock passes a frame that it does not choose, or has less turns to it;
\* unless its victim was never modified.
LEMMA ClockPasses ==
  ASSUME bitmapFrames \in [Frame -> frame_t], clockPointer \in Frame
  PROVE  /\ Passed(clockModif.frames, clockModif.victim)
         /\ clockModif.pointer = turned(turns_to(clockModif.victim) + 1)
  <1>. DEFINE one   == round(bitmapFrames, 0, 0)
              two   == round(bitmapFrames, 0, 1)
              after == cleared(bitmapFrames, Frame)
              three == round(after, 0, 0)
              four  == round(after, 0, 1)
  <1>1. \A i \in Frame : /\ bitmapFrames[i].used \in {0, 1}
                         /\ bitmapFrames[i].modif \in {0, 1}
    BY DEF frame_t
  <1>2. /\ after \in [Frame -> frame_t]
        /\ \A i \in Frame : after[i].used = 0 /\ after[i].modif = bitmapFrames[i].modif
    BY AllAreCleared
  <1>3. \A k \in Frame : turns_to(turned(k)) = k
    BY TurnsAreRight
  <1>4. CASE one # {}
    <2>1. clockModif = stop(Min(one), bitmapFrames)
      BY <1>4 DEF clockModif
    <2>2. Min(one) \in Frame /\ bitmapFrames[turned(Min(one))].modif = 0
      BY <1>4, StopsAtTheFirst
    <2>. QED  BY <2>1, <2>2, <1>3 DEF stop, Passed
  <1>5. CASE one = {} /\ two # {}
    <2>. DEFINE k == Min(two)
                v == turned(k)
    <2>. PICK turns : turns = 0 .. k - 1
      OBVIOUS
    <2>. DEFINE frames == cleared(bitmapFrames, turns)
    <2>1. clockModif = stop(k, frames)
      BY <1>5 DEF clockModif
    <2>2. /\ k \in Frame /\ v \in Frame
          /\ \A i \in Frame \ {v} :
                bitmapFrames[i].used = 0 /\ bitmapFrames[i].modif = 1
                    => turns_to(v) < turns_to(i)
      BY <1>5, StopsAtTheFirst
    <2>3. \A i \in Frame : ~ (bitmapFrames[i].used = 0 /\ bitmapFrames[i].modif = 0)
      BY <1>5, NothingWasMissed
    <2>4. turns_to(v) = k
      BY <2>2, <1>3
    <2>. HIDE DEF k, two
    <2>5. ASSUME NEW i \in Frame
          PROVE  /\ frames[i].modif = bitmapFrames[i].modif
                 /\ frames[i].used \in {0, bitmapFrames[i].used}
                 /\ (\E t \in turns : turned(t) = i) => frames[i].used = 0
      <3>1. bitmapFrames[i] \in frame_t
        OBVIOUS
      <3>2. /\ passed(bitmapFrames[i]).used = 0
            /\ passed(bitmapFrames[i]).modif = bitmapFrames[i].modif
        BY <3>1 DEF passed, frame_t
      <3>3. frames[i] = IF \E t \in turns : turned(t) = i
                        THEN passed(bitmapFrames[i]) ELSE bitmapFrames[i]
        BY DEF cleared
      <3>. HIDE DEF frames
      <3>. QED  BY <3>2, <3>3
    <2>. HIDE DEF frames
    <2>6. ASSUME NEW i \in Frame \ {v}
          PROVE  \/ frames[i].used < bitmapFrames[i].used
                 \/ /\ frames[i].used = bitmapFrames[i].used
                    /\ turns_to(v) < turns_to(i)
      <3>1. /\ turns_to(i) \in Frame /\ turned(turns_to(i)) = i
            /\ turns_to(i) \in Nat /\ k \in Nat
        BY <2>2, EveryFrameIsMet, FrameIsNat
      <3>2. CASE bitmapFrames[i].used = 0
        BY <3>2, <2>2, <2>3, <2>5, <1>1
      <3>3. CASE bitmapFrames[i].used = 1 /\ turns_to(i) < k
        <4>1. turns_to(i) \in turns
          BY <3>1, <3>3
        <4>2. frames[i].used = 0
          BY <4>1, <3>1, <2>5
        <4>. QED  BY <4>2, <3>3
      <3>4. CASE bitmapFrames[i].used = 1 /\ ~ (turns_to(i) < k)
        <4>1. turns_to(i) # k
          BY <3>1
        <4>2. turns_to(v) < turns_to(i)
          BY <4>1, <3>1, <3>4, <2>4
        <4>3. frames[i].used \in {0, 1}
          BY <3>4, <2>5
        <4>. QED  BY <4>2, <4>3, <3>4
      <3>. QED  BY <3>2, <3>3, <3>4, <1>1
    <2>7. Passed(frames, v)
      BY <2>5, <2>6 DEF Passed
    <2>. QED  BY <2>1, <2>4, <2>7 DEF stop
  <1>6. CASE one = {} /\ two = {}
    <2>1. \A i \in Frame : bitmapFrames[i].used = 1
      BY <1>6, <1>1, NothingWasMissed
    <2>2. ASSUME NEW v \in Frame
          PROVE  Passed(after, v)
      <3>. HIDE DEF after
      <3>. QED  BY <2>1, <1>2 DEF Passed
    <2>3. CASE three # {}
      <3>1. clockModif = stop(Min(three), after)
        BY <1>6, <2>3 DEF clockModif
      <3>2. Min(three) \in Frame /\ turned(Min(three)) \in Frame
        BY <2>3, <1>2, StopsAtTheFirst
      <3>. QED  BY <3>1, <3>2, <2>2, <1>3 DEF stop
    <2>4. CASE three = {}
      <3>1. \A i \in Frame : after[i].modif = 1
        BY <2>4, <1>1, <1>2, NothingWasMissed
      <3>2. four # {}
        BY <1>2, <3>1, FrameIsNat, TurnedIsAFrame DEF round
      <3>3. clockModif = stop(Min(four), after)
        BY <1>6, <2>4, <3>2 DEF clockModif
      <3>4. Min(four) \in Frame /\ turned(Min(four)) \in Frame
        BY <3>2, <1>2, StopsAtTheFirst
      <3>. QED  BY <3>3, <3>4, <2>2, <1>3 DEF stop
    <2>. QED  BY <2>3, <2>4
  <1>. QED  BY <1>4, <1>5, <1>6

\* A remainder once round the table, by cases.
LEMMA OnceAround ==
  ASSUME NEW n \in Nat, n < 2 * FrameCount
  PROVE  /\ n < FrameCount => n % FrameCount = n
         /\ n >= FrameCount => n % FrameCount = n - FrameCount
  <1>1. n < FrameCount => n % FrameCount = n
    BY MuseAssumption
  <1>2. n >= FrameCount => n % FrameCount = n - FrameCount
    BY MuseAssumption
  <1>. QED  BY <1>1, <1>2

\* When the hand stops behind a frame, it has less turns to those after it.
LEMMA TurnsGetFewer ==
  ASSUME clockPointer \in Frame, NEW i \in Frame, NEW v \in Frame,
         turns_to(v) < turns_to(i), clockPointer' = turned(turns_to(v) + 1)
  PROVE  turns_to(i)' < turns_to(i)
  <1>1. /\ turns_to(v) \in Frame /\ turns_to(i) \in Frame
        /\ turned(turns_to(i)) = i
    BY EveryFrameIsMet
  <1>. PICK k, d : k = turns_to(v) /\ d = turns_to(i)
    OBVIOUS
  <1>2. k \in Nat /\ d \in Nat /\ k < d /\ d < FrameCount /\ i = (clockPointer + d) % FrameCount
    BY <1>1, MuseAssumption DEF Frame, turned
  <1>3. clockPointer' = (clockPointer + (k + 1)) % FrameCount
    BY DEF turned
  <1>4. turns_to(i)' = (i - clockPointer' + FrameCount) % FrameCount
    BY DEF turns_to
  <1>. HIDE DEF turns_to, turned
  <1>5. \/ i = clockPointer + d /\ clockPointer + d < FrameCount
        \/ i = clockPointer + d - FrameCount /\ clockPointer + d >= FrameCount
    <2>1. clockPointer + d \in Nat /\ clockPointer + d < 2 * FrameCount
      BY <1>2, MuseAssumption DEF Frame
    <2>. QED  BY <2>1, <1>2, OnceAround, MuseAssumption
  <1>6. \/ /\ clockPointer' = clockPointer + k + 1
           /\ clockPointer + k + 1 < FrameCount
        \/ /\ clockPointer' = clockPointer + k + 1 - FrameCount
           /\ clockPointer + k + 1 >= FrameCount
    <2>1. /\ clockPointer + (k + 1) \in Nat /\ clockPointer + (k + 1) < 2 * FrameCount
          /\ clockPointer + (k + 1) = clockPointer + k + 1
      BY <1>2, MuseAssumption DEF Frame
    <2>. QED  BY <2>1, <1>2, <1>3, FrameIsNat, OnceAround, MuseAssumption
  <1>7. turns_to(i)' = d - k - 1
    <2>1. \/ i - clockPointer' = d - k - 1
          \/ i - clockPointer' = d - k - 1 - FrameCount
      BY <1>2, <1>5, <1>6, MuseAssumption DEF Frame
    <2>2. d - k - 1 \in Nat /\ d - k - 1 < FrameCount
      BY <1>2, MuseAssumption
    <2>3. (d - k - 1 + FrameCount) % FrameCount = d - k - 1
      BY <2>2, MuseAssumption
    <2>4. (d - k - 1) % FrameCount = d - k - 1
      BY <2>2, MuseAssumption
    <2>5. \/ i - clockPointer' + FrameCount = d - k - 1 + FrameCount
          \/ i - clockPointer' + FrameCount = d - k - 1
      BY <2>1, <1>2, <1>5, <1>6, MuseAssumption DEF Frame
    <2>. QED  BY <2>3, <2>4, <2>5, <1>4
  <1>. QED  BY <1>2, <1>7

\* A choice of the clock that is not this frame.
LEMMA EvictionGetsNearer ==
  ASSUME TypeOK, setAFrameClock, NEW i \in Frame, last'.frame # i
  PROVE  Nearer(i)
  <1>. PICK v, frames : v = clockModif.victim /\ frames = clockModif.frames
    OBVIOUS
  <1>1. /\ bitmapFrames' = taken(frames, v) /\ i # v
        /\ clockPointer' = clockModif.pointer /\ last'.op = "evict"
    BY DEF setAFrameClock
  <1>2. v \in Frame /\ frames \in [Frame -> frame_t]
    BY ClockFindsItsVictim DEF TypeOK, Named
  <1>3. Passed(frames, v) /\ clockPointer' = turned(turns_to(v) + 1)
    BY <1>1, ClockPasses DEF TypeOK
  <1>4. /\ bitmapFrames'[v].modif = 1
        /\ \A j \in Frame \ {v} : bitmapFrames'[j] = frames[j]
    BY <1>1, <1>2 DEF taken
  <1>5. Clean(i)' = Clean(i) \ {v}
    BY <1>3, <1>4 DEF Clean, Passed
  <1>6. CASE bitmapFrames[v].modif = 0
    <2>1. v \in Clean(i)
      BY <1>1, <1>2, <1>6 DEF Clean
    <2>. QED  BY <1>5, <2>1 DEF Nearer
  <1>7. CASE bitmapFrames[v].modif = 1
    <2>1. bitmapFrames'[i].used = frames[i].used
      BY <1>1, <1>4
    <2>2. \/ frames[i].used < bitmapFrames[i].used
          \/ frames[i].used = bitmapFrames[i].used /\ turns_to(v) < turns_to(i)
      BY <1>1, <1>3, <1>7 DEF Passed
    <2>3. turns_to(v) < turns_to(i) => turns_to(i)' < turns_to(i)
      BY <1>2, <1>3, TurnsGetFewer DEF TypeOK
    <2>. QED  BY <1>1, <1>5, <2>1, <2>2, <2>3 DEF Nearer
  <1>8. bitmapFrames[v].modif \in {0, 1}
    BY <1>2 DEF TypeOK, frame_t
  <1>. QED  BY <1>6, <1>7, <1>8

\* A step on another frame leaves the hand and this frame as they are.
LEMMA OtherStepsStay ==
  ASSUME TypeOK, NEW j \in Frame, NEW i \in Frame \ {j},
         \A f \in Frame \ {j} : bitmapFrames'[f] = bitmapFrames[f],
         bitmapFrames'[j].modif = 1 \/ bitmapFrames'[j].modif = bitmapFrames[j].modif,
         clockPointer' = clockPointer, last'.op # "evict"
  PROVE  Nearer(i)
  <1>1. Clean(i)' \subseteq Clean(i)
    BY DEF Clean
  <1>2. turns_to(i)' = turns_to(i)
    BY DEF turns_to
  <1>. QED  BY <1>1, <1>2 DEF Nearer

\* The variant of NoFrameIsOverlooked, for every number of frames: each choice
\* of the clock brings it nearer to a frame that is left alone, in an order
\* that has no infinite descent, and no step in between takes it back.
THEOREM HandReachesAll == Spec => HandGetsNearer
  <1>1. TypeOK /\ [Next]_vars => [\A i \in Frame : last'.frame # i => Nearer(i)]_vars
    <2>. SUFFICES ASSUME TypeOK, Next, NEW i \in Frame, last'.frame # i
                  PROVE  Nearer(i)
      OBVIOUS
    <2>1. CASE setAFrameClock
      BY <2>1, EvictionGetsNearer
    <2>2. ASSUME NEW j \in Frame, fillFrame(j) \/ freeFrame(j) \/ locateMetadata(j)
          PROVE  Nearer(i)
      <3>1. j # i /\ clockPointer' = clockPointer /\ last'.op # "evict"
        BY <2>2 DEF fillFrame, freeFrame, locateMetadata
      <3>2. bitmapFrames[j] \in frame_t /\ bitmapFrames \in [Frame -> frame_t]
        BY DEF TypeOK
      <3>3. /\ \A f \in Frame \ {j} : bitmapFrames'[f] = bitmapFrames[f]
            /\ \/ bitmapFrames'[j].modif = 1
               \/ bitmapFrames'[j].modif = bitmapFrames[j].modif
        BY <2>2, <3>2 DEF fillFrame, freeFrame, locateMetadata, frame_t
      <3>. QED  BY <3>1, <3>3, OtherStepsStay
    <2>3. CASE setAFrameFree
      <3>. PICK j : j = Min(freeFrames)
        OBVIOUS
      <3>1. j \in Frame
        BY <2>3, LeastOf DEF setAFrameFree, freeFrames
      <3>2. /\ bitmapFrames' = taken(bitmapFrames, j) /\ j # i
            /\ clockPointer' = clockPointer /\ last'.op # "evict"
        BY <2>3 DEF setAFrameFree
      <3>3. /\ \A f \in Frame \ {j} : bitmapFrames'[f] = bitmapFrames[f]
            /\ bitmapFrames'[j].modif = 1
        BY <3>1, <3>2 DEF taken, TypeOK
      <3>. QED  BY <3>1, <3>2, <3>3, OtherStepsStay
    <2>. QED  BY <2>1, <2>2, <2>3 DEF Next
  <1>. QED  BY <1>1, FramesTypesHold, PTL DEF Spec, HandGetsNearer
=============================================================================
