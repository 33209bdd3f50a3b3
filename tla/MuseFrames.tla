----------------------------- MODULE MuseFrames -----------------------------
(* The frames of MUSE's main memory: the table of frames, setAFrame and the  *)
(* modified clock that chooses a victim when no frame is free.               *)
(*                                                                           *)
(* These are the functions of segments.c called in any order.  Its segments  *)
(* call setAFrame and are not finished: see the README.                      *)
EXTENDS Integers, FiniteSetsExt

CONSTANT FrameCount     \* cant_frames, tamanio_mem / tamanio_pagina

Frame == 0 .. FrameCount - 1

ASSUME MuseAssumption == FrameCount \in Nat \ {0}

VARIABLES
    bitmapFrames,   \* isFree, used and modif of each frame
    clockPointer,
    last            \* history: what the last step did to which frame

vars == <<bitmapFrames, clockPointer, last>>

frame_t == [isFree : BOOLEAN, used : {0, 1}, modif : {0, 1}]

createBitmapFrames ==
    [i \in Frame |-> [isFree |-> TRUE, used |-> 0, modif |-> 0]]

fillFrame(i) ==
    /\ bitmapFrames' = [bitmapFrames EXCEPT ![i].used = 1, ![i].isFree = FALSE]
    /\ last' = [op |-> "fill", frame |-> i]
    /\ UNCHANGED clockPointer

freeFrame(i) ==
    /\ bitmapFrames' = [bitmapFrames EXCEPT ![i].used = 0, ![i].isFree = TRUE]
    /\ last' = [op |-> "free", frame |-> i]
    /\ UNCHANGED clockPointer

freeFrames == {i \in Frame : bitmapFrames[i].isFree}

\* Metadata written to a page of a segment, in its frame.
locateMetadata(i) ==
    /\ i \notin freeFrames
    /\ bitmapFrames' = [bitmapFrames EXCEPT ![i].used = 1, ![i].modif = 1]
    /\ last' = [op |-> "touch", frame |-> i]
    /\ UNCHANGED clockPointer
-----------------------------------------------------------------------------
\* The frame that is k turns of increaseClockPointer away.
\* Variant: the last frame is skipped.
turned_short(k) == IF FrameCount = 1 THEN 0
                   ELSE (clockPointer + k) % (FrameCount - 1)
turned(k) == (clockPointer + k) % FrameCount

\* One round of the clock: after how many turns it meets used and modif.
round(frames, used, modif) ==
    {k \in Frame : frames[turned(k)].used = used /\ frames[turned(k)].modif = modif}

\* The second round clears used in the frames it passes.
passed(frame) == [frame EXCEPT !.used = 0]
cleared(frames, turns) ==
    [i \in Frame |-> IF \E k \in turns : turned(k) = i THEN passed(frames[i])
                     ELSE frames[i]]

\* What the four rounds of clockModif leave, for the turns it stopped after.
\* Variant: the hand goes on without the test for the last frame.
stop_unwrapped(k, frames) ==
    [victim |-> turned(k), pointer |-> turned(k) + 1, frames |-> frames]
stop(k, frames) == [victim |-> turned(k), pointer |-> turned(k + 1), frames |-> frames]

\* Variant: the second round comes first.
clockModif_modified_first ==
    LET one == round(bitmapFrames, 0, 1)
        two == round(bitmapFrames, 0, 0) IN
    IF one # {} THEN stop(Min(one), bitmapFrames)
    ELSE IF two # {} THEN stop(Min(two), bitmapFrames)
    ELSE stop(0, cleared(bitmapFrames, Frame))
clockModif ==
    LET one   == round(bitmapFrames, 0, 0)
        two   == round(bitmapFrames, 0, 1)
        after == cleared(bitmapFrames, Frame)
        three == round(after, 0, 0)
        four  == round(after, 0, 1) IN
    IF one # {} THEN stop(Min(one), bitmapFrames)
    ELSE IF two # {}
         THEN stop(Min(two), cleared(bitmapFrames, 0 .. Min(two) - 1))
    ELSE IF three # {} THEN stop(Min(three), after)
    ELSE IF four # {} THEN stop(Min(four), after)
    ELSE [victim |-> -1, pointer |-> clockPointer, frames |-> after]

taken(frames, i) ==
    [frames EXCEPT ![i] = [isFree |-> FALSE, used |-> 1, modif |-> 1]]

\* setAFrame with a frame free: it is taken, and -1 is returned for it.
setAFrameFree ==
    /\ freeFrames # {}
    /\ bitmapFrames' = taken(bitmapFrames, Min(freeFrames))
    /\ last' = [op |-> "unreturned", frame |-> Min(freeFrames)]
    /\ UNCHANGED clockPointer

\* setAFrame with none.  swapPage is empty: the victim's page keeps its frame.
setAFrameClock ==
    /\ freeFrames = {}
    /\ bitmapFrames' = taken(clockModif.frames, clockModif.victim)
    /\ clockPointer' = clockModif.pointer
    /\ last' = [op |-> "evict", frame |-> clockModif.victim]
-----------------------------------------------------------------------------
Init ==
    /\ bitmapFrames = createBitmapFrames
    /\ clockPointer = 0
    /\ last = [op |-> "none", frame |-> 0]

Next ==
    \/ \E i \in Frame : fillFrame(i) \/ freeFrame(i) \/ locateMetadata(i)
    \/ setAFrameFree \/ setAFrameClock

Spec == Init /\ [][Next]_vars
=============================================================================
