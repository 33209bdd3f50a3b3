--------------------------- MODULE MuseProperties ---------------------------
(* What is checked of MUSE's frames.                                         *)
EXTENDS MuseFrames

\* Type invariant.
TypeOK ==
    /\ bitmapFrames \in [Frame -> frame_t]
    /\ clockPointer \in Frame
    /\ last.frame \in Frame

\* The comment above clockModif, as an order: first (U,M) = (0,0), then (0,1),
\* then what was (1,0) and at last (1,1).
class(f) == 2 * f.used + f.modif
turns_to(i) == (i - clockPointer + FrameCount) % FrameCount

\* Action property: the four rounds always end at a frame, and it is the one
\* the algorithm names: of the least class, and of those the first from the
\* hand on.
VictimIsTheClocks ==
    [][last'.op = "evict" =>
          /\ last'.frame \in Frame
          /\ \A i \in Frame \ {last'.frame} :
                \/ class(bitmapFrames[last'.frame]) < class(bitmapFrames[i])
                \/ /\ class(bitmapFrames[last'.frame]) = class(bitmapFrames[i])
                   /\ turns_to(last'.frame) < turns_to(i)]_vars

\* Liveness: whatever else is filled, freed and touched, a frame that is no
\* longer touched is chosen if the clock goes on choosing: the hand overlooks
\* no frame.
NoFrameIsOverlooked ==
    \A i \in Frame :
        /\ []<><<setAFrameClock>>_vars
        /\ <>[](last.op \in {"touch", "fill", "free"} => last.frame # i)
        => []<>(last = [op |-> "evict", frame |-> i])
=============================================================================
