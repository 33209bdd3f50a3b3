------------------------------ MODULE FileTree ------------------------------
(* What the SAC server promises of its files: a tree of paths that only     *)
(* grows, in which a file or a directory is made in a directory that exists *)
(* (the root is not a node) and is never lost, moved or overwritten,        *)
(* whatever the server is doing when it dies; until the disk is lost.       *)
EXTENDS Sequences, Integers

CONSTANTS Name, Depth, Kind, DirectoryKind

Paths == UNION {[1 .. n -> Name] : n \in 1 .. Depth}
Parent(path) == SubSeq(path, 1, Len(path) - 1)

VARIABLES
    tree,   \* the set of [path, kind] that exist
    lost    \* nothing is promised any more

Init == tree = {} /\ lost = FALSE

Make(path, kind) ==
    /\ ~lost
    /\ Len(path) > 1 => [path |-> Parent(path), kind |-> DirectoryKind] \in tree
    /\ tree' = tree \cup {[path |-> path, kind |-> kind]}
    /\ lost' = FALSE

Lose == lost' = TRUE

Next ==
    \/ \E path \in Paths, kind \in Kind : Make(path, kind)
    \/ Lose

Spec == Init /\ [][Next]_<<tree, lost>>
=============================================================================
