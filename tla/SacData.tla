------------------------------- MODULE SacData -------------------------------
(* The data blocks of the SAC file server: action_write, from the block      *)
(* search to the last fwrite, over the disk image disco.bin.                 *)
(*                                                                           *)
(* A block is BlockSize cells, 4096 bytes in the code.  Block 0 is the       *)
(* header, 1 stands for the bitmap and the node table, the data blocks       *)
(* follow.  The server takes one request at a time; it may be killed between *)
(* any two writes to the disk, and kills itself in one case.                 *)
EXTENDS Integers, Sequences, FiniteSetsExt

CONSTANTS
    File,           \* the regular files, made by mknod
    None,           \* no file
    BlockSize,
    DataCount,      \* data blocks of the disk
    Offset, Size,   \* what write requests ask for
    Text,           \* lengths of the text that comes with them
    MaxFileSize     \* bound: no request goes beyond

DataBlock == 2 .. DataCount + 1

ASSUME SacDataAssumption ==
    /\ None \notin File
    /\ BlockSize \in Nat \ {0, 1}
    /\ DataCount \in Nat
    /\ Offset \subseteq Nat
    /\ Size \subseteq Nat \ {0}
    /\ Text \subseteq 1 .. BlockSize - 1   \* a message is 3000 bytes at most

NoBlock == -1       \* what find_free_block answers on a full disk
\* What a list entry may hold that was never written.  The seek to any negative
\* number fails, as that to NoBlock; no block of the disk is behind the last.
Stray == {NoBlock} \cup 0 .. DataCount + 2

VARIABLES
    bitmap,         \* disk: data blocks whose bit is set
    node,           \* disk: filesize and blocks of each file, up to the zero
    writer,         \* disk: the file whose text each data block last took
    astray,         \* history: text was written over the header, or to a
                    \* block number from behind the end of its file's list
    opened,         \* the files in the table of open files
    pc,             \* "down", "ready", "write"; "wrecked": bitmap or nodes hit
    req             \* the locals of action_write

disk == <<bitmap, node, writer, astray>>
vars == <<disk, opened, pc, req>>

Idle == [file |-> None, blocks |-> <<>>, last |-> 0, needed |-> 0, size |-> 0,
         position |-> 0, offset_d |-> 0, text |-> 0,
         left |-> 0, temporal |-> 0, amount |-> 0]
-----------------------------------------------------------------------------
\* Blocks that hold n cells.
blocks_count(n) == n \div BlockSize + (IF n % BlockSize # 0 THEN 1 ELSE 0)

\* Variant: the area ends one block later.
find_free_block_past ==
    LET area == DataBlock \cup {DataCount + 2}
    IN  IF area \subseteq bitmap THEN NoBlock ELSE Min(area \ bitmap)
find_free_block ==
    IF DataBlock \subseteq bitmap THEN NoBlock ELSE Min(DataBlock \ bitmap)

\* bitarray_set_bit() of -1 changes no bit.  Variant: the bit is not written.
set_block_unwritten(b) == UNCHANGED bitmap
set_block_as_occupied(b) == bitmap' = bitmap \cup ({b} \ {NoBlock})

\* action_write up to its first write.  last_block_position is the place of
\* the list's zero.  A file that is not open is refused.
\* Variant: as many blocks as the request alone would fill.
blocks_needed_whole(old, new) == blocks_count(new)
blocks_needed(old, new) ==
    IF new > old THEN blocks_count(new) - blocks_count(old) ELSE 0

Write(f, offset, size, text) ==
    LET old == node[f].filesize
        start == IF offset > old THEN old ELSE offset
        new == IF start + size > old THEN start + size ELSE old IN
    /\ pc = "ready" /\ f \in opened
    /\ start + size <= MaxFileSize
    /\ req' = [file |-> f, blocks |-> node[f].blocks,
               last |-> Len(node[f].blocks), needed |-> blocks_needed(old, new),
               size |-> new, text |-> text, left |-> size, amount |-> 0,
               position |-> start \div BlockSize, offset_d |-> start % BlockSize,
               temporal |-> BlockSize - (start % BlockSize)]
    /\ pc' = "write"
    /\ UNCHANGED <<disk, opened>>

\* One turn of the loop that adds blocks: every one goes to the same place,
\* and the zero behind it.
with_block(list, last, b) == Append(SubSeq(list, 1, last), b)

AddBlock ==
    /\ pc = "write" /\ req.needed > 0
    /\ LET b == find_free_block IN
       /\ set_block_as_occupied(b)
       /\ req' = [req EXCEPT !.blocks = with_block(req.blocks, req.last, b),
                             !.needed = @ - 1]
    /\ UNCHANGED <<node, writer, astray, opened, pc>>
-----------------------------------------------------------------------------
\* What blocks[i] of the node in memory may hold: behind the zero, what mknod's
\* stack held.  Variant: the positions are counted from one.
block_at_from_one(list, i) ==
    IF i + 1 < Len(list) THEN {list[i + 2]}
    ELSE IF i + 1 = Len(list) THEN {0} ELSE Stray
block_at(list, i) ==
    IF i < Len(list) THEN {list[i + 1]} ELSE IF i = Len(list) THEN {0} ELSE Stray

\* How long the copied string can be.  strncpy of a text that fills the buffer
\* leaves it without a zero, so a byte of the heap may follow; behind the end
\* of the text everything is what the heap holds.
lengths(r) ==
    LET rest == r.text - r.amount IN
    IF rest < 0 THEN 0 .. r.temporal + 1
    ELSE IF rest < r.temporal THEN {rest}
    ELSE {r.temporal, r.temporal + 1}

\* write_block: the blocks that len cells from offset_d on fall in.  The seek
\* to block -1 fails and leaves the start of the file.
\* Variant: the data blocks are counted from one.
write_block_from_one(b, offset_d, len) ==
    LET position == (b + 1) * BlockSize + offset_d
    IN  {(position + k) \div BlockSize : k \in 0 .. len - 1}
write_block(b, offset_d, len) ==
    LET position == IF b = NoBlock THEN 0 ELSE b * BlockSize + offset_d
    IN  {(position + k) \div BlockSize : k \in 0 .. len - 1}

\* One turn of the loop that writes.  Neither position nor offset_d moves on.
\* Variant: less than a block is nothing.
left_after(r) == r.left - r.temporal
temporal_after_none(left) == IF left >= BlockSize THEN BlockSize ELSE 0
temporal_after(left) == IF left >= BlockSize THEN BlockSize ELSE left

WriteChunk ==
    /\ pc = "write" /\ req.needed = 0 /\ req.left > 0
    /\ \E b \in block_at(req.blocks, req.position), len \in lengths(req) :
          LET hit == write_block(b, req.offset_d, len) IN
          /\ writer' = [c \in DataBlock |->
                          IF c \in hit THEN req.file ELSE writer[c]]
          /\ astray' = (astray \/ 0 \in hit \/ req.position >= Len(req.blocks))
          /\ pc' = IF 1 \in hit THEN "wrecked" ELSE pc
    /\ req' = [req EXCEPT !.left = left_after(req),
                          !.temporal = temporal_after(left_after(req)),
                          !.amount = @ + req.temporal]
    /\ UNCHANGED <<bitmap, node, opened>>

\* The loop only ends on zero: after a text shorter than the rest of its block
\* a negative length goes to malloc and strncpy, and the server dies.
Crash ==
    /\ pc = "write" /\ req.needed = 0 /\ req.left < 0
    /\ pc' = "down" /\ req' = Idle
    /\ UNCHANGED <<disk, opened>>

SaveNode ==
    /\ pc = "write" /\ req.needed = 0 /\ req.left = 0
    /\ node' = [node EXCEPT ![req.file] =
                    [filesize |-> req.size, blocks |-> req.blocks]]
    /\ pc' = "ready" /\ req' = Idle
    /\ UNCHANGED <<bitmap, writer, astray, opened>>
-----------------------------------------------------------------------------
action_open(f) ==
    /\ pc = "ready"
    /\ opened' = opened \cup {f}
    /\ UNCHANGED <<disk, pc, req>>

Kill ==
    /\ pc \in {"ready", "write"}
    /\ pc' = "down" /\ req' = Idle
    /\ UNCHANGED <<disk, opened>>

\* format_disk finds the root and changes nothing.
Start ==
    /\ pc = "down"
    /\ pc' = "ready" /\ opened' = {}
    /\ UNCHANGED <<disk, req>>

Init ==
    /\ bitmap = {}
    /\ node = [f \in File |-> [filesize |-> 0, blocks |-> <<>>]]
    /\ writer = [b \in DataBlock |-> None]
    /\ astray = FALSE
    /\ opened = {}
    /\ pc = "down"
    /\ req = Idle

Step == AddBlock \/ WriteChunk \/ Crash \/ SaveNode

Next ==
    \/ \E f \in File, offset \in Offset, size \in Size, text \in Text :
          Write(f, offset, size, text)
    \/ Step
    \/ \E f \in File : action_open(f)
    \/ Kill \/ Start

Spec == Init /\ [][Next]_vars

\* The server is one process; requests and kills owe nothing.
FairSpec == Spec /\ WF_vars(Step)
=============================================================================
