------------------------------ MODULE SacNodes ------------------------------
(* The node table of the SAC file server: format_disk, the search of a path, *)
(* mknod, mkdir, open, opendir and readdir over the disk image disco.bin.    *)
(*                                                                           *)
(* Blocks are numbered as on a disk whose bitmap fills one block: 0 is the   *)
(* header, 1 the bitmap, the node table starts at 2 and the data blocks      *)
(* follow it.  The server takes one request at a time and may be killed      *)
(* between any two writes to the disk; what is on the disk stays.            *)
EXTENDS Integers, Sequences, FiniteSets, FiniteSetsExt

CONSTANTS
    NodeCount,      \* blocks of the node table, 1024 in the code
    Path,           \* the paths that requests name, sequences of names
    MaxOpen,        \* bound on the table of open files
    Longer          \* pairs of a name and a longer one that begins with it

\* Where format_disk places the areas of a disk of so many bytes, in blocks.
\* The divisions truncate, and what the code rounds is whole already.
BLOCK_SIZE == 4096
disk_blocks(size) == size \div BLOCK_SIZE
bitmap_size_bytes(size) == disk_blocks(size) \div 8
bitmap_size_blocks(size) == bitmap_size_bytes(size) \div BLOCK_SIZE
node_table_start(size) == bitmap_size_blocks(size) + 1
node_table_end(size) == node_table_start(size) + 1024 - 1
data_blocks_start(size) == node_table_end(size) + 1
data_blocks_end(size) ==
    LET data_blocks == disk_blocks(size) - 1 - bitmap_size_blocks(size) - 1024
    IN  data_blocks_start(size) + data_blocks - 1

NodeStart == 2
NodeEnd   == NodeStart + NodeCount - 1
NodeTable == NodeStart .. NodeEnd

Name == (UNION {{path[i] : i \in DOMAIN path} : path \in Path}) \cup {"root"}

\* fname of a block that no node was written to, on an empty disk and on one
\* made from /dev/urandom, and of a node that was stored under no name of a path.
Empty == ""
Noise == "#"
Stray == "?"

ASSUME SacAssumption ==
    /\ NodeCount \in Nat \ {0}
    /\ Path \subseteq Seq(STRING) \ {<<>>} /\ IsFiniteSet(Path) /\ Path # {}
    /\ Name \cap {Empty, Noise, Stray} = {}
    /\ Longer \subseteq Name \X Name

\* GFile's state: 0 deleted, 1 regular, 2 directory, 3 any other byte.
Node == [state : 0 .. 3, fname : Name \cup {Empty, Noise, Stray},
         parent_block : {0} \cup NodeTable, child : {-1, 0} \cup NodeTable]
Blank == [state |-> 0, fname |-> Empty, parent_block |-> 0, child |-> 0]

\* A block of /dev/urandom, and the bitmap of a full table read as a node: no
\* name, nothing refers to it.
Junk == [state |-> 3, fname |-> Noise, parent_block |-> 0, child |-> 0]

VARIABLES
    bitmap,         \* disk: the blocks whose bit is set
    node,           \* disk: the blocks of the node table
    spoilt,         \* disk: blocks outside the table that a node was written to
    pc,             \* the next write of the server, "down" when it does not run
    file_node,      \* mknod and mkdir: the node they write and where
    free_block,
    opened,         \* opened_files_table_p, without the order and the fds
    reformatted     \* history: a table with nodes in it was formatted

diskVars == <<bitmap, node, spoilt>>
vars == <<diskVars, pc, file_node, free_block, opened, reformatted>>

\* The blocks that hold a node the server wrote.
Written == {b \in NodeTable : node[b].fname \in Name \cup {Stray}}
-----------------------------------------------------------------------------
(* The search of a path. *)

\* The ancestors of a node, itself first: parent_block followed until it is 0.
ancestors(b, depth) ==
    LET anc[k \in 0 .. depth] ==
            IF k = 0 THEN b
            ELSE IF anc[k - 1] = 0 THEN 0 ELSE node[anc[k - 1]].parent_block
    IN  anc

\* The inner loop of find_node: a match is on the path when the names of its
\* ancestors are the path's, read backwards, and the last parent is the root.
\* Variant: the names of the ancestors are not compared.
on_path_any_parent(b, path) ==
    LET L == Len(path)
        anc == ancestors(b, L)
    IN  /\ \A k \in 1 .. L - 1 : anc[k] # 0
        /\ anc[L] = 0
on_path(b, path) ==
    LET L == Len(path)
        anc == ancestors(b, L)
    IN  /\ \A k \in 1 .. L - 1 : anc[k] # 0 /\ node[anc[k]].fname = path[L - k]
        /\ anc[L] = 0

\* Variant: the first block of the table is not read.
matches_after_root(path) ==
    {b \in NodeTable \ {NodeStart} : node[b].fname = path[Len(path)]}
matches(path) == {b \in NodeTable : node[b].fname = path[Len(path)]}

\* The matches are looked at from the last one.  flag_discarded is not reset:
\* once a match is discarded the others are counted down without a look.
find_node(path) ==
    IF matches(path) = {} THEN 0
    ELSE LET last == Max(matches(path))
         IN  IF on_path(last, path) THEN last ELSE 0

\* aux_path: the path of the directory, 0 for the root.
in_root(path) == Len(path) = 1
find_directory(path) ==
    IF in_root(path) THEN 0 ELSE find_node(SubSeq(path, 1, Len(path) - 1))
-----------------------------------------------------------------------------
(* The bitmap. *)

\* Variants: the last free block, and a block of the data area.
find_free_block_last ==
    LET free == NodeTable \ bitmap
    IN  IF free = {} THEN -1 ELSE Max(free)
find_free_block_data == NodeEnd + 1
find_free_block ==
    LET free == NodeTable \ bitmap
    IN  IF free = {} THEN -1 ELSE Min(free)

\* bitarray_set_bit() of -1 changes no bit.  Variant: the bit is not written.
set_block_unwritten(b) == UNCHANGED bitmap
set_block_as_occupied(b) == bitmap' = bitmap \cup ({b} \ {-1})
-----------------------------------------------------------------------------
(* format_disk *)

\* What a name is stored as: memcpy of strlen bytes, no zero, into a structure
\* of the stack.  The name ends there only if the byte behind it was zero.
copies(name) == {name, Stray} \cup {longer \in Name : <<name, longer>> \in Longer}

\* Variant: the root's name is not the one that is written.
is_formatted_unnamed == node[NodeStart].fname = Empty
is_formatted == node[NodeStart].fname = "root"

Start ==
    /\ pc = "down"
    /\ opened' = {}
    /\ pc' = IF is_formatted THEN "ready" ELSE "format"
    /\ UNCHANGED <<diskVars, file_node, free_block, reformatted>>

format_bitmap_nodetable ==
    /\ pc = "format"
    /\ bitmap' = bitmap \cap {0, 1}
    /\ pc' = "mark"
    /\ reformatted' = (reformatted \/ Written # {} \/ spoilt # {})
    /\ UNCHANGED <<node, spoilt, file_node, free_block, opened>>

\* Three writes: a start that is cut short between them does them all again.
FormatMark ==
    /\ pc = "mark"
    /\ bitmap' = bitmap \cup {0, 1, 2}
    /\ pc' = "root"
    /\ UNCHANGED <<node, spoilt, file_node, free_block, opened, reformatted>>

FormatRoot ==
    /\ pc = "root"
    /\ \E name \in copies("root") :
        node' = [node EXCEPT ![NodeStart] =
                    [state |-> 2, fname |-> name, parent_block |-> 0, child |-> 0]]
    /\ pc' = "ready"
    /\ UNCHANGED <<bitmap, spoilt, file_node, free_block, opened, reformatted>>
-----------------------------------------------------------------------------
(* mknod and mkdir: one body, two states.  A request that is refused writes  *)
(* nothing.                                                                  *)

\* What may not be there already: a regular (or deleted) file for mknod, a
\* directory for mkdir.
clashes(kind) == IF kind = 1 THEN {0, 1} ELSE {2}

\* Variant: the parent need not be a directory.
is_directory_or_file(d) == d # 0
is_directory(d) == d # 0 /\ node[d].state = 2

Create(path, kind) ==
    /\ pc = "ready"
    /\ find_node(path) # 0 => node[find_node(path)].state \notin clashes(kind)
    /\ in_root(path) \/ is_directory(find_directory(path))
    /\ free_block' = find_free_block
    /\ set_block_as_occupied(free_block')
    /\ \E name \in copies(path[Len(path)]) :
        file_node' = [state |-> kind, fname |-> name,
                      parent_block |-> find_directory(path), child |-> 0]
    /\ pc' = "node"
    /\ UNCHANGED <<node, spoilt, opened, reformatted>>

action_mknod(path) == Create(path, 1)
action_mkdir(path) == Create(path, 2)

\* fwrite at the free block.  With -1 the seek fails and the node goes to the
\* start of the file, over the header.
WriteNode ==
    /\ pc = "node"
    /\ IF free_block \in NodeTable
       THEN node' = [node EXCEPT ![free_block] = file_node] /\ UNCHANGED spoilt
       ELSE spoilt' = spoilt \cup {0} /\ UNCHANGED node
    /\ pc' = "directory"
    /\ UNCHANGED <<bitmap, file_node, free_block, opened, reformatted>>

\* The directory's list of children.  fseek is given &directory_node for its
\* FILE: the server dies there, or the disk stays where it was, so the block
\* after the new node is read and, with the entry, written one further.
\* Variant: written where it was read.
directory_written_back(b) == b
directory_written_to(b) == b + 1

directory_read(b) == IF b = 1 THEN Junk ELSE node[b]

WriteDirectory ==
    /\ pc = "directory"
    /\ LET at == (IF free_block = -1 THEN 0 ELSE free_block) + 1
           to == directory_written_to(at) IN
       \/ pc' = "down" /\ UNCHANGED <<node, spoilt>>
       \/ /\ pc' = "ready"
          /\ IF to \in NodeTable
             THEN /\ node' = [node EXCEPT ![to] =
                                [directory_read(at) EXCEPT !.child = free_block]]
                  /\ UNCHANGED spoilt
             ELSE spoilt' = spoilt \cup {to} /\ UNCHANGED node
       \/ \* what was never a node may read as a list of 1000 children: the
          \* request ends there
          /\ at \in NodeTable => node[at] = Junk
          /\ pc' = "ready"
          /\ UNCHANGED <<node, spoilt>>
    /\ file_node' = Blank /\ free_block' = 0
    /\ UNCHANGED <<bitmap, opened, reformatted>>
-----------------------------------------------------------------------------
(* open, opendir, readdir and the table of open files *)

insert_to_opened_files_table(b, kind) ==
    opened' = opened \cup {[node_block |-> b, state |-> kind]}

action_open(path) ==
    /\ pc = "ready" /\ Cardinality(opened) < MaxOpen
    /\ LET b == find_node(path) IN
       /\ b # 0 /\ node[b].state \notin {0, 2}
       /\ insert_to_opened_files_table(b, node[b].state)
    /\ UNCHANGED <<diskVars, pc, file_node, free_block, reformatted>>

\* opendir leaves node_block as malloc returned it.
action_opendir(path) ==
    /\ pc = "ready" /\ Cardinality(opened) < MaxOpen
    /\ LET b == find_node(path) IN
       /\ b # 0 /\ node[b].state \notin {0, 1}
       /\ \E garbage \in {0} \cup NodeTable :
             insert_to_opened_files_table(garbage, node[b].state)
    /\ UNCHANGED <<diskVars, pc, file_node, free_block, reformatted>>

\* search_for_dir_childs2() compares with strcmp(_, NULL): the server dies.
action_readdir(path) ==
    /\ pc = "ready"
    /\ LET b == find_node(path) IN b # 0 /\ node[b].state \notin {0, 1}
    /\ pc' = "down"
    /\ UNCHANGED <<diskVars, file_node, free_block, opened, reformatted>>

Kill ==
    /\ pc # "down"
    /\ pc' = "down"
    /\ file_node' = Blank /\ free_block' = 0
    /\ UNCHANGED <<diskVars, opened, reformatted>>
-----------------------------------------------------------------------------
Init ==
    /\ bitmap \in {{}, {0, 1} \cup NodeTable}
    /\ node \in {[b \in NodeTable |-> Blank], [b \in NodeTable |-> Junk]}
    /\ spoilt = {}
    /\ pc = "down"
    /\ file_node = Blank
    /\ free_block = 0
    /\ opened = {}
    /\ reformatted = FALSE

Request(path) ==
    \/ action_mknod(path) \/ action_mkdir(path) \/ action_open(path)
    \/ action_opendir(path) \/ action_readdir(path)

Next ==
    \/ Start \/ format_bitmap_nodetable \/ FormatMark \/ FormatRoot
    \/ \E path \in Path : Request(path)
    \/ WriteNode \/ WriteDirectory \/ Kill

Spec == Init /\ [][Next]_vars
=============================================================================
