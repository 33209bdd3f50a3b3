---------------------------- MODULE SacProperties ----------------------------
(* What is checked of the node table of the SAC server.                      *)
EXTENDS SacNodes

\* Type invariant: the values the disk and the server's memory can take.
TypeOK ==
    /\ bitmap \in SUBSET ({0, 1} \cup NodeTable)
    /\ node \in [NodeTable -> Node]
    /\ spoilt \in SUBSET ({0} \cup {NodeEnd + 1, NodeEnd + 2})
    /\ pc \in {"down", "format", "mark", "root", "ready", "node", "directory"}
    /\ file_node \in Node
    /\ free_block \in {-1, 0} \cup NodeTable
    /\ opened \in SUBSET [node_block : {0} \cup NodeTable, state : {1, 2, 3}]
    /\ reformatted \in BOOLEAN

\* The path of a node, from the names of its ancestors; longer than any path
\* of a request when a node is its own ancestor.
Depth == Max({Len(path) : path \in Path})
path_below[k \in 0 .. Depth + 1] ==
    [b \in NodeTable |->
        IF k = 0 THEN <<>>
        ELSE IF node[b].parent_block = 0 THEN <<node[b].fname>>
        ELSE Append(path_below[k - 1][node[b].parent_block], node[b].fname)]
path_of(b) == path_below[Depth + 1][b]

\* Safety: a block of the table that holds a node has its bit set, at every
\* write of every request and of the formatting, so a restart never hands the
\* block of a file out again; until a table with nodes in it is formatted.
NodesHaveBits == ~reformatted => Written \subseteq bitmap

\* Safety: find_node never answers with another path's node.
SearchIsSound ==
    \A path \in Path :
        find_node(path) # 0 => path_of(find_node(path)) = path

\* The disk is lost: a table with nodes in it was formatted, or a full one had
\* its header written over, and then its root.
Lost == reformatted \/ 0 \in spoilt

\* Safety: until the disk is lost, a file whose stored name no other node has is
\* found by its path.  A file that was stored with a stray byte behind its name,
\* or as a longer one, is not found by the name it was made with, though mknod
\* answered with its block.
UniqueNamesAreFound ==
    ~Lost =>
        \A b \in Written :
            /\ node[b].fname # Stray
            /\ \A c \in Written \ {b} : node[c].fname # node[b].fname
            => find_node(path_of(b)) = b

\* Safety: while two blocks of the table are left, mknod and mkdir have written
\* no block outside the table, although they write the directory's entry two
\* blocks behind the new node.
OnlyTheTableIsWritten ==
    ~reformatted /\ Cardinality(NodeTable \ bitmap) >= 2 => spoilt = {}

\* Safety: a table that has a node in it is formatted again for two reasons only.
\* The root was stored with something behind its name, and is not recognised
\* (FormatRoot); or mknod or mkdir found no block, wrote the node over the
\* header and the directory's entry over the root (WriteDirectory).  No other
\* write, cut short or not, reaches the root.
RootIsLostInTwoWays ==
    Written # {} /\ ~is_formatted
        => 0 \in spoilt \/ node[NodeStart].fname \in copies("root") \ {"root"}

\* Safety: until a table with nodes in it is formatted, an entry that action_open
\* made names the node of a regular file, whatever mknod, mkdir and their stray
\* writes did since: read and write test no more than the entry's node number.
OpenedStayFiles ==
    ~reformatted =>
        \A entry \in opened :
            entry.state = 1 => entry.node_block \in Written
                               /\ node[entry.node_block].state = 1

\* Refinement: over crashes and restarts the nodes are a tree that only grows,
\* until the disk is lost.
Files == INSTANCE FileTree
    WITH Name <- Name \cup {Stray}, Kind <- {1, 2}, DirectoryKind <- 2,
         tree <- {[path |-> path_of(b), kind |-> node[b].state] : b \in Written},
         lost <- Lost
FilesSpec == Files!Spec
-----------------------------------------------------------------------------
(* What comments of the code say of it, and it does not do. *)

\* sac_servidor.c:1026, the matches are tried one by one: a file is found
\* whatever other files have its name.
EveryMatchIsTried ==
    \A path \in Path :
        (\E b \in matches(path) : on_path(b, path)) => find_node(path) # 0

\* sac_servidor.c:476, the directory's node is saved where it was, with the
\* new node in it.
DirectoryIsSavedWhereItWas ==
    [][pc = "directory" /\ pc' = "ready" /\ file_node.parent_block # 0
           => node'[file_node.parent_block].child = free_block]_vars
=============================================================================
