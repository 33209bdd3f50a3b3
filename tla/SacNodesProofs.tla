--------------------------- MODULE SacNodesProofs ---------------------------
(* For every size of the node table, every set of paths and whatever names   *)
(* are stored as: bits, the root, the blocks outside the table and the table *)
(* of open files; then the search of a path, and the tree of files.  The     *)
(* blocks of the table are taken in order and none is given back before the  *)
(* disk is formatted, so a new node goes over no other and the block that is *)
(* read as the directory, the one behind it, holds no file.                  *)
EXTENDS SacProperties, SequenceTheorems, IntervalLemmas, TLAPS

Running == {"ready", "node", "directory"}
Formatting == {"format", "mark", "root"}
Creating == pc \in {"node", "directory"}
Entry == [node_block : {0} \cup NodeTable, state : {1, 2, 3}]

\* The table is taken from its start; the block of a new node is the last one
\* taken and never the root's.
TakenInOrder ==
    /\ \A b \in bitmap \cap NodeTable, c \in NodeTable : c <= b => c \in bitmap
    /\ pc \in {"root"} \cup Running => NodeStart \in bitmap
    /\ is_formatted => NodeStart \in bitmap /\ pc \notin Formatting
    /\ Creating => free_block \in {-1} \cup (NodeTable \ {NodeStart})
    /\ Creating /\ free_block # -1 =>
          free_block \in bitmap /\ free_block + 1 \notin bitmap \cap NodeTable

\* What is written outside the table is written when at most the last block of
\* it is left.
TableFills ==
    /\ Creating /\ free_block = -1 => NodeTable \subseteq bitmap
    /\ ~reformatted /\ spoilt # {} => NodeTable \ {NodeEnd} \subseteq bitmap

\* A server that takes requests has stored its root, under some name.
RootIsStored ==
    /\ pc \in Running \/ Written # {} =>
          0 \in spoilt \/ node[NodeStart].fname \in copies("root")
    /\ pc = "directory" /\ free_block = -1 => 0 \in spoilt
    /\ NodeStart \in Written => node[NodeStart].state = 2

\* The nodes, until they are formatted over.
WrittenIsKnown ==
    ~reformatted =>
        /\ Written \subseteq bitmap
        /\ pc \in {"mark", "root"} => Written = {}
        /\ pc = "node" => free_block \notin Written
        /\ \A entry \in opened :
              entry.state = 1 => entry.node_block \in Written
                                 /\ node[entry.node_block].state = 1

NodesInv == TypeOK /\ TakenInOrder /\ TableFills /\ RootIsStored /\ WrittenIsKnown
-----------------------------------------------------------------------------
LEMMA NodeTableFacts ==
  /\ NodeStart = 2 /\ NodeEnd = NodeCount + 1 /\ NodeEnd \in Nat
  /\ NodeTable = 2 .. NodeCount + 1 /\ NodeStart \in NodeTable
  /\ NodeTable \in SUBSET (0 .. NodeEnd)
  BY SacAssumption DEF NodeStart, NodeEnd, NodeTable

\* The search answers with a block of the table or 0.
LEMMA FindNodeType ==
  ASSUME NEW path
  PROVE  find_node(path) \in {0} \cup NodeTable
  <1>1. CASE matches(path) = {}
    BY <1>1 DEF find_node
  <1>2. CASE matches(path) # {}
    <2>1. matches(path) \in SUBSET NodeTable
      BY DEF matches
    <2>2. Max(matches(path)) \in matches(path)
      BY <1>2, <2>1, NodeTableFacts, GreatestExists
    <2>. QED  BY <1>2, <2>1, <2>2 DEF find_node
  <1>. QED  BY <1>1, <1>2

\* So does the search of a path's directory.
LEMMA FindDirectoryType ==
  ASSUME NEW path
  PROVE  find_directory(path) \in {0} \cup NodeTable
  BY FindNodeType DEF find_directory

\* The first free block has no free one in front of it.
LEMMA FreeBlock ==
  \/ find_free_block = -1 /\ NodeTable \subseteq bitmap
  \/ /\ find_free_block \in NodeTable \ bitmap
     /\ \A c \in NodeTable : c < find_free_block => c \in bitmap
  <1>. PICK free : free = NodeTable \ bitmap
    OBVIOUS
  <1>1. CASE free = {}
    BY <1>1 DEF find_free_block
  <1>2. CASE free # {}
    <2>1. free \in SUBSET (0 .. NodeEnd) /\ NodeEnd \in Nat
      BY NodeTableFacts
    <2>2. Min(free) \in free /\ \A c \in free : Min(free) <= c
      BY <1>2, <2>1, LeastExists
    <2>3. find_free_block = Min(free)
      BY <1>2 DEF find_free_block
    <2>4. \A c \in free : c \in Int
      BY <2>1
    <2>5. \A c \in NodeTable : c < find_free_block => c \in bitmap
      BY <2>2, <2>3, <2>4
    <2>. QED  BY <2>2, <2>3, <2>5
  <1>. QED  BY <1>1, <1>2

\* What the search answers is a node of the path, at the path's place.
LEMMA FindNodeIsOnPath ==
  ASSUME NEW path, find_node(path) # 0
  PROVE  /\ find_node(path) \in NodeTable
         /\ node[find_node(path)].fname = path[Len(path)]
         /\ on_path(find_node(path), path)
  <1>1. matches(path) # {} /\ find_node(path) = Max(matches(path))
    BY DEF find_node
  <1>2. matches(path) \in SUBSET NodeTable
    BY DEF matches
  <1>3. Max(matches(path)) \in matches(path)
    BY <1>1, <1>2, NodeTableFacts, GreatestExists
  <1>4. on_path(find_node(path), path)
    BY <1>1 DEF find_node
  <1>. QED  BY <1>1, <1>3, <1>4 DEF matches

\* A path's length counts its names, and some path is the longest.
LEMMA PathFacts ==
  ASSUME NEW path \in Path
  PROVE  /\ path \in Seq(Name) /\ Len(path) \in Nat \ {0}
         /\ \A i \in 1 .. Len(path) : path[i] \in Name
  <1>1. path \in Seq(STRING) /\ path # <<>>
    BY SacAssumption
  <1>2. DOMAIN path = 1 .. Len(path) /\ Len(path) \in Nat \ {0}
    BY <1>1
  <1>3. \A i \in 1 .. Len(path) : path[i] \in Name
    BY <1>2 DEF Name
  <1>4. path \in [1 .. Len(path) -> Name]
    BY <1>1, <1>2, <1>3
  <1>. QED  BY <1>2, <1>3, <1>4
-----------------------------------------------------------------------------
(* One lemma for each action. *)

\* Init: a block that was never a node has no name.
LEMMA NoNameYet ==
  /\ "root" \in Name
  /\ Blank.fname \notin Name \cup {Stray} /\ Junk.fname \notin Name \cup {Stray}
  /\ Blank \in Node /\ Junk \in Node
  <1>1. "root" \in Name
    BY DEF Name
  <1>2. Blank \in Node /\ Junk \in Node
    BY DEF Blank, Junk, Node
  <1>3. Empty # Stray /\ Noise # Stray
    BY DEF Empty, Noise, Stray
  <1>. QED  BY <1>1, <1>2, <1>3, SacAssumption DEF Blank, Junk

\* What a name is stored as is a name, or none of a path's.
LEMMA CopiesType ==
  ASSUME NEW name \in Name
  PROVE  copies(name) \in SUBSET (Name \cup {Stray}) /\ name \in copies(name)
  BY DEF copies

\* A fresh disk, blank or from /dev/urandom, holds no file.
LEMMA InitHasNodesInv == Init => NodesInv
  <1>. SUFFICES ASSUME Init
                PROVE  NodesInv
    OBVIOUS
  <1>1. /\ bitmap = {} \/ bitmap = {0, 1} \cup NodeTable
        /\ pc = "down" /\ spoilt = {} /\ opened = {} /\ free_block = 0
        /\ file_node = Blank /\ reformatted = FALSE
    BY DEF Init
  <1>2. /\ node \in [NodeTable -> Node]
        /\ \A b \in NodeTable : node[b].fname \notin Name \cup {Stray}
    BY NoNameYet DEF Init
  <1>3. ~ is_formatted /\ Written = {}
    BY <1>2, NoNameYet, NodeTableFacts DEF is_formatted, Written
  <1>4. TypeOK
    BY <1>1, <1>2, NoNameYet DEF TypeOK
  <1>5. TakenInOrder
    BY <1>1, <1>3 DEF TakenInOrder, Running, Formatting, Creating
  <1>6. TableFills /\ RootIsStored /\ WrittenIsKnown
    BY <1>1, <1>3 DEF TableFills, RootIsStored, WrittenIsKnown, Creating, Running
  <1>. QED  BY <1>4, <1>5, <1>6 DEF NodesInv

\* Steps that leave the disk alone, and go to a place that needs no new node.
LEMMA DiskStays ==
  ASSUME NodesInv, UNCHANGED diskVars, reformatted' = reformatted,
         file_node' \in {file_node, Blank}, free_block' \in {free_block, 0},
         pc' \in {"down", "format", "ready"},
         pc' = "ready" => is_formatted \/ pc = "ready",
         pc' = "format" => ~ is_formatted,
         opened' \in SUBSET Entry,
         \A entry \in opened' \ opened :
            entry.state = 1 => entry.node_block \in Written
                               /\ node[entry.node_block].state = 1
  PROVE  NodesInv'
  <1>1. bitmap' = bitmap /\ node' = node /\ spoilt' = spoilt
    BY DEF diskVars
  <1>2. is_formatted' = is_formatted /\ Written' = Written
    BY <1>1 DEF is_formatted, Written
  <1>3. TypeOK'
    BY <1>1, NoNameYet DEF NodesInv, TypeOK, Entry
  <1>4. TakenInOrder'
    BY <1>1, <1>2 DEF NodesInv, TakenInOrder, Running, Formatting, Creating
  <1>5. TableFills'
    BY <1>1 DEF NodesInv, TableFills, Creating
  <1>6. RootIsStored'
    <2>1. is_formatted => node[NodeStart].fname \in copies("root")
      BY DEF is_formatted, copies
    <2>. QED  BY <1>1, <1>2, <2>1 DEF NodesInv, RootIsStored, Running
  <1>7. WrittenIsKnown'
    BY <1>1, <1>2 DEF NodesInv, WrittenIsKnown
  <1>. QED  BY <1>3, <1>4, <1>5, <1>6, <1>7 DEF NodesInv

\* A start that finds the root is ready, another one formats.
LEMMA StartKeeps ==
  ASSUME NodesInv, Start
  PROVE  NodesInv'
  <1>1. /\ pc = "down" /\ opened' = {} /\ reformatted' = reformatted
        /\ UNCHANGED diskVars /\ UNCHANGED <<file_node, free_block>>
        /\ \/ is_formatted /\ pc' = "ready"
           \/ ~ is_formatted /\ pc' = "format"
    BY DEF Start
  <1>. QED  BY <1>1, DiskStays

\* The server dies: the disk stays as it is.
LEMMA KillKeeps ==
  ASSUME NodesInv, Kill \/ \E path \in Path : action_readdir(path)
  PROVE  NodesInv'
  <1>1. /\ pc' = "down" /\ opened' = opened /\ reformatted' = reformatted
        /\ UNCHANGED diskVars
        /\ file_node' \in {file_node, Blank} /\ free_block' \in {free_block, 0}
    BY DEF Kill, action_readdir
  <1>2. opened' \in SUBSET Entry
    BY <1>1 DEF NodesInv, TypeOK, Entry
  <1>. QED  BY <1>1, <1>2, DiskStays

\* An entry more in the table of open files: open's is a file's, and opendir's
\* is marked as none.
LEMMA OpenKeeps ==
  ASSUME NodesInv, NEW path \in Path, action_open(path) \/ action_opendir(path)
  PROVE  NodesInv'
  <1>. PICK b : b = find_node(path)
    OBVIOUS
  <1>1. /\ pc = "ready" /\ b # 0 /\ reformatted' = reformatted
        /\ UNCHANGED diskVars /\ UNCHANGED <<pc, file_node, free_block>>
    BY DEF action_open, action_opendir
  <1>2. b \in NodeTable /\ node[b].state \in 0 .. 3
    <2>1. b \in NodeTable
      BY <1>1, FindNodeType
    <2>. QED  BY <2>1 DEF NodesInv, TypeOK, Node
  <1>3. b \in Written
    <2>1. node[b].fname = path[Len(path)]
      BY <1>1, FindNodeIsOnPath
    <2>2. path[Len(path)] \in Name
      BY PathFacts
    <2>. QED  BY <1>2, <2>1, <2>2 DEF Written
  <1>4. PICK c \in {0} \cup NodeTable :
          /\ opened' = opened \cup {[node_block |-> c, state |-> node[b].state]}
          /\ node[b].state \in {1, 2, 3}
          /\ node[b].state = 1 => c = b
    <2>1. CASE action_open(path)
      <3>1. /\ opened' = opened \cup {[node_block |-> b, state |-> node[b].state]}
            /\ node[b].state \notin {0, 2}
        BY <2>1 DEF action_open, insert_to_opened_files_table
      <3>2. node[b].state \in {1, 2, 3}
        BY <1>2, <3>1
      <3>. QED  BY <1>2, <3>1, <3>2, ZenonT(60)
    <2>2. CASE action_opendir(path)
      <3>1. PICK c \in {0} \cup NodeTable :
              opened' = opened \cup {[node_block |-> c, state |-> node[b].state]}
        BY <2>2 DEF action_opendir, insert_to_opened_files_table
      <3>2. node[b].state \notin {0, 1}
        BY <2>2 DEF action_opendir
      <3>3. node[b].state \in {1, 2, 3} /\ node[b].state # 1
        BY <1>2, <3>2
      <3>. QED  BY <3>1, <3>3, ZenonT(60)
    <2>. QED  BY <2>1, <2>2
  <1>5. opened' \in SUBSET Entry
    BY <1>4 DEF NodesInv, TypeOK, Entry
  <1>6. \A entry \in opened' \ opened :
            entry.state = 1 => entry.node_block \in Written
                               /\ node[entry.node_block].state = 1
    BY <1>3, <1>4
  <1>. QED  BY <1>1, <1>5, <1>6, DiskStays
-----------------------------------------------------------------------------
LEMMA FormatKeeps ==
  ASSUME NodesInv, format_bitmap_nodetable \/ FormatMark
  PROVE  NodesInv'
  <1>1. /\ node' = node /\ spoilt' = spoilt /\ file_node' = file_node
        /\ free_block' = free_block /\ opened' = opened
        /\ \/ /\ pc = "format" /\ pc' = "mark" /\ bitmap' = bitmap \cap {0, 1}
              /\ reformatted' = (reformatted \/ Written # {} \/ spoilt # {})
           \/ /\ pc = "mark" /\ pc' = "root" /\ bitmap' = bitmap \cup {0, 1, 2}
              /\ reformatted' = reformatted
    BY DEF format_bitmap_nodetable, FormatMark
  <1>2. is_formatted' = is_formatted /\ Written' = Written
    BY <1>1 DEF is_formatted, Written
  <1>3. ~ is_formatted
    BY <1>1 DEF NodesInv, TakenInOrder, Formatting
  <1>4. TypeOK'
    BY <1>1, NodeTableFacts DEF NodesInv, TypeOK
  <1>5. TakenInOrder'
    <2>1. \A b \in bitmap' \cap NodeTable, c \in NodeTable : c <= b => c \in bitmap'
      BY <1>1, NodeTableFacts DEF NodesInv, TakenInOrder
    <2>. QED  BY <1>1, <1>2, <1>3, <2>1, NodeTableFacts
              DEF TakenInOrder, Running, Creating
  <1>6. TableFills'
    BY <1>1 DEF NodesInv, TableFills, Creating
  <1>7. RootIsStored'
    BY <1>1, <1>2 DEF NodesInv, RootIsStored, Running
  <1>8. WrittenIsKnown'
    BY <1>1, <1>2 DEF NodesInv, WrittenIsKnown
  <1>. QED  BY <1>4, <1>5, <1>6, <1>7, <1>8 DEF NodesInv

\* The root's node, the last write of the formatting.
LEMMA FormatRootKeeps ==
  ASSUME NodesInv, FormatRoot
  PROVE  NodesInv'
  <1>1. /\ pc = "root" /\ pc' = "ready"
        /\ bitmap' = bitmap /\ spoilt' = spoilt /\ file_node' = file_node
        /\ free_block' = free_block /\ opened' = opened /\ reformatted' = reformatted
    BY DEF FormatRoot
  <1>2. PICK name \in copies("root") :
          node' = [node EXCEPT ![NodeStart] =
                     [state |-> 2, fname |-> name, parent_block |-> 0, child |-> 0]]
    BY DEF FormatRoot
  <1>3. NodeStart \in bitmap /\ ~ is_formatted
    BY <1>1 DEF NodesInv, TakenInOrder, Formatting
  <1>4. [state |-> 2, fname |-> name, parent_block |-> 0, child |-> 0] \in Node
    BY <1>2, NoNameYet, CopiesType DEF Node
  <1>5. /\ node \in [NodeTable -> Node] /\ node' \in [NodeTable -> Node]
        /\ node'[NodeStart].fname = name /\ node'[NodeStart].state = 2
        /\ \A b \in NodeTable \ {NodeStart} : node'[b] = node[b]
    BY <1>2, <1>4, NodeTableFacts DEF NodesInv, TypeOK
  <1>6. TypeOK'
    BY <1>1, <1>5 DEF NodesInv, TypeOK
  <1>7. TakenInOrder'
    BY <1>1, <1>3 DEF NodesInv, TakenInOrder, Creating, Formatting
  <1>8. TableFills'
    BY <1>1 DEF NodesInv, TableFills, Creating
  <1>9. RootIsStored'
    BY <1>1, <1>2, <1>5 DEF RootIsStored
  <1>10. WrittenIsKnown'
    <2>1. Written' \subseteq Written \cup {NodeStart}
      BY <1>5 DEF Written
    <2>2. ~reformatted => Written = {}
      BY <1>1 DEF NodesInv, WrittenIsKnown
    <2>. QED  BY <1>1, <1>3, <2>1, <2>2 DEF NodesInv, WrittenIsKnown
  <1>. QED  BY <1>6, <1>7, <1>8, <1>9, <1>10 DEF NodesInv

\* mknod and mkdir up to their first write.
LEMMA CreateKeeps ==
  ASSUME NodesInv, NEW path \in Path, NEW kind \in {1, 2}, Create(path, kind)
  PROVE  NodesInv'
  <1>. PICK free : free = find_free_block
    OBVIOUS
  <1>1. /\ pc = "ready" /\ pc' = "node" /\ free_block' = free
        /\ bitmap' = bitmap \cup ({free} \ {-1})
        /\ node' = node /\ spoilt' = spoilt /\ opened' = opened
        /\ reformatted' = reformatted
    BY DEF Create, set_block_as_occupied
  <1>2. \/ free = -1 /\ NodeTable \subseteq bitmap
        \/ /\ free \in NodeTable \ bitmap /\ free # -1
           /\ \A c \in NodeTable : c < free => c \in bitmap
    BY FreeBlock, NodeTableFacts, SacAssumption
  <1>3. NodeStart \in bitmap
    BY <1>1 DEF NodesInv, TakenInOrder, Running
  <1>4. is_formatted' = is_formatted /\ Written' = Written
    BY <1>1 DEF is_formatted, Written
  <1>5. file_node' \in Node
    <2>1. PICK name \in copies(path[Len(path)]) :
            file_node' = [state |-> kind, fname |-> name,
                          parent_block |-> find_directory(path), child |-> 0]
      BY DEF Create
    <2>2. path[Len(path)] \in Name
      BY PathFacts
    <2>3. name \in Name \cup {Empty, Noise, Stray}
      BY <2>1, <2>2, CopiesType
    <2>. QED  BY <2>1, <2>3, FindDirectoryType DEF Node
  <1>6. TypeOK'
    <2>1. bitmap' \in SUBSET ({0, 1} \cup NodeTable)
      BY <1>1, <1>2 DEF NodesInv, TypeOK
    <2>2. free_block' \in {-1, 0} \cup NodeTable
      BY <1>1, <1>2
    <2>. QED  BY <1>1, <1>5, <2>1, <2>2 DEF NodesInv, TypeOK
  <1>7. TakenInOrder'
    <2>1. \A b \in bitmap \cap NodeTable, c \in NodeTable : c <= b => c \in bitmap
      BY DEF NodesInv, TakenInOrder
    <2>2. \A b \in NodeTable : b \in Int
      BY NodeTableFacts
    <2>3. CASE free = -1
      <3>1. bitmap' = bitmap
        BY <1>1, <2>3
      <3>. QED  BY <1>1, <1>3, <2>1, <2>3, <3>1
                DEF TakenInOrder, Creating, Running, Formatting
    <2>4. CASE /\ free \in NodeTable \ bitmap /\ free # -1
               /\ \A c \in NodeTable : c < free => c \in bitmap
      <3>1. bitmap' = bitmap \cup {free}
        BY <1>1, <2>4
      <3>2. \A b \in bitmap' \cap NodeTable, c \in NodeTable : c <= b => c \in bitmap'
        BY <2>1, <2>2, <2>4, <3>1
      <3>3. free + 1 \notin bitmap' \cap NodeTable
        BY <2>1, <2>2, <2>4, <3>1
      <3>. QED  BY <1>1, <1>3, <2>4, <3>1, <3>2, <3>3
                DEF TakenInOrder, Creating, Running, Formatting
    <2>. QED  BY <1>2, <2>3, <2>4
  <1>8. TableFills'
    BY <1>1, <1>2 DEF NodesInv, TableFills, Creating
  <1>9. RootIsStored'
    BY <1>1, <1>4 DEF NodesInv, RootIsStored, Running
  <1>10. WrittenIsKnown'
    <2>1. ~reformatted => free \notin Written
      <3>1. -1 \notin Written
        BY NodeTableFacts, SacAssumption DEF Written
      <3>. QED  BY <1>2, <3>1 DEF NodesInv, WrittenIsKnown
    <2>. QED  BY <1>1, <1>4, <2>1 DEF NodesInv, WrittenIsKnown
  <1>. QED  BY <1>6, <1>7, <1>8, <1>9, <1>10 DEF NodesInv

\* The new node goes to its block, or over the header when there was none.
LEMMA WriteNodeKeeps ==
  ASSUME NodesInv, WriteNode
  PROVE  NodesInv'
  <1>1. /\ pc = "node" /\ pc' = "directory" /\ bitmap' = bitmap
        /\ file_node' = file_node /\ free_block' = free_block /\ opened' = opened
        /\ reformatted' = reformatted
        /\ \/ /\ free_block \in NodeTable /\ spoilt' = spoilt
              /\ node' = [node EXCEPT ![free_block] = file_node]
           \/ /\ free_block \notin NodeTable /\ node' = node
              /\ spoilt' = spoilt \cup {0}
    BY DEF WriteNode
  <1>2. /\ free_block \in {-1} \cup (NodeTable \ {NodeStart})
        /\ free_block # -1 => free_block \in bitmap
        /\ node \in [NodeTable -> Node] /\ file_node \in Node
        /\ free_block = -1 => NodeTable \subseteq bitmap
    BY <1>1 DEF NodesInv, TakenInOrder, TableFills, Creating, TypeOK
  <1>3. /\ node' \in [NodeTable -> Node]
        /\ node'[NodeStart] = node[NodeStart]
        /\ \A b \in NodeTable \ {free_block} : node'[b] = node[b]
    BY <1>1, <1>2, NodeTableFacts
  <1>4. is_formatted' = is_formatted
    BY <1>3 DEF is_formatted
  <1>5. TypeOK'
    BY <1>1, <1>3 DEF NodesInv, TypeOK
  <1>6. TakenInOrder'
    BY <1>1, <1>4 DEF NodesInv, TakenInOrder, Creating, Running, Formatting
  <1>7. TableFills'
    BY <1>1, <1>2 DEF NodesInv, TableFills, Creating
  <1>8. RootIsStored'
    <2>1. NodeStart \in Written' => NodeStart \in Written
      BY <1>3 DEF Written
    <2>2. free_block = -1 => 0 \in spoilt'
      BY <1>1, NodeTableFacts, SacAssumption
    <2>. QED  BY <1>1, <1>3, <2>1, <2>2 DEF NodesInv, RootIsStored, Running
  <1>9. WrittenIsKnown'
    <2>. SUFFICES ASSUME ~reformatted
                  PROVE  WrittenIsKnown'
      BY <1>1 DEF WrittenIsKnown
    <2>1. Written' \subseteq Written \cup ({free_block} \ {-1})
      BY <1>3, NodeTableFacts, SacAssumption DEF Written
    <2>2. \A b \in Written : b \in Written' /\ node'[b] = node[b]
      BY <1>1, <1>3 DEF NodesInv, WrittenIsKnown, Written
    <2>. QED  BY <1>1, <1>2, <2>1, <2>2 DEF NodesInv, WrittenIsKnown
  <1>. QED  BY <1>5, <1>6, <1>7, <1>8, <1>9 DEF NodesInv

\* The block behind the new node holds no file, so the one it is copied to
\* holds none either; at the start of the disk it is the bitmap that is copied.
LEMMA WriteDirectoryKeeps ==
  ASSUME NodesInv, WriteDirectory
  PROVE  NodesInv'
  <1>. PICK at : at = (IF free_block = -1 THEN 0 ELSE free_block) + 1
    OBVIOUS
  <1>. PICK entry : entry = [directory_read(at) EXCEPT !.child = free_block]
    OBVIOUS
  <1>1. /\ pc = "directory" /\ bitmap' = bitmap
        /\ file_node' = Blank /\ free_block' = 0 /\ opened' = opened
        /\ reformatted' = reformatted
        /\ \/ /\ pc' \in {"down", "ready"} /\ node' = node /\ spoilt' = spoilt
           \/ /\ pc' = "ready" /\ at + 1 \in NodeTable /\ spoilt' = spoilt
              /\ node' = [node EXCEPT ![at + 1] = entry]
           \/ /\ pc' = "ready" /\ at + 1 \notin NodeTable /\ node' = node
              /\ spoilt' = spoilt \cup {at + 1}
    BY DEF WriteDirectory, directory_written_to
  <1>2. /\ free_block \in {-1} \cup (NodeTable \ {NodeStart})
        /\ free_block # -1 =>
              free_block \in bitmap /\ free_block + 1 \notin bitmap \cap NodeTable
        /\ node \in [NodeTable -> Node]
    BY <1>1 DEF NodesInv, TakenInOrder, Creating, TypeOK
  <1>3. \/ free_block = -1 /\ at = 1
        \/ free_block # -1 /\ at = free_block + 1 /\ at \in 4 .. NodeEnd + 1
    BY <1>2, NodeTableFacts, SacAssumption, SMTT(60)
  <1>4. ASSUME at + 1 \in NodeTable
        PROVE  /\ entry \in Node
               /\ free_block = -1 => entry.fname \notin Name \cup {Stray}
               /\ free_block # -1 =>
                     at \in NodeTable /\ at \notin bitmap /\ entry.fname = node[at].fname
    <2>1. free_block \in {-1, 0} \cup NodeTable
      BY <1>2
    <2>2. CASE free_block = -1 /\ at = 1
      <3>1. entry = [Junk EXCEPT !.child = free_block]
        BY <2>2 DEF directory_read
      <3>2. entry \in Node /\ entry.fname = Junk.fname
        BY <2>1, <3>1, NoNameYet DEF Node
      <3>. QED  BY <2>2, <3>2, NoNameYet
    <2>3. CASE free_block # -1 /\ at = free_block + 1 /\ at \in 4 .. NodeEnd + 1
      <3>1. at \in NodeTable /\ at # 1
        BY <1>4, <2>3, NodeTableFacts, SacAssumption, SMTT(60)
      <3>2. entry = [node[at] EXCEPT !.child = free_block] /\ node[at] \in Node
        BY <1>2, <3>1 DEF directory_read
      <3>3. entry \in Node /\ entry.fname = node[at].fname
        BY <2>1, <3>2 DEF Node
      <3>. QED  BY <1>2, <2>3, <3>1, <3>3
    <2>. QED  BY <1>3, <2>2, <2>3
  <1>5. /\ node' \in [NodeTable -> Node]
        /\ free_block # -1 => node'[NodeStart] = node[NodeStart]
        /\ \/ node' = node
           \/ /\ at + 1 \in NodeTable /\ node'[at + 1] = entry
              /\ \A b \in NodeTable \ {at + 1} : node'[b] = node[b]
    <2>1. CASE node' = node
      BY <1>2, <2>1
    <2>2. CASE at + 1 \in NodeTable /\ node' = [node EXCEPT ![at + 1] = entry]
      <3>1. /\ node' \in [NodeTable -> Node] /\ node'[at + 1] = entry
            /\ \A b \in NodeTable \ {at + 1} : node'[b] = node[b]
        BY <1>2, <1>4, <2>2
      <3>2. free_block # -1 => at + 1 # NodeStart
        BY <1>3, NodeTableFacts, SacAssumption
      <3>. QED  BY <2>2, <3>1, <3>2, NodeTableFacts
    <2>. QED  BY <1>1, <2>1, <2>2
  <1>6. \/ node'[NodeStart] = node[NodeStart]
        \/ free_block = -1 /\ node'[NodeStart].fname \notin Name \cup {Stray}
    <2>1. CASE at + 1 \in NodeTable /\ free_block = -1 /\ node'[at + 1] = entry
      <3>1. NodeStart = at + 1
        BY <1>3, <2>1, NodeTableFacts
      <3>. QED  BY <1>4, <2>1, <3>1
    <2>. QED  BY <1>5, <2>1
  <1>7. TypeOK'
    <2>1. spoilt' \in SUBSET ({0} \cup {NodeEnd + 1, NodeEnd + 2})
      <3>1. at + 1 \notin NodeTable => at + 1 \in {NodeEnd + 1, NodeEnd + 2}
        BY <1>3, NodeTableFacts, SacAssumption, SMTT(60)
      <3>. QED  BY <1>1, <3>1 DEF NodesInv, TypeOK
    <2>. QED  BY <1>1, <1>5, <2>1, NoNameYet DEF NodesInv, TypeOK
  <1>8. TakenInOrder'
    <2>1. is_formatted' => is_formatted
      BY <1>6, NoNameYet DEF is_formatted
    <2>. QED  BY <1>1, <2>1 DEF NodesInv, TakenInOrder, Creating, Running, Formatting
  <1>9. TableFills'
    <2>1. spoilt' # spoilt => NodeTable \ {NodeEnd} \subseteq bitmap
      <3>. SUFFICES ASSUME spoilt' # spoilt, NEW c \in NodeTable \ {NodeEnd}
                    PROVE  c \in bitmap
        OBVIOUS
      <3>1. at + 1 \notin NodeTable
        BY <1>1
      <3>2. free_block \in bitmap \cap NodeTable /\ c <= free_block
        BY <1>2, <1>3, <3>1, NodeTableFacts, SacAssumption, SMTT(60)
      <3>. QED  BY <3>2 DEF NodesInv, TakenInOrder
    <2>. QED  BY <1>1, <2>1 DEF NodesInv, TableFills, Creating
  <1>10. RootIsStored'
    <2>1. free_block = -1 => 0 \in spoilt
      BY <1>1 DEF NodesInv, RootIsStored
    <2>2. 0 \in spoilt => 0 \in spoilt'
      BY <1>1
    <2>3. 0 \in spoilt \/ node[NodeStart].fname \in copies("root")
      BY <1>1 DEF NodesInv, RootIsStored, Running
    <2>4. NodeStart \in Written' =>
             NodeStart \in Written /\ node'[NodeStart] = node[NodeStart]
      BY <1>6 DEF Written
    <2>. QED  BY <1>1, <1>6, <2>1, <2>2, <2>3, <2>4 DEF NodesInv, RootIsStored
  <1>11. WrittenIsKnown'
    <2>. SUFFICES ASSUME ~reformatted
                  PROVE  WrittenIsKnown'
      BY <1>1 DEF WrittenIsKnown
    <2>1. Written \subseteq bitmap
      BY DEF NodesInv, WrittenIsKnown
    <2>2. CASE node' = node
      BY <1>1, <2>2 DEF NodesInv, WrittenIsKnown, Written
    <2>3. CASE /\ at + 1 \in NodeTable /\ node'[at + 1] = entry
               /\ \A b \in NodeTable \ {at + 1} : node'[b] = node[b]
      <3>1. entry.fname \notin Name \cup {Stray}
        BY <1>4, <2>1, <2>3 DEF Written
      <3>2. Written' = Written \ {at + 1}
        BY <2>3, <3>1 DEF Written
      <3>3. at + 1 \in Written => at + 1 = NodeStart
        <4>1. CASE free_block = -1 /\ at = 1
          BY <4>1, NodeTableFacts
        <4>2. CASE free_block # -1 /\ at \in 4 .. NodeEnd + 1
          <5>1. at \in NodeTable \ bitmap /\ at <= at + 1
            BY <1>4, <2>3, <4>2, NodeTableFacts
          <5>2. at + 1 \notin bitmap
            BY <2>3, <5>1 DEF NodesInv, TakenInOrder
          <5>. QED  BY <2>1, <5>2
        <4>. QED  BY <1>3, <4>1, <4>2
      <3>4. \A e \in opened : e.state = 1 => e.node_block \in Written'
                                             /\ node'[e.node_block].state = 1
        <4>. TAKE e \in opened
        <4>. SUFFICES ASSUME e.state = 1
                      PROVE  e.node_block \in Written' /\ node'[e.node_block].state = 1
          OBVIOUS
        <4>1. e.node_block \in Written /\ node[e.node_block].state = 1
          BY DEF NodesInv, WrittenIsKnown
        <4>2. e.node_block # at + 1
          BY <3>3, <4>1 DEF NodesInv, RootIsStored
        <4>. QED  BY <2>3, <3>2, <4>1, <4>2 DEF Written
      <3>. QED  BY <1>1, <2>1, <3>2, <3>4 DEF WrittenIsKnown
    <2>. QED  BY <1>5, <2>2, <2>3
  <1>. QED  BY <1>7, <1>8, <1>9, <1>10, <1>11 DEF NodesInv
-----------------------------------------------------------------------------
LEMMA StutterKeeps ==
  ASSUME NodesInv, UNCHANGED vars
  PROVE  NodesInv'
  BY DEF NodesInv, vars, diskVars, TypeOK, TakenInOrder, TableFills, RootIsStored,
         WrittenIsKnown, Written, is_formatted, Creating

\* Every step keeps the invariant.
LEMMA NextKeeps == NodesInv /\ [Next]_vars => NodesInv'
  <1>. SUFFICES ASSUME NodesInv, [Next]_vars
                PROVE  NodesInv'
    OBVIOUS
  <1>1. CASE Start
    BY <1>1, StartKeeps
  <1>2. CASE format_bitmap_nodetable \/ FormatMark
    BY <1>2, FormatKeeps
  <1>3. CASE FormatRoot
    BY <1>3, FormatRootKeeps
  <1>4. CASE \E path \in Path : Request(path)
    <2>. PICK path \in Path : Request(path)
      BY <1>4
    <2>1. CASE action_mknod(path) \/ action_mkdir(path)
      BY <2>1, CreateKeeps DEF action_mknod, action_mkdir
    <2>2. CASE action_open(path) \/ action_opendir(path)
      BY <2>2, OpenKeeps
    <2>3. CASE action_readdir(path)
      BY <2>3, KillKeeps
    <2>. QED  BY <2>1, <2>2, <2>3 DEF Request
  <1>5. CASE WriteNode
    BY <1>5, WriteNodeKeeps
  <1>6. CASE WriteDirectory
    BY <1>6, WriteDirectoryKeeps
  <1>7. CASE Kill
    BY <1>7, KillKeeps
  <1>8. CASE UNCHANGED vars
    BY <1>8, StutterKeeps
  <1>. QED  BY <1>1, <1>2, <1>3, <1>4, <1>5, <1>6, <1>7, <1>8 DEF Next

\* The invariant holds in every reachable state.
LEMMA NodesHold == Spec => []NodesInv
  BY InitHasNodesInv, NextKeeps, PTL DEF Spec

\* The disk, the node being written and the table of open files have their
\* types: whatever find_node and find_free_block answer is a block or 0 or -1.
THEOREM NodeTypesHold == Spec => []TypeOK
  <1>1. NodesInv => TypeOK
    BY DEF NodesInv
  <1>. QED  BY <1>1, NodesHold, PTL

\* Until a table with nodes in it is formatted, a node's block has its bit set
\* at every write of every request and over every restart.
THEOREM BitsHold == Spec => []NodesHaveBits
  <1>1. NodesInv => NodesHaveBits
    BY DEF NodesInv, WrittenIsKnown, NodesHaveBits
  <1>. QED  BY <1>1, NodesHold, PTL

\* A table with nodes in it is formatted again only when the root was stored
\* under another name, or a full table had its header written over: no write of
\* any request, cut short or not, reaches the root otherwise.
THEOREM RootHolds == Spec => []RootIsLostInTwoWays
  <1>1. NodesInv => RootIsLostInTwoWays
    BY DEF NodesInv, RootIsStored, RootIsLostInTwoWays, is_formatted
  <1>. QED  BY <1>1, NodesHold, PTL

\* With two blocks of the table left, no node was written outside it.
THEOREM TableHolds == Spec => []OnlyTheTableIsWritten
  <1>1. NodesInv => OnlyTheTableIsWritten
    <2>. SUFFICES ASSUME NodesInv, ~reformatted, spoilt # {}
                  PROVE  ~ (Cardinality(NodeTable \ bitmap) >= 2)
      BY DEF OnlyTheTableIsWritten
    <2>. PICK free : free = NodeTable \ bitmap
      OBVIOUS
    <2>1. free \subseteq {NodeEnd}
      BY DEF NodesInv, TableFills
    <2>2. IsFiniteSet({NodeEnd}) /\ Cardinality({NodeEnd}) = 1
      BY FS_Singleton
    <2>3. Cardinality(free) <= 1 /\ Cardinality(free) \in Nat
      BY <2>1, <2>2, FS_Subset, FS_CardinalityType
    <2>. QED  BY <2>3
  <1>. QED  BY <1>1, NodesHold, PTL

\* Until a table with nodes in it is formatted, what action_open put in the
\* table stays the node of a regular file.
THEOREM OpenedHold == Spec => []OpenedStayFiles
  <1>1. NodesInv => OpenedStayFiles
    BY DEF NodesInv, WrittenIsKnown, OpenedStayFiles
  <1>. QED  BY <1>1, NodesHold, PTL
-----------------------------------------------------------------------------
(* Paths.  path_below and the ancestors of a node are recursive functions;   *)
(* that they exist and what they spell is proved by induction up to a depth. *)

\* Depth is the length of the longest path that requests name.
LEMMA DepthFacts ==
  Depth \in Nat \ {0} /\ \A path \in Path : Len(path) <= Depth
  <1>. DEFINE S == {Len(path) : path \in Path}
  <1>. PICK n \in Nat : ExistsSurjection(1 .. n, Path)
    BY SacAssumption, FS_NatSurjection
  <1>1. PICK f : f \in Surjection(1 .. n, Path)
    BY DEF ExistsSurjection
  <1>2. /\ f \in [1 .. n -> Path]
        /\ \A path \in Path : \E i \in 1 .. n : f[i] = path
    BY <1>1 DEF Surjection
  <1>. DEFINE T == {m \in 0 .. n : \E d \in Nat : \A i \in 1 .. m : Len(f[i]) <= d}
  <1>3. 0 .. n \subseteq T
    <2>1. 0 \in T
      <3>1. \A i \in 1 .. 0 : Len(f[i]) <= 0
        OBVIOUS
      <3>. QED  BY <3>1
    <2>2. ASSUME NEW m \in 1 .. n, m - 1 \in T
          PROVE  m \in T
      <3>. PICK d \in Nat : \A i \in 1 .. m - 1 : Len(f[i]) <= d
        BY <2>2
      <3>1. Len(f[m]) \in Nat
        BY <1>2, PathFacts
      <3>. PICK e \in Nat : e >= d /\ e >= Len(f[m])
        <4>1. CASE d >= Len(f[m])
          BY <4>1
        <4>2. CASE Len(f[m]) >= d
          BY <3>1, <4>2
        <4>. QED  BY <3>1, <4>1, <4>2
      <3>2. \A i \in 1 .. m - 1 : f[i] \in Path /\ Len(f[i]) \in Nat
        BY <1>2, PathFacts
      <3>3. \A i \in 1 .. m : Len(f[i]) <= e
        BY <3>1, <3>2
      <3>. QED  BY <3>3, SMTT(60)
    <2>. HIDE DEF T
    <2>. QED  BY <2>1, <2>2, UpTo
  <1>4. PICK d \in Nat : \A path \in Path : Len(path) <= d
    <2>1. n \in T
      <3>. HIDE DEF T
      <3>. QED  BY <1>3
    <2>. QED  BY <1>2, <2>1
  <1>5. S \in SUBSET (0 .. d) /\ S # {}
    <2>1. \A path \in Path : Len(path) \in 0 .. d
      BY <1>4, PathFacts
    <2>2. Path # {}
      BY SacAssumption
    <2>. QED  BY <2>1, <2>2
  <1>6. Max(S) \in S /\ \A k \in S : k <= Max(S)
    <2>. HIDE DEF S
    <2>. QED  BY <1>5, GreatestExists
  <1>. QED  BY <1>6, PathFacts DEF Depth

\* What the search needs of the disk.
NodesTyped == node \in [NodeTable -> Node]

\* A node's parent is a block of the table, or none.
LEMMA ParentType ==
  ASSUME NodesTyped, NEW b \in NodeTable
  PROVE  /\ node[b].parent_block \in {0} \cup NodeTable
         /\ node[b].fname \in Name \cup {Empty, Noise, Stray}
  BY DEF NodesTyped, Node

\* The ancestors of a block: itself, then one parent after the other.
LEMMA AncestorsStep ==
  ASSUME NodesTyped, NEW b \in NodeTable, NEW depth \in Nat
  PROVE  /\ ancestors(b, depth)[0] = b
         /\ \A k \in 0 .. depth : ancestors(b, depth)[k] \in {0} \cup NodeTable
         /\ \A k \in 1 .. depth : ancestors(b, depth)[k] =
               IF ancestors(b, depth)[k - 1] = 0 THEN 0
               ELSE node[ancestors(b, depth)[k - 1]].parent_block
  <1>. DEFINE Place == {0} \cup NodeTable
              up == [x \in Place |-> IF x = 0 THEN 0 ELSE node[x].parent_block]
              Is(g) == g = [k \in 0 .. depth |->
                              IF k = 0 THEN b
                              ELSE IF g[k - 1] = 0 THEN 0 ELSE node[g[k - 1]].parent_block]
  <1>1. up \in [Place -> Place] /\ b \in Place
    BY ParentType
  <1>2. PICK g \in [0 .. depth -> Place] : g[0] = b /\ \A k \in 1 .. depth : g[k] = up[g[k - 1]]
    <2>. HIDE DEF up, Place, Is
    <2>1. b \in Place /\ Into(up, Place)
      BY <1>1 DEF Into
    <2>2. PICK g : Iterates(g, depth, b, up, Place)
      BY <2>1, IterationExists
    <2>. QED  BY <2>2 DEF Iterates
  <1>3. \A k \in 1 .. depth :
           g[k] = IF g[k - 1] = 0 THEN 0 ELSE node[g[k - 1]].parent_block
    <2>. TAKE k \in 1 .. depth
    <2>1. k - 1 \in 0 .. depth
      OBVIOUS
    <2>2. g[k - 1] \in Place /\ g[k] = up[g[k - 1]]
      BY <1>2, <2>1
    <2>. QED  BY <2>2
  <1>4. \E h : Is(h)
    <2>1. g = [k \in 0 .. depth |-> g[k]]
      OBVIOUS
    <2>2. \A k \in 0 .. depth :
             g[k] = IF k = 0 THEN b
                    ELSE IF g[k - 1] = 0 THEN 0 ELSE node[g[k - 1]].parent_block
      <3>. TAKE k \in 0 .. depth
      <3>1. CASE k = 0
        BY <1>2, <3>1
      <3>2. CASE k \in 1 .. depth
        <4>1. k # 0
          BY <3>2
        <4>. QED  BY <1>3, <3>2, <4>1, Zenon
      <3>. QED  BY <3>1, <3>2
    <2>3. Is(g)
      BY <2>1, <2>2, Zenon
    <2>. HIDE DEF Is
    <2>. QED  BY <2>3
  <1>5. Is(ancestors(b, depth))
    BY <1>4, Zenon DEF ancestors
  <1>. PICK a : a = ancestors(b, depth)
    OBVIOUS
  <1>6. \A k \in 0 .. depth :
           a[k] = IF k = 0 THEN b
                  ELSE IF a[k - 1] = 0 THEN 0 ELSE node[a[k - 1]].parent_block
    BY <1>5
  <1>. DEFINE T == {k \in 0 .. depth : a[k] \in Place}
  <1>7. 0 .. depth \subseteq T
    <2>1. 0 \in T
      BY <1>6
    <2>2. ASSUME NEW m \in 1 .. depth, m - 1 \in T
          PROVE  m \in T
      BY <1>6, <2>2, ParentType
    <2>. HIDE DEF T
    <2>. QED  BY <2>1, <2>2, UpTo
  <1>. QED  BY <1>6, <1>7

\* The paths below a depth: what the recursion of path_below defines.
IsPathBelow(p, n) ==
    p = [k \in 0 .. Depth + 1 |-> [b \in NodeTable |->
            IF k = 0 THEN <<>>
            ELSE IF n[b].parent_block = 0 THEN <<n[b].fname>>
            ELSE Append(p[k - 1][n[b].parent_block], n[b].fname)]]

\* Names read from a disk, whatever it holds.
Spelling == Seq(Name \cup {Empty, Noise, Stray})
PathStep(p, n) ==
    /\ \A k \in 0 .. Depth + 1 : p[k] \in [NodeTable -> Spelling]
    /\ \A b \in NodeTable : p[0][b] = <<>>
    /\ \A k \in 1 .. Depth + 1, b \in NodeTable :
          p[k][b] = IF n[b].parent_block = 0 THEN <<n[b].fname>>
                    ELSE Append(p[k - 1][n[b].parent_block], n[b].fname)

\* One name more is still a spelling.
LEMMA OneLevel ==
  ASSUME NEW n \in [NodeTable -> Node], NEW q \in [NodeTable -> Spelling], NEW b \in NodeTable
  PROVE  IF n[b].parent_block = 0 THEN <<n[b].fname>> \in Spelling
         ELSE Append(q[n[b].parent_block], n[b].fname) \in Spelling
  <1>1. /\ n[b].parent_block \in {0} \cup NodeTable
        /\ n[b].fname \in Name \cup {Empty, Noise, Stray}
    BY DEF Node
  <1>2. CASE n[b].parent_block = 0
    BY <1>1, <1>2 DEF Spelling
  <1>3. CASE n[b].parent_block # 0
    <2>1. q[n[b].parent_block] \in Spelling
      BY <1>1, <1>3
    <2>. QED  BY <1>1, <1>3, <2>1 DEF Spelling
  <1>. QED  BY <1>2, <1>3

\* The recursion of path_below defines a function.
LEMMA PathsExist ==
  ASSUME NEW n \in [NodeTable -> Node]
  PROVE  \E p : IsPathBelow(p, n)
  <1>. DEFINE Level == [NodeTable -> Spelling]
              up == [q \in Level |-> [b \in NodeTable |->
                     IF n[b].parent_block = 0 THEN <<n[b].fname>>
                     ELSE Append(q[n[b].parent_block], n[b].fname)]]
              none == [b \in NodeTable |-> <<>>]
  <1>1. up \in [Level -> Level] /\ none \in Level
    <2>1. none \in Level
      BY DEF Spelling
    <2>2. \A q \in Level : up[q] \in Level
      BY OneLevel
    <2>3. up = [q \in Level |-> up[q]]
      OBVIOUS
    <2>. HIDE DEF up, Level, none
    <2>. QED  BY <2>1, <2>2, <2>3
  <1>2. PICK g \in [0 .. Depth + 1 -> Level] :
            g[0] = none /\ \A k \in 1 .. Depth + 1 : g[k] = up[g[k - 1]]
    <2>1. Depth + 1 \in Nat
      BY DepthFacts
    <2>. HIDE DEF up, Level, none
    <2>2. none \in Level /\ Into(up, Level)
      BY <1>1 DEF Into
    <2>3. PICK g : Iterates(g, Depth + 1, none, up, Level)
      BY <2>1, <2>2, IterationExists
    <2>. QED  BY <2>3 DEF Iterates
  <1>3. \A k \in 0 .. Depth + 1 : g[k] = [b \in NodeTable |->
            IF k = 0 THEN <<>>
            ELSE IF n[b].parent_block = 0 THEN <<n[b].fname>>
            ELSE Append(g[k - 1][n[b].parent_block], n[b].fname)]
    <2>. TAKE k \in 0 .. Depth + 1
    <2>1. CASE k = 0
      BY <1>2, <2>1
    <2>2. CASE k # 0
      <3>1. k \in 1 .. Depth + 1 /\ k - 1 \in 0 .. Depth + 1
        BY <2>2, DepthFacts
      <3>2. g[k] = up[g[k - 1]] /\ g[k - 1] \in Level
        BY <1>2, <3>1
      <3>3. up[g[k - 1]] = [b \in NodeTable |->
               IF n[b].parent_block = 0 THEN <<n[b].fname>>
               ELSE Append(g[k - 1][n[b].parent_block], n[b].fname)]
        BY <3>2
      <3>. HIDE DEF up, Level, none
      <3>. QED  BY <2>2, <3>2, <3>3
    <2>. QED  BY <2>1, <2>2
  <1>4. g = [k \in 0 .. Depth + 1 |-> [b \in NodeTable |->
            IF k = 0 THEN <<>>
            ELSE IF n[b].parent_block = 0 THEN <<n[b].fname>>
            ELSE Append(g[k - 1][n[b].parent_block], n[b].fname)]]
    <2>1. g = [k \in 0 .. Depth + 1 |-> g[k]]
      OBVIOUS
    <2>. HIDE DEF up, Level, none
    <2>. QED  BY <1>3, <2>1
  <1>. QED  BY <1>4 DEF IsPathBelow

\* What follows from its equation, level by level.
LEMMA PathStepHolds ==
  ASSUME NEW n \in [NodeTable -> Node], NEW p, IsPathBelow(p, n)
  PROVE  PathStep(p, n)
  <1>1. \A k \in 0 .. Depth + 1 : p[k] = [b \in NodeTable |->
            IF k = 0 THEN <<>>
            ELSE IF n[b].parent_block = 0 THEN <<n[b].fname>>
            ELSE Append(p[k - 1][n[b].parent_block], n[b].fname)]
    BY DEF IsPathBelow
  <1>2. 0 \in 0 .. Depth + 1 /\ Depth + 1 \in Nat
    BY DepthFacts
  <1>3. \A b \in NodeTable : p[0][b] = <<>>
    BY <1>1, <1>2
  <1>4. \A k \in 1 .. Depth + 1, b \in NodeTable :
          p[k][b] = IF n[b].parent_block = 0 THEN <<n[b].fname>>
                    ELSE Append(p[k - 1][n[b].parent_block], n[b].fname)
    <2>. TAKE k \in 1 .. Depth + 1, b \in NodeTable
    <2>1. k \in 0 .. Depth + 1 /\ k # 0
      BY <1>2
    <2>. QED  BY <1>1, <2>1, ZenonT(60)
  <1>. DEFINE T == {k \in 0 .. Depth + 1 : p[k] \in [NodeTable -> Spelling]}
  <1>5. 0 .. Depth + 1 \subseteq T
    <2>1. 0 \in T
      <3>1. p[0] = [b \in NodeTable |-> <<>>]
        BY <1>1, <1>2
      <3>2. p[0] \in [NodeTable -> Spelling]
        BY <3>1 DEF Spelling
      <3>. QED  BY <1>2, <3>2
    <2>2. ASSUME NEW m \in 1 .. Depth + 1, m - 1 \in T
          PROVE  m \in T
      <3>1. m \in 0 .. Depth + 1 /\ p[m - 1] \in [NodeTable -> Spelling]
        BY <1>2, <2>2
      <3>2. \A b \in NodeTable : p[m][b] \in Spelling
        <4>. TAKE b \in NodeTable
        <4>1. p[m][b] = IF n[b].parent_block = 0 THEN <<n[b].fname>>
                        ELSE Append(p[m - 1][n[b].parent_block], n[b].fname)
          BY <1>4
        <4>. QED  BY <3>1, <4>1, OneLevel
      <3>3. p[m] = [b \in NodeTable |-> p[m][b]]
        BY <1>1, <3>1
      <3>4. p[m] \in [NodeTable -> Spelling]
        BY <3>2, <3>3
      <3>. QED  BY <3>1, <3>4
    <2>. HIDE DEF T
    <2>. QED  BY <1>2, <2>1, <2>2, UpTo
  <1>. QED  BY <1>3, <1>4, <1>5 DEF PathStep

\* So for the disk as it is, and as a step leaves it.
LEMMA PathBelowStep == NodesTyped => PathStep(path_below, node)
  <1>. SUFFICES ASSUME NodesTyped
                PROVE  PathStep(path_below, node)
    OBVIOUS
  <1>1. \E p : IsPathBelow(p, node)
    BY PathsExist, Zenon DEF NodesTyped
  <1>2. IsPathBelow(path_below, node)
    BY <1>1, Zenon DEF path_below, IsPathBelow
  <1>. QED  BY <1>2, PathStepHolds DEF NodesTyped

LEMMA PathBelowStepNext == (NodesTyped => PathStep(path_below, node))'
  BY PathBelowStep, PTL

\* What path_below says of a block, for two disks alike.
LEMMA PathIsLong ==
  ASSUME NEW n \in [NodeTable -> Node], NEW p, PathStep(p, n)
  PROVE  \A k \in 1 .. Depth + 1, b \in NodeTable :
            p[k][b] \in Spelling /\ Len(p[k][b]) \in Nat \ {0}
  <1>. TAKE k \in 1 .. Depth + 1, b \in NodeTable
  <1>1. k \in 0 .. Depth + 1 /\ k - 1 \in 0 .. Depth + 1 /\ Depth + 1 \in Nat
    BY DepthFacts
  <1>2. p[k][b] \in Spelling /\ p[k - 1] \in [NodeTable -> Spelling]
    BY <1>1 DEF PathStep
  <1>3. n[b].parent_block \in {0} \cup NodeTable
    BY DEF Node
  <1>4. CASE n[b].parent_block = 0
    <2>1. p[k][b] = <<n[b].fname>>
      BY <1>4 DEF PathStep
    <2>. QED  BY <1>2, <2>1
  <1>5. CASE n[b].parent_block # 0
    <2>1. PICK q \in Spelling : q = p[k - 1][n[b].parent_block]
      BY <1>2, <1>3, <1>5
    <2>2. p[k][b] = Append(q, n[b].fname)
      BY <1>5, <2>1, ZenonT(60) DEF PathStep
    <2>. QED  BY <1>2, <2>1, <2>2, SMTT(60) DEF Spelling
  <1>. QED  BY <1>4, <1>5

\* A path that did not reach the bound is whole: one level less gives it too.
LEMMA ShortPathsAreWhole ==
  ASSUME NEW n \in [NodeTable -> Node], NEW p, PathStep(p, n)
  PROVE  \A k \in 0 .. Depth, b \in NodeTable :
            Len(p[k + 1][b]) <= k => p[k + 1][b] = p[k][b]
  <1>. DEFINE T == {k \in 0 .. Depth : \A b \in NodeTable :
                        Len(p[k + 1][b]) <= k => p[k + 1][b] = p[k][b]}
  <1>1. 0 \in T
    <2>1. 0 + 1 \in 1 .. Depth + 1 /\ 0 \in 0 .. Depth
      BY DepthFacts
    <2>2. \A b \in NodeTable : ~ (Len(p[0 + 1][b]) <= 0)
      BY <2>1, PathIsLong
    <2>. QED  BY <2>1, <2>2
  <1>2. ASSUME NEW m \in 1 .. Depth, m - 1 \in T
        PROVE  m \in T
    <2>1. ASSUME NEW b \in NodeTable, Len(p[m + 1][b]) <= m
          PROVE  p[m + 1][b] = p[m][b]
      <3>1. /\ m + 1 \in 1 .. Depth + 1 /\ m \in 1 .. Depth + 1 /\ (m + 1) - 1 = m
            /\ (m - 1) + 1 = m /\ m - 1 \in Int
        BY DepthFacts
      <3>2. n[b].parent_block \in {0} \cup NodeTable
        BY DEF Node
      <3>3. /\ p[m + 1][b] = IF n[b].parent_block = 0 THEN <<n[b].fname>>
                             ELSE Append(p[m][n[b].parent_block], n[b].fname)
            /\ p[m][b] = IF n[b].parent_block = 0 THEN <<n[b].fname>>
                         ELSE Append(p[m - 1][n[b].parent_block], n[b].fname)
        BY <3>1, SMTT(60) DEF PathStep
      <3>4. CASE n[b].parent_block = 0
        BY <3>3, <3>4, SMTT(60)
      <3>5. CASE n[b].parent_block # 0
        <4>1. PICK q \in Spelling : q = p[m][n[b].parent_block]
          BY <3>1, <3>2, <3>5, PathIsLong, SMTT(60)
        <4>2. Len(Append(q, n[b].fname)) = Len(q) + 1 /\ Len(q) \in Nat
          BY SMTT(60) DEF Spelling
        <4>3. Len(q) <= m - 1
          BY <2>1, <3>1, <3>3, <3>5, <4>1, <4>2
        <4>4. p[m][n[b].parent_block] = p[m - 1][n[b].parent_block]
          BY <1>2, <3>1, <3>2, <3>5, <4>1, <4>3
        <4>. QED  BY <3>3, <3>5, <4>4, SMTT(60)
      <3>. QED  BY <3>4, <3>5
    <2>2. m \in 0 .. Depth
      BY DepthFacts
    <2>. QED  BY <2>1, <2>2
  <1>3. 0 .. Depth \subseteq T
    <2>. HIDE DEF T
    <2>. QED  BY <1>1, <1>2, DepthFacts, UpTo
  <1>. QED  BY <1>3

\* The paths of nodes that keep their names and parents, and whose parents do.
LEMMA PathsAreKept ==
  ASSUME NEW n \in [NodeTable -> Node], NEW p, PathStep(p, n),
         NEW m \in [NodeTable -> Node], NEW q, PathStep(q, m),
         NEW W \in SUBSET NodeTable,
         \A b \in W : /\ n[b].parent_block \in {0} \cup W
                      /\ m[b].parent_block = n[b].parent_block
                      /\ m[b].fname = n[b].fname
  PROVE  \A b \in W : q[Depth + 1][b] = p[Depth + 1][b]
  <1>. DEFINE T == {k \in 0 .. Depth + 1 : \A b \in W : q[k][b] = p[k][b]}
  <1>1. 0 \in T
    BY DepthFacts DEF PathStep
  <1>2. ASSUME NEW k \in 1 .. Depth + 1, k - 1 \in T
        PROVE  k \in T
    <2>1. k \in 0 .. Depth + 1
      BY DepthFacts
    <2>2. \A b \in W : q[k][b] = p[k][b]
      <3>. TAKE b \in W
      <3>1. b \in NodeTable
        OBVIOUS
      <3>2. /\ p[k][b] = IF n[b].parent_block = 0 THEN <<n[b].fname>>
                         ELSE Append(p[k - 1][n[b].parent_block], n[b].fname)
            /\ q[k][b] = IF m[b].parent_block = 0 THEN <<m[b].fname>>
                         ELSE Append(q[k - 1][m[b].parent_block], m[b].fname)
        BY <3>1 DEF PathStep
      <3>3. n[b].parent_block # 0 =>
              q[k - 1][n[b].parent_block] = p[k - 1][n[b].parent_block]
        BY <1>2
      <3>. QED  BY <3>2, <3>3
    <2>. QED  BY <2>1, <2>2
  <1>3. 0 .. Depth + 1 \subseteq T
    <2>1. Depth + 1 \in Nat
      BY DepthFacts
    <2>. HIDE DEF T
    <2>. QED  BY <1>1, <1>2, <2>1, UpTo
  <1>4. Depth + 1 \in T
    <2>. HIDE DEF T
    <2>. QED  BY <1>3, DepthFacts
  <1>. QED  BY <1>4

\* The beginnings of a sequence.
LEMMA FrontFacts ==
  ASSUME NEW S, NEW s \in Seq(S), NEW n \in 1 .. Len(s)
  PROVE  /\ SubSeq(s, 1, n) \in Seq(S) /\ Len(SubSeq(s, 1, n)) = n
         /\ SubSeq(s, 1, n)[n] = s[n]
         /\ n = Len(s) => SubSeq(s, 1, n) = s
         /\ IF n = 1 THEN SubSeq(s, 1, n) = <<s[1]>>
            ELSE SubSeq(s, 1, n) = Append(SubSeq(s, 1, n - 1), s[n])
  <1>. PICK f : f = SubSeq(s, 1, n)
    OBVIOUS
  <1>1. f \in Seq(S) /\ Len(f) = n /\ \A i \in 1 .. n : f[i] = s[i]
    OBVIOUS
  <1>2. ASSUME n = Len(s) PROVE f = s
    BY <1>1, <1>2, SeqEqual
  <1>3. ASSUME n = 1 PROVE f = <<s[1]>>
    <2>. PICK g : g = <<s[1]>>
      OBVIOUS
    <2>1. g \in Seq(S) /\ Len(g) = 1 /\ \A i \in 1 .. 1 : g[i] = s[i]
      BY <1>3
    <2>2. Len(f) = Len(g) /\ \A i \in 1 .. Len(f) : f[i] = g[i]
      BY <1>1, <1>3, <2>1
    <2>. QED  BY <1>1, <2>1, <2>2, SeqEqual
  <1>4. ASSUME n # 1 PROVE f = Append(SubSeq(s, 1, n - 1), s[n])
    <2>. PICK g : g = SubSeq(s, 1, n - 1)
      OBVIOUS
    <2>0. n \in Nat /\ n - 1 \in 1 .. Len(s) /\ s[n] \in S /\ (n - 1) + 1 = n
      BY <1>4
    <2>1. g \in Seq(S) /\ Len(g) = n - 1 /\ \A i \in 1 .. n - 1 : g[i] = s[i]
      BY <2>0
    <2>. PICK h : h = Append(g, s[n])
      OBVIOUS
    <2>2. h \in Seq(S) /\ Len(h) = n /\ \A i \in 1 .. n : h[i] = s[i]
      BY <2>0, <2>1
    <2>. QED  BY <1>1, <2>2, SeqEqual
  <1>. QED  BY <1>1, <1>2, <1>3, <1>4, SMTT(60)

\* A path of the bounded length is a node's exactly when the search finds the
\* node's name at its end and its ancestors' names before it.
LEMMA PathIsSpelt ==
  ASSUME NodesTyped, NEW b \in NodeTable,
         NEW path \in Spelling, Len(path) \in 1 .. Depth
  PROVE  path_of(b) = path <=> node[b].fname = path[Len(path)] /\ on_path(b, path)
  <1>. PICK a : a = ancestors(b, Len(path))
    OBVIOUS
  <1>. PICK L \in 1 .. Depth : L = Len(path)
    OBVIOUS
  <1>. DEFINE front(k) == SubSeq(path, 1, L - k)
              at(k) == path_below[Depth + 1 - k][a[k]]
  <1>1. Depth \in Nat /\ L \in Nat /\ path \in Seq(Name \cup {Empty, Noise, Stray})
    BY DepthFacts DEF Spelling
  <1>2. /\ a[0] = b
        /\ \A k \in 0 .. L : a[k] \in {0} \cup NodeTable
        /\ \A k \in 1 .. L : a[k] = IF a[k - 1] = 0 THEN 0 ELSE node[a[k - 1]].parent_block
    BY <1>1, AncestorsStep
  <1>3. PathStep(path_below, node) /\ node \in [NodeTable -> Node]
    BY PathBelowStep DEF NodesTyped
  <1>4. 0 \notin NodeTable
    BY NodeTableFacts, SacAssumption
  <1>5. on_path(b, path) <=>
            /\ \A k \in 1 .. L - 1 : a[k] # 0 /\ node[a[k]].fname = path[L - k]
            /\ a[L] = 0
    BY DEF on_path
  <1>6. at(0) = path_of(b) /\ front(0) = path
    BY <1>1, <1>2, FrontFacts DEF path_of
  <1>7. \A k \in 0 .. L - 1 :
           /\ front(k) \in Seq(Name \cup {Empty, Noise, Stray}) /\ Len(front(k)) = L - k
           /\ front(k)[L - k] = path[L - k]
           /\ IF k = L - 1 THEN front(k) = <<path[1]>>
              ELSE front(k) = Append(front(k + 1), path[L - k])
    <2>. TAKE k \in 0 .. L - 1
    <2>0. L \in Int /\ k \in Int /\ 0 <= k /\ k <= L - 1 /\ Len(path) = L
      BY <1>1
    <2>1. /\ L - k \in 1 .. Len(path) /\ (L - k) - 1 = L - (k + 1)
          /\ L - k = 1 <=> k = L - 1
      BY <2>0, SMTT(60)
    <2>. QED  BY <1>1, <2>1, FrontFacts, SMTT(60)
  <1>8. \A k \in 0 .. L - 1 : a[k] # 0 =>
           /\ at(k) \in Spelling /\ Len(at(k)) \in Nat \ {0}
           /\ IF a[k + 1] = 0 THEN at(k) = <<node[a[k]].fname>>
              ELSE at(k) = Append(at(k + 1), node[a[k]].fname)
    <2>. SUFFICES ASSUME NEW k \in 0 .. L - 1, a[k] # 0
                  PROVE  /\ at(k) \in Spelling /\ Len(at(k)) \in Nat \ {0}
                         /\ IF a[k + 1] = 0 THEN at(k) = <<node[a[k]].fname>>
                            ELSE at(k) = Append(at(k + 1), node[a[k]].fname)
      OBVIOUS
    <2>1. /\ Depth + 1 - k \in 1 .. Depth + 1 /\ (Depth + 1 - k) - 1 = Depth + 1 - (k + 1)
          /\ a[k] \in NodeTable /\ k + 1 \in 1 .. L /\ (k + 1) - 1 = k
      BY <1>1, <1>2
    <2>2. a[k + 1] = node[a[k]].parent_block
      BY <1>2, <2>1
    <2>3. at(k) \in Spelling /\ Len(at(k)) \in Nat \ {0}
      BY <1>3, <2>1, PathIsLong
    <2>4. at(k) = IF node[a[k]].parent_block = 0 THEN <<node[a[k]].fname>>
                  ELSE Append(path_below[(Depth + 1 - k) - 1][node[a[k]].parent_block],
                              node[a[k]].fname)
      BY <1>3, <2>1 DEF PathStep
    <2>. QED  BY <2>1, <2>2, <2>3, <2>4, ZenonT(60)
  <1>. HIDE DEF front, at
  <1>9. ASSUME node[b].fname = path[L], on_path(b, path)
        PROVE  path_of(b) = path
    <2>. DEFINE T == {i \in 0 .. L - 1 : at(L - 1 - i) = front(L - 1 - i)}
    <2>1. \A k \in 0 .. L - 1 : a[k] # 0 /\ node[a[k]].fname = path[L - k]
      <3>. TAKE k \in 0 .. L - 1
      <3>1. CASE k = 0
        BY <1>1, <1>2, <1>4, <1>9, <3>1
      <3>2. CASE k \in 1 .. L - 1
        BY <1>5, <1>9, <3>2
      <3>. QED  BY <3>1, <3>2
    <2>2. 0 \in T
      <3>1. L - 1 - 0 = L - 1 /\ L - 1 \in 0 .. L - 1 /\ (L - 1) + 1 = L /\ L - (L - 1) = 1
        BY <1>1
      <3>2. at(L - 1) = <<node[a[L - 1]].fname>>
        BY <1>5, <1>8, <1>9, <2>1, <3>1
      <3>3. front(L - 1) = <<path[1]>>
        BY <1>7, <3>1
      <3>. QED  BY <2>1, <3>1, <3>2, <3>3
    <2>3. ASSUME NEW i \in 1 .. L - 1, i - 1 \in T
          PROVE  i \in T
      <3>. PICK k : k = L - 1 - i
        OBVIOUS
      <3>1. /\ k \in 0 .. L - 1 /\ k + 1 \in 1 .. L - 1 /\ k # L - 1
            /\ L - 1 - (i - 1) = k + 1 /\ i \in 0 .. L - 1
        BY <1>1
      <3>2. a[k] # 0 /\ a[k + 1] # 0 /\ node[a[k]].fname = path[L - k]
        BY <2>1, <3>1
      <3>3. at(k) = Append(at(k + 1), path[L - k])
        BY <1>8, <3>1, <3>2
      <3>4. front(k) = Append(front(k + 1), path[L - k])
        BY <1>7, <3>1
      <3>5. at(k + 1) = front(k + 1)
        BY <2>3, <3>1
      <3>. QED  BY <3>1, <3>3, <3>4, <3>5
    <2>4. 0 .. L - 1 \subseteq T
      <3>1. L - 1 \in Nat
        BY <1>1
      <3>. HIDE DEF T
      <3>. QED  BY <2>2, <2>3, <3>1, UpTo
    <2>5. at(L - 1 - (L - 1)) = front(L - 1 - (L - 1))
      <3>1. L - 1 \in 0 .. L - 1
        BY <1>1
      <3>. QED  BY <2>4, <3>1
    <2>. QED  BY <1>1, <1>6, <2>5
  <1>10. ASSUME path_of(b) = path
         PROVE  node[b].fname = path[L] /\ on_path(b, path)
    <2>. DEFINE T == {k \in 0 .. L - 1 : a[k] # 0 /\ at(k) = front(k)}
    <2>1. 0 \in T
      BY <1>1, <1>2, <1>4, <1>6, <1>10
    <2>2. ASSUME NEW k \in 0 .. L - 1, a[k] # 0, at(k) = front(k)
          PROVE  /\ node[a[k]].fname = path[L - k]
                 /\ IF k = L - 1 THEN a[k + 1] = 0
                    ELSE a[k + 1] # 0 /\ at(k + 1) = front(k + 1)
      <3>1. /\ front(k) \in Seq(Name \cup {Empty, Noise, Stray}) /\ Len(front(k)) = L - k
            /\ front(k)[L - k] = path[L - k] /\ L - k \in Nat
        BY <1>1, <1>7
      <3>2. CASE a[k + 1] = 0
        <4>1. at(k) = <<node[a[k]].fname>>
          BY <1>8, <2>2, <3>2
        <4>2. L - k = 1
          BY <2>2, <3>1, <4>1
        <4>3. k = L - 1
          BY <1>1, <4>2
        <4>. QED  BY <2>2, <3>1, <3>2, <4>1, <4>2, <4>3
      <3>3. CASE a[k + 1] # 0
        <4>1. at(k) = Append(at(k + 1), node[a[k]].fname)
          BY <1>8, <2>2, <3>3
        <4>2. at(k + 1) \in Spelling /\ Len(at(k + 1)) \in Nat \ {0}
          <5>1. /\ Depth + 1 - (k + 1) \in 1 .. Depth + 1
                /\ k + 1 \in 0 .. L /\ a[k + 1] \in NodeTable
            BY <1>1, <1>2, <3>3
          <5>. QED  BY <1>3, <5>1, PathIsLong DEF at
        <4>. PICK q \in Seq(Name \cup {Empty, Noise, Stray}) : q = at(k + 1)
          BY <4>2 DEF Spelling
        <4>3. /\ Len(Append(q, node[a[k]].fname)) = Len(q) + 1
              /\ Append(q, node[a[k]].fname)[Len(q) + 1] = node[a[k]].fname
              /\ Len(q) \in Nat \ {0}
          BY <4>2
        <4>4. L - k = Len(q) + 1 /\ node[a[k]].fname = path[L - k]
          BY <2>2, <3>1, <4>1, <4>3
        <4>5. k # L - 1 /\ k + 1 \in 0 .. L - 1
          BY <1>1, <4>3, <4>4
        <4>6. Append(q, path[L - k]) = Append(front(k + 1), path[L - k])
          BY <1>7, <2>2, <4>1, <4>4, <4>5
        <4>7. front(k + 1) \in Seq(Name \cup {Empty, Noise, Stray})
          BY <1>7, <4>5
        <4>8. path[L - k] \in Name \cup {Empty, Noise, Stray}
          BY <1>1
        <4>9. q = front(k + 1)
          <5>. PICK S : S = Name \cup {Empty, Noise, Stray}
            OBVIOUS
          <5>. PICK f \in Seq(S), e \in S : f = front(k + 1) /\ e = path[L - k]
            BY <4>7, <4>8
          <5>1. Append(q, e) = Append(f, e)
            BY <4>6
          <5>2. q = f
            BY ONLY q \in Seq(S), <5>1, AppendInjective
          <5>. QED  BY <5>2
        <4>. QED  BY <3>3, <4>4, <4>5, <4>9
      <3>. QED  BY <3>2, <3>3
    <2>3. ASSUME NEW k \in 1 .. L - 1, k - 1 \in T
          PROVE  k \in T
      <3>1. k - 1 \in 0 .. L - 1 /\ k - 1 # L - 1 /\ (k - 1) + 1 = k /\ k \in 0 .. L - 1
        BY <1>1
      <3>2. a[k - 1] # 0 /\ at(k - 1) = front(k - 1)
        BY <2>3
      <3>3. a[(k - 1) + 1] # 0 /\ at((k - 1) + 1) = front((k - 1) + 1)
        BY <2>2, <3>1, <3>2
      <3>. QED  BY <3>1, <3>3
    <2>4. \A k \in 0 .. L - 1 : a[k] # 0 /\ at(k) = front(k)
      <3>1. L - 1 \in Nat
        BY <1>1
      <3>2. 0 .. L - 1 \subseteq T
        <4>. HIDE DEF T
        <4>. QED  BY <2>1, <2>3, <3>1, UpTo
      <3>. QED  BY <3>2
    <2>5. \A k \in 0 .. L - 1 : node[a[k]].fname = path[L - k]
      BY <2>2, <2>4
    <2>6. a[(L - 1) + 1] = 0
      <3>1. L - 1 \in 0 .. L - 1
        BY <1>1
      <3>. QED  BY <2>2, <2>4, <3>1
    <2>7. node[a[0]].fname = path[L - 0]
      BY <1>1, <2>5
    <2>8. on_path(b, path)
      BY <1>1, <1>5, <2>4, <2>5, <2>6
    <2>. QED  BY <1>1, <1>2, <2>7, <2>8
  <1>. QED  BY <1>9, <1>10
-----------------------------------------------------------------------------
(* The search, and the tree of files.                                        *)

\* An answer's path is the path that was searched.
LEMMA SearchIsSpelt ==
  ASSUME NodesTyped, NEW path \in Spelling, Len(path) \in 1 .. Depth, find_node(path) # 0
  PROVE  path_of(find_node(path)) = path
  BY FindNodeIsOnPath, PathIsSpelt

\* The path of a node is its parent's with its own name behind it, when the
\* parent's is not as long as any path may be.
Grows(b) ==
    /\ path_of(b) \in Spelling /\ Len(path_of(b)) \in Nat \ {0}
    /\ node[b].parent_block = 0 => path_of(b) = <<node[b].fname>>
    /\ node[b].parent_block # 0 /\ Len(path_of(node[b].parent_block)) < Depth =>
          path_of(b) = Append(path_of(node[b].parent_block), node[b].fname)

LEMMA PathGrows == NodesTyped => \A b \in NodeTable : Grows(b)
  <1>. SUFFICES ASSUME NodesTyped, NEW b \in NodeTable
                PROVE  Grows(b)
    OBVIOUS
  <1>1. PathStep(path_below, node) /\ node \in [NodeTable -> Node]
    BY PathBelowStep DEF NodesTyped
  <1>2. Depth \in Nat /\ Depth + 1 \in 1 .. Depth + 1 /\ (Depth + 1) - 1 = Depth
    BY DepthFacts
  <1>3. path_of(b) \in Spelling /\ Len(path_of(b)) \in Nat \ {0}
    BY <1>1, <1>2, PathIsLong DEF path_of
  <1>4. path_of(b) = IF node[b].parent_block = 0 THEN <<node[b].fname>>
                     ELSE Append(path_below[Depth][node[b].parent_block], node[b].fname)
    BY <1>1, <1>2 DEF PathStep, path_of
  <1>5. ASSUME node[b].parent_block # 0, Len(path_of(node[b].parent_block)) < Depth
        PROVE  path_of(node[b].parent_block) = path_below[Depth][node[b].parent_block]
    <2>1. node[b].parent_block \in NodeTable
      BY <1>5, ParentType
    <2>2. Depth \in 0 .. Depth /\ Len(path_of(node[b].parent_block)) \in Nat
      BY <1>1, <1>2, <2>1, PathIsLong DEF path_of
    <2>3. Len(path_below[Depth + 1][node[b].parent_block]) <= Depth
      BY <1>2, <1>5, <2>2 DEF path_of
    <2>. QED  BY <1>1, <2>1, <2>2, <2>3, ShortPathsAreWhole DEF path_of
  <1>. QED  BY <1>3, <1>4, <1>5 DEF Grows

LEMMA PathGrowsNext == (NodesTyped => \A b \in NodeTable : Grows(b))'
  BY PathGrows, PTL

\* The names that nodes are stored under.
Stored == Name \cup {Stray}

\* A node of the tree: in the root, or in a directory that is not as deep as
\* any path may be.
Fits(n) ==
    /\ n.fname \in Stored /\ n.state \in {1, 2}
    /\ n.parent_block # 0 =>
          /\ n.parent_block \in Written /\ node[n.parent_block].state = 2
          /\ path_of(n.parent_block) \in Seq(Stored)
          /\ Len(path_of(n.parent_block)) < Depth

\* Until the disk is lost every node is in the tree.
NodesFit ==
    /\ \A b \in Written : Fits(node[b])
    /\ pc = "node" => Fits(file_node)
FilesInv == NodesInv /\ (~Lost => NodesFit)

\* The paths that the requests bound: a node that fits has one of them.
LEMMA FittingPaths ==
  ASSUME NodesTyped, NEW b \in NodeTable, Fits(node[b])
  PROVE  Len(path_of(b)) \in 1 .. Depth
  <1>1. CASE node[b].parent_block = 0
    <2>1. path_of(b) = <<node[b].fname>>
      BY <1>1, PathGrows DEF Grows
    <2>. QED  BY <2>1, DepthFacts
  <1>2. CASE node[b].parent_block # 0
    <2>. PICK q \in Spelling : q = path_of(node[b].parent_block)
      BY <1>2, ParentType, PathGrows DEF Grows
    <2>1. Len(q) < Depth /\ path_of(b) = Append(q, node[b].fname)
      BY <1>2, PathGrows DEF Fits, Grows
    <2>2. Len(Append(q, node[b].fname)) = Len(q) + 1 /\ Len(q) \in Nat
      BY DEF Spelling
    <2>. QED  BY <2>1, <2>2, DepthFacts
  <1>. QED  BY <1>1, <1>2

\* A file is the only match of its own name, and lies on its path.
LEMMA FilesAreFound ==
  ASSUME NodesInv, NodesFit, NEW b \in Written,
         \A c \in Written \ {b} : node[c].fname # node[b].fname
  PROVE  find_node(path_of(b)) = b
  <1>. DEFINE path == path_of(b)
  <1>1. NodesTyped /\ b \in NodeTable /\ node[b].fname \in Stored
    BY DEF NodesInv, TypeOK, NodesTyped, Written, Stored
  <1>2. path \in Spelling /\ Len(path) \in 1 .. Depth
    BY <1>1, PathGrows, FittingPaths DEF NodesFit, Grows
  <1>3. node[b].fname = path[Len(path)] /\ on_path(b, path)
    <2>. HIDE DEF path
    <2>1. path_of(b) = path
      BY DEF path
    <2>. QED  BY <1>1, <1>2, <2>1, PathIsSpelt
  <1>. HIDE DEF path
  <1>4. matches(path) = {b}
    BY <1>1, <1>3 DEF matches, Written, Stored
  <1>5. Max(matches(path)) = b
    <2>1. {b} \in SUBSET (0 .. NodeEnd) /\ NodeEnd \in Nat
      BY <1>1, NodeTableFacts
    <2>2. Max({b}) \in {b}
      BY <2>1, GreatestExists
    <2>. QED  BY <1>4, <2>2
  <1>6. find_node(path) = b
    BY <1>3, <1>4, <1>5 DEF find_node
  <1>. QED  BY <1>6 DEF path

\* Nodes that stay as they are stay where they are in the tree.
LEMMA NodesStay ==
  ASSUME NodesInv, NodesFit, NodesTyped', \A b \in Written : node'[b] = node[b]
  PROVE  /\ Written \subseteq Written'
         /\ \A b \in Written : path_of(b)' = path_of(b)
         /\ \A n : Fits(n) => Fits(n)'
  <1>1. Written \in SUBSET NodeTable /\ Written \subseteq Written'
    BY DEF Written
  <1>2. \A b \in Written : path_of(b)' = path_of(b)
    <2>1. NodesTyped
      BY DEF NodesInv, TypeOK, NodesTyped
    <2>. PICK n, m : n = node /\ m = node'
      OBVIOUS
    <2>. PICK p, q : p = path_below /\ q = path_below'
      OBVIOUS
    <2>2. /\ n \in [NodeTable -> Node] /\ PathStep(p, n)
          /\ m \in [NodeTable -> Node] /\ PathStep(q, m)
      BY <2>1, PathBelowStep, PathBelowStepNext DEF NodesTyped
    <2>. PICK W \in SUBSET NodeTable : W = Written
      BY <1>1
    <2>3. \A b \in W : /\ n[b].parent_block \in {0} \cup W
                       /\ m[b].parent_block = n[b].parent_block
                       /\ m[b].fname = n[b].fname
      BY DEF NodesFit, Fits
    <2>4. \A b \in W : q[Depth + 1][b] = p[Depth + 1][b]
      BY <2>2, <2>3, PathsAreKept
    <2>. QED  BY <2>4 DEF path_of
  <1>3. ASSUME NEW n, Fits(n)
        PROVE  Fits(n)'
    <2>1. ASSUME n.parent_block # 0
          PROVE  /\ n.parent_block \in Written' /\ node'[n.parent_block].state = 2
                 /\ path_of(n.parent_block)' \in Seq(Stored)
                 /\ Len(path_of(n.parent_block)') < Depth
      <3>1. PICK d \in Written : d = n.parent_block
        BY <1>3, <2>1 DEF Fits
      <3>. QED  BY <1>1, <1>2, <1>3, <2>1, <3>1 DEF Fits
    <2>. QED  BY <1>3, <2>1 DEF Fits
  <1>. QED  BY <1>1, <1>2, <1>3

\* The tree that the node table stands for.
Tree == {[path |-> path_of(b), kind |-> node[b].state] : b \in Written}

\* So does the whole tree, when no node is added.
LEMMA TreeStays ==
  ASSUME NodesInv, NodesFit, NodesTyped', Written' = Written, \A b \in Written : node'[b] = node[b]
  PROVE  /\ Tree' = Tree
         /\ \A b \in Written' : Fits(node[b])'
         /\ \A n : Fits(n) => Fits(n)'
  <1>1. /\ \A b \in Written : path_of(b)' = path_of(b)
        /\ \A n : Fits(n) => Fits(n)'
    BY NodesStay
  <1>2. Tree' = Tree
    BY <1>1 DEF Tree
  <1>3. \A b \in Written' : Fits(node[b])'
    <2>. TAKE b \in Written'
    <2>. PICK n : n = node[b]
      OBVIOUS
    <2>1. Fits(n)' /\ n = node'[b]
      BY <1>1 DEF NodesFit
    <2>. QED  BY <2>1 DEF Fits
  <1>. QED  BY <1>1, <1>2, <1>3

\* A node that fits, written where none was, is one step of the tree.
LEMMA NodeIsAdded ==
  ASSUME NodesInv, NodesFit, NodesTyped', ~Lost, ~Lost', NEW n, Fits(n),
         NEW b \in NodeTable \ Written, node' = [node EXCEPT ![b] = n]
  PROVE  /\ Written' = Written \cup {b}
         /\ \A c \in Written' : Fits(node[c])'
         /\ Files!Next
  <1>1. /\ \A c \in NodeTable \ {b} : node'[c] = node[c]
        /\ node'[b] = n
    BY DEF NodesInv, TypeOK
  <1>2. Written' = Written \cup {b} /\ b \in Written'
    BY <1>1 DEF Written, Fits, Stored
  <1>3. /\ \A c \in Written : path_of(c)' = path_of(c) /\ node'[c] = node[c]
        /\ Written \in SUBSET NodeTable /\ b \notin Written
        /\ \A m : Fits(m) => Fits(m)'
    <2>1. \A c \in Written : node'[c] = node[c] /\ c \in NodeTable
      BY <1>1 DEF Written
    <2>. QED  BY <2>1, NodesStay
  <1>4. \A c \in Written' : Fits(node[c])'
    <2>. TAKE c \in Written'
    <2>. PICK m : m = node'[c]
      OBVIOUS
    <2>1. Fits(m)
      <3>1. CASE c = b
        BY <1>1, <3>1
      <3>2. CASE c \in Written
        BY <1>3, <3>2 DEF NodesFit
      <3>. QED  BY <1>2, <3>1, <3>2
    <2>2. Fits(m)'
      BY <1>3, <2>1
    <2>. QED  BY <2>2 DEF Fits
  <1>. PICK path : path = path_of(b)'
    OBVIOUS
  <1>5. ASSUME n.parent_block = 0
        PROVE  path = <<n.fname>> /\ Len(path) = 1
    <2>1. Grows(b)'
      BY PathGrowsNext
    <2>. QED  BY <1>1, <1>5, <2>1 DEF Grows
  <1>6. ASSUME n.parent_block # 0
        PROVE  \E d \in Written, q \in Seq(Stored) :
                  /\ q = path_of(d) /\ node[d].state = 2 /\ Len(q) < Depth
                  /\ path = Append(q, n.fname)
    <2>1. /\ n.parent_block \in Written /\ node[n.parent_block].state = 2
          /\ path_of(n.parent_block) \in Seq(Stored)
          /\ Len(path_of(n.parent_block)) < Depth
      BY <1>6 DEF Fits
    <2>. PICK d, q : d = n.parent_block /\ q = path_of(n.parent_block)
      OBVIOUS
    <2>2. path_of(d) = path_of(n.parent_block) /\ path_of(d)' = path_of(n.parent_block)'
      OBVIOUS
    <2>3. path_of(n.parent_block)' = q /\ d \in Written
      BY <1>3, <2>1, <2>2
    <2>4. Grows(b)'
      BY PathGrowsNext
    <2>5. path = Append(q, n.fname)
      BY <1>1, <1>6, <2>1, <2>3, <2>4 DEF Grows
    <2>. QED  BY <2>1, <2>2, <2>5
  <1>7. /\ path \in Seq(Stored) /\ Len(path) \in 1 .. Depth
        /\ Len(path) > 1 => [path |-> SubSeq(path, 1, Len(path) - 1), kind |-> 2] \in Tree
    <2>1. Depth \in Nat \ {0} /\ n.fname \in Stored
      BY DepthFacts DEF Fits
    <2>2. CASE n.parent_block = 0
      <3>. PICK name \in Stored : name = n.fname
        BY <2>1
      <3>1. path = <<name>> /\ <<name>> \in Seq(Stored)
        BY <1>5, <2>2
      <3>. QED  BY <1>5, <2>1, <2>2, <3>1
    <2>3. CASE n.parent_block # 0
      <3>. PICK d \in Written, q \in Seq(Stored) :
                  /\ q = path_of(d) /\ node[d].state = 2 /\ Len(q) < Depth
                  /\ path = Append(q, n.fname)
        BY <1>6, <2>3
      <3>1. /\ path \in Seq(Stored) /\ Len(path) = Len(q) + 1 /\ Len(q) \in Nat
            /\ \A i \in 1 .. Len(q) : path[i] = q[i]
        BY <2>1
      <3>. PICK f : f = SubSeq(path, 1, Len(q))
        OBVIOUS
      <3>2. f \in Seq(Stored) /\ Len(f) = Len(q) /\ \A i \in 1 .. Len(q) : f[i] = q[i]
        BY <3>1
      <3>3. f = q
        BY <3>2, SeqEqual
      <3>4. [path |-> q, kind |-> 2] \in Tree
        BY DEF Tree
      <3>. QED  BY <2>1, <3>1, <3>3, <3>4
    <2>. QED  BY <2>2, <2>3
  <1>8. Tree' = Tree \cup {[path |-> path, kind |-> n.state]}
    <2>1. Tree' = {[path |-> path_of(c)', kind |-> node'[c].state] : c \in Written \cup {b}}
      BY <1>2 DEF Tree
    <2>. QED  BY <1>1, <1>3, <2>1 DEF Tree
  <1>9. path \in UNION {[1 .. k -> Stored] : k \in 1 .. Depth}
    <2>1. path \in [1 .. Len(path) -> Stored] /\ Len(path) \in 1 .. Depth
      BY <1>7
    <2>. QED  BY <2>1
  <1>10. n.state \in {1, 2}
    BY DEF Fits
  <1>11. Files!Next
    <2>. PICK k \in {1, 2} : k = n.state
      BY <1>10
    <2>1. path \in Files!Paths
      BY <1>9 DEF Files!Paths, Stored
    <2>2. Files!Make(path, k)
      <3>1. Lost' = FALSE
        BY DEF Lost
      <3>. QED  BY <1>7, <1>8, <3>1
                DEF Files!Make, Files!Parent, Tree
    <2>. QED  BY <2>1, <2>2 DEF Files!Next
  <1>. QED  BY <1>2, <1>4, <1>11

\* Steps that leave the node table alone, and write no node next.
LEMMA TableStays ==
  ASSUME NodesInv, NodesFit, NodesInv', node' = node, pc' # "node"
  PROVE  NodesFit' /\ Tree' = Tree
  <1>1. NodesTyped' /\ Written' = Written /\ \A b \in Written : node'[b] = node[b]
    BY DEF NodesInv, TypeOK, NodesTyped, Written
  <1>2. Tree' = Tree /\ \A b \in Written' : Fits(node[b])'
    BY <1>1, TreeStays
  <1>. QED  BY <1>2 DEF NodesFit

\* mknod and mkdir up to their first write: the directory is in the tree where
\* the path says.
LEMMA CreateKeepsFiles ==
  ASSUME NodesInv, NodesFit, NodesInv', NEW path \in Path, NEW kind \in {1, 2},
         Create(path, kind)
  PROVE  NodesFit' /\ Tree' = Tree
  <1>1. /\ pc = "ready" /\ pc' = "node" /\ node' = node
        /\ in_root(path) \/ is_directory(find_directory(path))
    BY DEF Create
  <1>2. PICK name \in copies(path[Len(path)]) :
          file_node' = [state |-> kind, fname |-> name,
                        parent_block |-> find_directory(path), child |-> 0]
    BY DEF Create
  <1>3. /\ NodesTyped /\ NodesTyped' /\ Written' = Written
        /\ \A b \in Written : node'[b] = node[b]
    BY <1>1 DEF NodesInv, TypeOK, NodesTyped, Written
  <1>4. /\ Tree' = Tree /\ \A b \in Written' : Fits(node[b])'
        /\ \A n : Fits(n) => Fits(n)'
    BY <1>3, TreeStays
  <1>6. /\ path \in Seq(Name) /\ Len(path) \in Nat \ {0} /\ Len(path) <= Depth
        /\ path[Len(path)] \in Name
    BY PathFacts, DepthFacts
  <1>. PICK n : n = file_node'
    OBVIOUS
  <1>7. Fits(n)
    <2>0. name \in Stored
      BY <1>2, <1>6, CopiesType DEF Stored
    <2>1. CASE in_root(path)
      BY <1>2, <2>0, <2>1 DEF Fits, find_directory
    <2>2. CASE ~ in_root(path)
      <3>. PICK front : front = SubSeq(path, 1, Len(path) - 1)
        OBVIOUS
      <3>1. Len(path) - 1 \in 1 .. Depth /\ Len(path) - 1 \in 1 .. Len(path)
        <4>. PICK len \in Nat \ {0} : len = Len(path)
          BY <1>6
        <4>1. len # 1 /\ len <= Depth /\ Depth \in Nat
          BY <1>6, <2>2, DepthFacts DEF in_root
        <4>2. len - 1 \in 1 .. Depth /\ len - 1 \in 1 .. len
          BY <4>1
        <4>. QED  BY <4>2
      <3>2. front \in Seq(Name) /\ Len(front) = Len(path) - 1
        BY <1>6, <3>1, FrontFacts
      <3>3. front \in Spelling /\ front \in Seq(Stored)
        BY <3>2 DEF Spelling, Stored
      <3>4. find_node(front) # 0 /\ node[find_node(front)].state = 2
        BY <1>1, <2>2 DEF is_directory, find_directory
      <3>5. path_of(find_node(front)) = front
        BY <1>3, <3>1, <3>2, <3>3, <3>4, SearchIsSpelt
      <3>6. find_node(front) \in Written
        <4>1. front[Len(front)] \in Name
          BY <3>1, <3>2
        <4>. QED  BY <3>4, <4>1, FindNodeIsOnPath DEF Written
      <3>7. n.parent_block = find_node(front)
        BY <1>2, <2>2 DEF find_directory
      <3>8. Len(front) < Depth
        BY <1>6, <3>2, DepthFacts
      <3>. QED  BY <1>2, <2>0, <3>3, <3>4, <3>5, <3>6, <3>7, <3>8 DEF Fits
    <2>. QED  BY <2>1, <2>2
  <1>8. Fits(file_node)'
    BY <1>4, <1>7 DEF Fits
  <1>. QED  BY <1>4, <1>8 DEF NodesFit

\* The new node is one step of the tree.
LEMMA WriteNodeKeepsFiles ==
  ASSUME NodesInv, NodesFit, NodesInv', ~Lost, ~Lost', WriteNode
  PROVE  NodesFit' /\ Files!Next
  <1>. PICK n, b : n = file_node /\ b = free_block
    OBVIOUS
  <1>1. pc = "node" /\ pc' = "directory" /\ b \in NodeTable
        /\ node' = [node EXCEPT ![b] = n]
    BY DEF WriteNode, Lost
  <1>2. NodesTyped' /\ Fits(n) /\ b \in NodeTable \ Written
    BY <1>1 DEF NodesInv, TypeOK, NodesTyped, NodesFit, WrittenIsKnown, Lost
  <1>3. Files!Next /\ \A c \in Written' : Fits(node[c])'
    BY <1>1, <1>2, NodeIsAdded
  <1>. QED  BY <1>1, <1>3 DEF NodesFit

\* The formatting makes the root's node in an empty tree.
LEMMA FormatRootKeepsFiles ==
  ASSUME NodesInv, NodesFit, NodesInv', ~Lost, ~Lost', FormatRoot
  PROVE  NodesFit' /\ Files!Next
  <1>. PICK name \in copies("root") :
          node' = [node EXCEPT ![NodeStart] =
                     [state |-> 2, fname |-> name, parent_block |-> 0, child |-> 0]]
    BY DEF FormatRoot
  <1>. PICK n : n = [state |-> 2, fname |-> name, parent_block |-> 0, child |-> 0]
    OBVIOUS
  <1>1. pc = "root" /\ pc' = "ready" /\ node' = [node EXCEPT ![NodeStart] = n]
    BY DEF FormatRoot
  <1>2. NodeStart \in NodeTable \ Written
    BY <1>1, NodeTableFacts DEF NodesInv, WrittenIsKnown, Lost
  <1>3. NodesTyped' /\ Fits(n)
    BY NoNameYet, CopiesType DEF NodesInv, TypeOK, NodesTyped, Fits, Stored
  <1>4. Files!Next /\ \A c \in Written' : Fits(node[c])'
    BY <1>1, <1>2, <1>3, NodeIsAdded
  <1>. QED  BY <1>1, <1>4 DEF NodesFit

\* The directory's entry goes to a block that holds no file, from one that
\* holds none.
LEMMA WriteDirectoryKeepsFiles ==
  ASSUME NodesInv, NodesFit, NodesInv', ~Lost, WriteDirectory
  PROVE  NodesFit' /\ Tree' = Tree
  <1>. PICK at : at = free_block + 1
    OBVIOUS
  <1>. PICK entry : entry = [node[at] EXCEPT !.child = free_block]
    OBVIOUS
  <1>1. pc = "directory" /\ free_block \in NodeTable \ {NodeStart} /\ free_block # -1
    <2>1. pc = "directory"
      BY DEF WriteDirectory
    <2>2. free_block # -1
      BY <2>1 DEF NodesInv, RootIsStored, Lost
    <2>. QED  BY <2>1, <2>2 DEF NodesInv, TakenInOrder, Creating
  <1>2. at \in 4 .. NodeEnd + 1 /\ at # 1
    BY <1>1, NodeTableFacts, SacAssumption, SMTT(60)
  <1>3. /\ pc' \in {"down", "ready"}
        /\ \/ node' = node
           \/ at + 1 \in NodeTable /\ node' = [node EXCEPT ![at + 1] = entry]
    BY <1>1, <1>2 DEF WriteDirectory, directory_written_to, directory_read
  <1>5. NodesTyped' /\ Written' = Written /\ \A b \in Written : node'[b] = node[b]
    <2>0. node \in [NodeTable -> Node] /\ NodesTyped' /\ Written \subseteq bitmap
      BY DEF NodesInv, TypeOK, NodesTyped, WrittenIsKnown, Lost
    <2>1. CASE node' = node
      BY <2>0, <2>1 DEF Written
    <2>2. CASE at + 1 \in NodeTable /\ node' = [node EXCEPT ![at + 1] = entry]
      <3>1. at \in NodeTable /\ node[at] \in Node
        <4>1. at \in NodeTable
          BY <1>2, <2>2, NodeTableFacts, SacAssumption
        <4>. QED  BY <2>0, <4>1
      <3>2. at \notin bitmap /\ at + 1 \notin bitmap
        <4>1. \A b \in bitmap \cap NodeTable, c \in NodeTable : c <= b => c \in bitmap
          BY DEF NodesInv, TakenInOrder
        <4>2. at \notin bitmap
          BY <1>1, <3>1 DEF NodesInv, TakenInOrder, Creating
        <4>. QED  BY <1>2, <2>2, <3>1, <4>1, <4>2
      <3>3. at \notin Written /\ at + 1 \notin Written
        BY <2>0, <3>2
      <3>4. entry.fname = node[at].fname
        BY <3>1 DEF Node
      <3>5. /\ node'[at + 1].fname \notin Name \cup {Stray}
            /\ \A b \in NodeTable \ {at + 1} : node'[b] = node[b]
        BY <2>0, <2>2, <3>1, <3>3, <3>4 DEF Written
      <3>. QED  BY <2>0, <2>2, <3>3, <3>5 DEF Written
    <2>. QED  BY <1>3, <2>1, <2>2
  <1>6. Tree' = Tree /\ \A b \in Written' : Fits(node[b])'
    BY <1>5, TreeStays
  <1>. QED  BY <1>3, <1>6 DEF NodesFit

\* A disk that is lost stays so: no step takes back what it wrote.
LEMMA LostForGood == TypeOK /\ [Next]_vars /\ Lost => Lost'
  <1>. SUFFICES ASSUME [Next]_vars, Lost
                PROVE  Lost'
    OBVIOUS
  <1>1. (reformatted => reformatted') /\ spoilt \subseteq spoilt'
    <2>1. CASE WriteNode \/ WriteDirectory
      BY <2>1 DEF WriteNode, WriteDirectory
    <2>2. CASE format_bitmap_nodetable
      BY <2>2 DEF format_bitmap_nodetable
    <2>3. CASE Start \/ FormatMark \/ FormatRoot \/ Kill \/ \E path \in Path : Request(path)
      <3>1. reformatted' = reformatted /\ spoilt' = spoilt
        <4>1. CASE Start \/ FormatMark \/ FormatRoot \/ Kill
          BY <4>1 DEF Start, FormatMark, FormatRoot, Kill, diskVars
        <4>2. CASE \E path \in Path, kind \in {1, 2} : Create(path, kind)
          BY <4>2 DEF Create
        <4>3. CASE \E path \in Path :
                     action_open(path) \/ action_opendir(path) \/ action_readdir(path)
          BY <4>3 DEF action_open, action_opendir, action_readdir, diskVars
        <4>. QED  BY <2>3, <4>1, <4>2, <4>3 DEF Request, action_mknod, action_mkdir
      <3>. QED  BY <3>1
    <2>4. CASE UNCHANGED vars
      BY <2>4 DEF vars, diskVars
    <2>. QED  BY <2>1, <2>2, <2>3, <2>4 DEF Next
  <1>. QED  BY <1>1 DEF Lost

\* Every step keeps the invariant, and is a step of the tree or none.
LEMMA FilesStep ==
  ASSUME FilesInv, [Next]_vars
  PROVE  FilesInv' /\ (Files!Next \/ (Tree' = Tree /\ Lost' = Lost))
  <1>1. NodesInv /\ NodesInv'
    BY NextKeeps DEF FilesInv
  <1>2. CASE Lost'
    <2>1. Files!Next
      BY <1>2 DEF Files!Next, Files!Lose, Lost
    <2>. QED  BY <1>1, <1>2, <2>1 DEF FilesInv
  <1>3. CASE ~Lost'
    <2>1. ~Lost /\ NodesFit
      BY <1>1, <1>3, LostForGood DEF FilesInv, NodesInv
    <2>2. NodesFit' /\ (Files!Next \/ Tree' = Tree)
      <3>1. CASE FormatRoot
        BY <1>1, <1>3, <2>1, <3>1, FormatRootKeepsFiles
      <3>2. CASE \E path \in Path : action_mknod(path) \/ action_mkdir(path)
        BY <1>1, <2>1, <3>2, CreateKeepsFiles DEF action_mknod, action_mkdir
      <3>3. CASE WriteNode
        BY <1>1, <1>3, <2>1, <3>3, WriteNodeKeepsFiles
      <3>4. CASE WriteDirectory
        BY <1>1, <2>1, <3>4, WriteDirectoryKeepsFiles
      <3>5. CASE UNCHANGED vars
        <4>1. /\ NodesTyped' /\ Written' = Written /\ \A b \in Written : node'[b] = node[b]
              /\ UNCHANGED <<pc, file_node>>
          BY <1>1, <3>5 DEF vars, diskVars, NodesInv, TypeOK, NodesTyped, Written
        <4>2. /\ Tree' = Tree /\ \A b \in Written' : Fits(node[b])'
              /\ \A n : Fits(n) => Fits(n)'
          BY <1>1, <2>1, <4>1, TreeStays
        <4>3. pc = "node" => Fits(file_node)'
          <5>. PICK n : n = file_node
            OBVIOUS
          <5>1. pc = "node" => Fits(n)'
            BY <2>1, <4>2 DEF NodesFit
          <5>. QED  BY <4>1, <5>1 DEF Fits
        <4>. QED  BY <4>1, <4>2, <4>3 DEF NodesFit
      <3>6. CASE Start \/ format_bitmap_nodetable \/ FormatMark \/ Kill
        BY <1>1, <2>1, <3>6, TableStays
           DEF Start, format_bitmap_nodetable, FormatMark, Kill, diskVars
      <3>7. CASE \E path \in Path :
                   action_open(path) \/ action_opendir(path) \/ action_readdir(path)
        <4>1. node' = node /\ pc' # "node"
          BY <3>7 DEF action_open, action_opendir, action_readdir, diskVars
        <4>. QED  BY <1>1, <2>1, <4>1, TableStays
      <3>. QED  BY <3>1, <3>2, <3>3, <3>4, <3>5, <3>6, <3>7 DEF Next, Request
    <2>3. Lost' = Lost
      BY <1>3, <2>1 DEF Lost
    <2>. QED  BY <1>1, <2>2, <2>3 DEF FilesInv
  <1>. QED  BY <1>2, <1>3

\* On a fresh disk the tree is empty.
LEMMA InitHasFiles == Init => FilesInv /\ Tree = {} /\ Lost = FALSE
  <1>. SUFFICES ASSUME Init
                PROVE  FilesInv /\ Tree = {} /\ Lost = FALSE
    OBVIOUS
  <1>1. \A b \in NodeTable : node[b].fname \notin Name \cup {Stray}
    BY NoNameYet DEF Init
  <1>2. Written = {}
    BY <1>1 DEF Written
  <1>. QED  BY <1>2, InitHasNodesInv DEF Init, FilesInv, NodesFit, Tree, Lost

\* The invariant holds in every reachable state.
LEMMA FilesHold == Spec => []FilesInv
  <1>1. FilesInv /\ [Next]_vars => FilesInv'
    BY FilesStep
  <1>2. Init => FilesInv
    BY InitHasFiles
  <1>. QED  BY <1>1, <1>2, PTL DEF Spec

\* For every set of paths and size of the table, whatever names are stored as
\* and whatever is cut short: the search never answers with another path's node.
THEOREM SearchHolds == Spec => []SearchIsSound
  <1>1. NodesInv => SearchIsSound
    <2>. SUFFICES ASSUME NodesInv, NEW path \in Path, find_node(path) # 0
                  PROVE  path_of(find_node(path)) = path
      BY DEF SearchIsSound
    <2>1. NodesTyped
      BY DEF NodesInv, TypeOK, NodesTyped
    <2>2. path \in Spelling /\ Len(path) \in 1 .. Depth
      BY PathFacts, DepthFacts DEF Spelling
    <2>. QED  BY <2>1, <2>2, SearchIsSpelt
  <1>. QED  BY <1>1, NodesHold, PTL

\* Until the disk is lost, a file whose stored name no other node has is found
\* by its path, over every crash and restart.
THEOREM UniqueNamesHold == Spec => []UniqueNamesAreFound
  <1>1. FilesInv => UniqueNamesAreFound
    BY FilesAreFound DEF FilesInv, UniqueNamesAreFound
  <1>. QED  BY <1>1, FilesHold, PTL

\* The node table is a tree of files that only grows until the disk is lost:
\* every write of every request, and every crash and restart, is a step of
\* FileTree or none, under whatever names the files are stored.
THEOREM FilesGrow == Spec => FilesSpec
  <1>1. Init => Files!Init
    BY InitHasFiles DEF Files!Init, Tree
  <1>2. FilesInv /\ [Next]_vars =>
          [Files!Next]_<<{[path |-> path_of(b), kind |-> node[b].state] : b \in Written}, Lost>>
    BY FilesStep DEF Tree
  <1>. QED  BY <1>1, <1>2, FilesHold, PTL DEF Spec, FilesSpec, Files!Spec
-----------------------------------------------------------------------------
(* The disks that SacNodes is about. *)

\* On a disk of any size the data blocks end with the disk, but the bitmap
\* keeps to the blocks before the node table only when it fills them, and has
\* a bit for each block only when the blocks are a multiple of eight.
THEOREM LayoutFits ==
  ASSUME NEW size \in Nat
  PROVE  /\ data_blocks_end(size) = disk_blocks(size) - 1
         /\ bitmap_size_bytes(size) <= BLOCK_SIZE * (node_table_start(size) - 1)
                <=> bitmap_size_bytes(size) % BLOCK_SIZE = 0
         /\ data_blocks_end(size) < 8 * bitmap_size_bytes(size)
                <=> disk_blocks(size) % 8 = 0
  <1>1. disk_blocks(size) \in Nat /\ bitmap_size_bytes(size) \in Nat
    BY DEF disk_blocks, bitmap_size_bytes, BLOCK_SIZE
  <1>2. \A n \in Nat : n <= 4096 * (n \div 4096) <=> n % 4096 = 0
    OBVIOUS
  <1>3. \A n \in Nat : n - 1 < 8 * (n \div 8) <=> n % 8 = 0
    OBVIOUS
  <1>4. data_blocks_end(size) = disk_blocks(size) - 1
    BY <1>1 DEF data_blocks_end, data_blocks_start, node_table_end, node_table_start,
                bitmap_size_blocks, BLOCK_SIZE
  <1>. QED
    BY <1>1, <1>2, <1>3, <1>4
    DEF node_table_start, bitmap_size_blocks, bitmap_size_bytes, BLOCK_SIZE

\* The node table starts where SacNodes has it, with a bitmap of one block
\* before it that does not run into it, on a disk of 128 MiB and at most seven
\* blocks and a part of one more, and on no other.
THEOREM DiskIsModelled ==
  ASSUME NEW size \in Nat
  PROVE  /\ node_table_start(size) = NodeStart
         /\ bitmap_size_bytes(size) <= BLOCK_SIZE * (node_table_start(size) - 1)
         <=> 134217728 <= size /\ size < 134217728 + 8 * BLOCK_SIZE
  <1>1. bitmap_size_bytes(size) = size \div 32768
    BY SMTT(60) DEF bitmap_size_bytes, disk_blocks, BLOCK_SIZE
  <1>2. /\ node_table_start(size) = NodeStart
        /\ bitmap_size_bytes(size) <= BLOCK_SIZE * (node_table_start(size) - 1)
        <=> bitmap_size_bytes(size) = 4096
    BY <1>1, SMTT(60) DEF node_table_start, bitmap_size_blocks, BLOCK_SIZE, NodeStart
  <1>3. size \div 32768 = 4096 <=> 134217728 <= size /\ size < 134217728 + 32768
    <2>1. \A q, r \in Nat : r < 32768 =>
              (q = 4096 <=> /\ 134217728 <= 32768 * q + r
                            /\ 32768 * q + r < 134217728 + 32768)
      BY SMTT(60)
    <2>2. /\ size \div 32768 \in Nat /\ size % 32768 \in 0 .. 32767
          /\ size = (32768 * (size \div 32768)) + (size % 32768)
      OBVIOUS
    <2>. QED  BY <2>1, <2>2, SMTT(60)
  <1>. QED  BY <1>1, <1>2, <1>3 DEF BLOCK_SIZE
=============================================================================

