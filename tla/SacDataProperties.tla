-------------------------- MODULE SacDataProperties --------------------------
(* What is checked of the data blocks of the SAC server.                     *)
EXTENDS SacData

Blocks(list) == {list[i] : i \in DOMAIN list} \ {NoBlock}

\* Type invariant: the disk and the locals of a write.
Locals ==
    [file : File \cup {None}, blocks : Seq(DataBlock \cup {NoBlock}),
     last : Nat, needed : Nat, size : Nat, position : Nat,
     offset_d : 0 .. BlockSize - 1, text : Nat,
     left : Int, temporal : Int, amount : Nat]

TypeOK ==
    /\ bitmap \in SUBSET DataBlock
    /\ node \in [File -> [filesize : Nat, blocks : Seq(DataBlock \cup {NoBlock})]]
    /\ writer \in [DataBlock -> File \cup {None}]
    /\ astray \in BOOLEAN
    /\ opened \in SUBSET File
    /\ pc \in {"down", "ready", "write", "wrecked"}
    /\ req \in Locals

\* Safety: at every write of every request, and after every kill, no data
\* block is listed twice, in one file or in two, and a listed block has its
\* bit set, so that no later request takes it for free; although a request
\* finds its blocks one by one on the disk and lists them in the node last.
BlocksHaveOneOwner ==
    /\ \A f \in File : Blocks(node[f].blocks) \subseteq bitmap
    /\ \A f \in File : \A i, j \in DOMAIN node[f].blocks :
          node[f].blocks[i] = node[f].blocks[j] /\ node[f].blocks[i] # NoBlock
              => i = j
    /\ \A f, g \in File :
          f # g => Blocks(node[f].blocks) \cap Blocks(node[g].blocks) = {}

\* Safety: a file never lists more blocks than its size fills.
ListFitsTheSize ==
    \A f \in File : Len(node[f].blocks) <= blocks_count(node[f].filesize)

\* Safety: text goes to the header, the bitmap, the nodes or a block number
\* nobody wrote only once a file lists less blocks than its size fills (the
\* loop that adds blocks keeps one of them) or the disk has filled up.
BlocksMissing ==
    \/ \E f \in File : Len(node[f].blocks) < blocks_count(node[f].filesize)
    \/ DataBlock \subseteq bitmap
MisdirectedOnlyAfterLoss == astray \/ pc = "wrecked" => BlocksMissing

\* Action property: a write whose text ends before its block does, that claims
\* no more than the rest of the block, and whose block number is in the list of
\* its file or the zero that ends it, leaves the data of the other files alone.
\* A number from behind that zero may be another file's block, and its data is
\* written over; MisdirectedOnlyAfterLoss says when there is such a number.
OthersDataIsSafe ==
    [][\A f \in File \ {req.file}, b \in DataBlock :
          b \in Blocks(node[f].blocks) /\ writer'[b] # writer[b]
              => \/ req.text >= BlockSize - req.offset_d
                 \/ req.amount + req.left > BlockSize - req.offset_d
                 \/ req.position > Len(req.blocks)]_vars

\* Liveness: the two loops of action_write end, whatever offset, size and text
\* they are given: the request is answered or the server is gone.
WriteEnds == pc = "write" ~> pc # "write"
-----------------------------------------------------------------------------
(* What a comment of the code says of it, and it does not do. *)

\* sac_servidor.c:724, "le voy a agregar la cantidad de bloques que le hagan
\* falta al archivo": a file lists as many blocks as its size fills.
NeededBlocksAreAdded ==
    \A f \in File : Len(node[f].blocks) = blocks_count(node[f].filesize)
=============================================================================
