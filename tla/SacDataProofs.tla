---------------------------- MODULE SacDataProofs ----------------------------
(* For every set of files, size of a block and size of the disk: no data      *)
(* block has two owners, and text goes astray only once a block was lost.    *)
EXTENDS SacDataProperties, SequenceTheorems, IntervalLemmas, TLAPS

Entry == DataBlock \cup {NoBlock}
Listed(list) == {list[i] : i \in DOMAIN list}

\* A block that a write found: nobody lists it, and it is not free.
IsFresh(b) ==
    b = NoBlock \/ (b \in bitmap /\ \A f \in File : b \notin Blocks(node[f].blocks))

\* The blocks by which a write makes its file grow.
Grown == blocks_count(req.size) - blocks_count(node[req.file].filesize)

\* The locals of a write are its file's list, with one fresh block at most
\* behind it once a block was found; the place it writes to is not beyond the
\* end of what the file had.
ListIsKnown ==
    LET old == node[req.file].blocks IN
    \/ req.blocks = old /\ req.needed = Grown
    \/ \E b \in Entry :
          IsFresh(b) /\ req.blocks = Append(old, b) /\ req.needed < Grown
PlaceIsKnown ==
    /\ req.position < blocks_count(req.size)
    /\ req.position <= node[req.file].filesize \div BlockSize
LeftIsKnown ==
    /\ req.left > 0 => req.temporal > 0
    /\ \/ req.amount = 0 /\ req.temporal = BlockSize - req.offset_d
       \/ req.amount >= BlockSize - req.offset_d
WriteIsKnown ==
    pc = "write" =>
        /\ req.file \in File
        /\ req.last = Len(node[req.file].blocks)
        /\ req.size >= node[req.file].filesize
        /\ ListIsKnown /\ PlaceIsKnown /\ LeftIsKnown

\* Only a full disk gives a list the answer of a search that found nothing.
FullWhenNoBlock ==
    (\E f \in File : NoBlock \in Listed(node[f].blocks)) \/ NoBlock \in Listed(req.blocks)
        => DataBlock \subseteq bitmap

DataInv ==
    /\ TypeOK /\ BlocksHaveOneOwner /\ ListFitsTheSize
    /\ MisdirectedOnlyAfterLoss /\ FullWhenNoBlock /\ WriteIsKnown
-----------------------------------------------------------------------------

\* Division, with the block's size for every divisor.
LEMMA DivMod ==
  ASSUME NEW n \in Nat, NEW d \in Nat \ {0}
  PROVE  /\ n \div d \in Nat
         /\ n % d \in 0 .. d - 1
         /\ n = d * (n \div d) + (n % d)
  OBVIOUS

LEMMA ProductGrows ==
  ASSUME NEW d \in Nat, NEW p \in Nat, NEW q \in Nat, p <= q
  PROVE  d * p <= d * q
  OBVIOUS

LEMMA DivGrows ==
  ASSUME NEW m \in Nat, NEW n \in Nat, m <= n, NEW d \in Nat \ {0}
  PROVE  m \div d <= n \div d
  <1>. DEFINE qm == m \div d
              qn == n \div d
              rm == m % d
              rn == n % d
  <1>1. /\ qm \in Nat /\ rm \in 0 .. d - 1 /\ m = d * qm + rm
        /\ qn \in Nat /\ rn \in 0 .. d - 1 /\ n = d * qn + rn
    BY DivMod
  <1>. HIDE DEF qm, qn, rm, rn
  <1>2. ASSUME qn + 1 <= qm
        PROVE  FALSE
    <2>1. d * (qn + 1) <= d * qm
      BY <1>1, <1>2, ProductGrows
    <2>2. d * (qn + 1) = d * qn + d
      BY <1>1
    <2>. QED  BY <2>1, <2>2, <1>1
  <1>3. qm <= qn
    BY <1>1, <1>2
  <1>. QED  BY <1>3 DEF qm, qn

\* Adding less than a block to the start of a block stays in it.
LEMMA DivOfBlock ==
  ASSUME NEW d \in Nat \ {0}, NEW b \in Nat, NEW k \in 0 .. d - 1
  PROVE  (b * d + k) \div d = b
  <1>. DEFINE n == b * d + k
              q == n \div d
              r == n % d
  <1>1. n \in Nat
    OBVIOUS
  <1>2. q \in Nat /\ r \in 0 .. d - 1 /\ n = d * q + r
    BY <1>1, DivMod
  <1>3. d * b + k = d * q + r
    BY <1>2
  <1>. HIDE DEF q, r, n
  <1>4. ASSUME q + 1 <= b PROVE FALSE
    <2>1. d * (q + 1) <= d * b /\ d * (q + 1) = d * q + d
      BY <1>2, <1>4, ProductGrows
    <2>. QED  BY <2>1, <1>2, <1>3
  <1>5. ASSUME b + 1 <= q PROVE FALSE
    <2>1. d * (b + 1) <= d * q /\ d * (b + 1) = d * b + d
      BY <1>2, <1>5, ProductGrows
    <2>. QED  BY <2>1, <1>2, <1>3
  <1>6. q = b
    BY <1>2, <1>4, <1>5
  <1>. QED  BY <1>6 DEF q, n

\* Blocks that cells fill.
LEMMA CountType ==
  ASSUME NEW n \in Nat
  PROVE  /\ blocks_count(n) \in Nat
         /\ n \div BlockSize \in Nat
         /\ n % BlockSize \in 0 .. BlockSize - 1
         /\ n \div BlockSize <= blocks_count(n)
  <1>1. n \div BlockSize \in Nat /\ n % BlockSize \in 0 .. BlockSize - 1
    BY SacDataAssumption, DivMod
  <1>. QED  BY <1>1 DEF blocks_count

LEMMA CountGrows ==
  ASSUME NEW m \in Nat, NEW n \in Nat, m <= n
  PROVE  blocks_count(m) <= blocks_count(n)
  <1>. DEFINE qm == m \div BlockSize
              qn == n \div BlockSize
              rm == m % BlockSize
              rn == n % BlockSize
  <1>1. /\ qm \in Nat /\ rm \in Nat /\ m = BlockSize * qm + rm
        /\ qn \in Nat /\ rn \in Nat /\ n = BlockSize * qn + rn
    BY DivMod, SacDataAssumption
  <1>2. qm <= qn
    BY DivGrows, SacDataAssumption
  <1>3. /\ blocks_count(m) = qm + (IF rm # 0 THEN 1 ELSE 0)
        /\ blocks_count(n) = qn + (IF rn # 0 THEN 1 ELSE 0)
    BY DEF blocks_count
  <1>. HIDE DEF qm, qn, rm, rn
  <1>4. CASE qm = qn
    <2>1. BlockSize * qm = BlockSize * qn /\ BlockSize * qm \in Nat
      BY <1>1, <1>4, SacDataAssumption
    <2>2. rm <= rn
      BY <2>1, <1>1
    <2>. QED  BY <2>2, <1>1, <1>3, <1>4
  <1>5. CASE qm < qn
    BY <1>1, <1>3, <1>5
  <1>. QED  BY <1>1, <1>2, <1>4, <1>5

\* The block of a cell is one of those that the cells up to it fill.
LEMMA CountCovers ==
  ASSUME NEW m \in Nat, NEW n \in Nat, m < n
  PROVE  m \div BlockSize < blocks_count(n)
  <1>. DEFINE qm == m \div BlockSize
              qn == n \div BlockSize
              rm == m % BlockSize
              rn == n % BlockSize
  <1>1. /\ qm \in Nat /\ rm \in Nat /\ m = BlockSize * qm + rm
        /\ qn \in Nat /\ rn \in Nat /\ n = BlockSize * qn + rn
    BY DivMod, SacDataAssumption
  <1>2. qm <= qn
    BY DivGrows, SacDataAssumption
  <1>3. blocks_count(n) = qn + (IF rn # 0 THEN 1 ELSE 0)
    BY DEF blocks_count
  <1>. HIDE DEF qm, qn, rm, rn
  <1>4. CASE qm = qn
    <2>1. BlockSize * qm = BlockSize * qn /\ BlockSize * qm \in Nat
      BY <1>1, <1>4, SacDataAssumption
    <2>2. rm < rn
      BY <2>1, <1>1
    <2>. QED  BY <2>2, <1>1, <1>3, <1>4 DEF qm
  <1>5. CASE qm < qn
    BY <1>1, <1>3, <1>5 DEF qm
  <1>. QED  BY <1>1, <1>2, <1>4, <1>5
-----------------------------------------------------------------------------
\* Lists of blocks.
LEMMA AppendLists ==
  ASSUME NEW list \in Seq(Entry), NEW b \in Entry
  PROVE  /\ Append(list, b) \in Seq(Entry)
         /\ Len(Append(list, b)) = Len(list) + 1
         /\ DOMAIN list = 1 .. Len(list)
         /\ DOMAIN Append(list, b) = 1 .. Len(list) + 1
         /\ \A i \in 1 .. Len(list) : Append(list, b)[i] = list[i]
         /\ Append(list, b)[Len(list) + 1] = b
         /\ Len(list) \in Nat
  BY AppendProperties, LenProperties

LEMMA AppendListed ==
  ASSUME NEW list \in Seq(Entry), NEW b \in Entry
  PROVE  Listed(Append(list, b)) = Listed(list) \cup {b}
  <1>. DEFINE longer == Append(list, b)
  <1>1. /\ DOMAIN list = 1 .. Len(list) /\ DOMAIN longer = 1 .. Len(list) + 1
        /\ \A i \in 1 .. Len(list) : longer[i] = list[i]
        /\ longer[Len(list) + 1] = b /\ Len(list) \in Nat
    BY AppendLists
  <1>. HIDE DEF longer
  <1>2. Listed(longer) \subseteq Listed(list) \cup {b}
    BY <1>1 DEF Listed
  <1>3. Listed(list) \cup {b} \subseteq Listed(longer)
    BY <1>1 DEF Listed
  <1>4. Listed(longer) = Listed(list) \cup {b}
    BY <1>2, <1>3
  <1>. QED  BY <1>4 DEF longer

LEMMA BlocksAreListed ==
  ASSUME NEW list
  PROVE  Blocks(list) = Listed(list) \ {NoBlock}
  BY DEF Blocks, Listed

\* What the loop that adds blocks makes of a list and of its own last answer.
LEMMA WithBlock ==
  ASSUME NEW list \in Seq(Entry), NEW b \in Entry, NEW c \in Entry
  PROVE  /\ with_block(list, Len(list), b) = Append(list, b)
         /\ with_block(Append(list, c), Len(list), b) = Append(list, b)
  <1>1. ASSUME NEW s, \A i \in 1 .. Len(list) : s[i] = list[i]
        PROVE  SubSeq(s, 1, Len(list)) = list
    <2>1. Len(list) \in Nat /\ \A i \in 1 .. Len(list) : list[i] \in Entry
      BY LenProperties, ElementOfSeq
    <2>2. \A i \in 1 .. Len(list) : s[i] \in Entry
      BY <1>1, <2>1
    <2>. DEFINE front == SubSeq(s, 1, Len(list))
    <2>3. /\ front \in Seq(Entry)
          /\ Len(front) = IF 1 <= Len(list) THEN Len(list) - 1 + 1 ELSE 0
          /\ \A i \in 1 .. Len(list) - 1 + 1 : front[i] = s[1 + i - 1]
      BY <2>1, <2>2, SubSeqProperties
    <2>. HIDE DEF front
    <2>4. Len(front) = Len(list)
      BY <2>1, <2>3
    <2>5. \A i \in 1 .. Len(list) : front[i] = list[i]
      BY <2>1, <2>3, <1>1
    <2>6. front = list
      BY <2>3, <2>4, <2>5, SeqEqual
    <2>. QED  BY <2>6 DEF front
  <1>2. SubSeq(list, 1, Len(list)) = list
    BY <1>1
  <1>3. SubSeq(Append(list, c), 1, Len(list)) = list
    BY <1>1, AppendLists
  <1>. QED  BY <1>2, <1>3 DEF with_block

\* The search finds a free block or says that there is none.
LEMMA FreeBlock ==
  \/ find_free_block = NoBlock /\ DataBlock \subseteq bitmap
  \/ find_free_block \in DataBlock \ bitmap
  <1>1. CASE DataBlock \subseteq bitmap
    BY <1>1 DEF find_free_block
  <1>2. CASE ~ (DataBlock \subseteq bitmap)
    <2>1. DataBlock \ bitmap \in SUBSET (0 .. DataCount + 1)
      BY SacDataAssumption DEF DataBlock
    <2>2. DataCount + 1 \in Nat
      BY SacDataAssumption
    <2>3. Min(DataBlock \ bitmap) \in DataBlock \ bitmap
      BY <1>2, <2>1, <2>2, LeastExists
    <2>. QED  BY <1>2, <2>3 DEF find_free_block
  <1>. QED  BY <1>1, <1>2
-----------------------------------------------------------------------------
LEMMA FileTypes ==
  ASSUME TypeOK, NEW f \in File
  PROVE  /\ node[f] \in [filesize : Nat, blocks : Seq(Entry)]
         /\ node[f].filesize \in Nat /\ node[f].blocks \in Seq(Entry)
         /\ Len(node[f].blocks) \in Nat
  <1>1. node[f] \in [filesize : Nat, blocks : Seq(Entry)]
    BY DEF TypeOK, Entry
  <1>. QED  BY <1>1, LenProperties

\* What a step that writes nothing to the disk keeps.
LEMMA DiskStays ==
  ASSUME DataInv, UNCHANGED disk, pc' # "wrecked"
  PROVE  /\ BlocksHaveOneOwner' /\ ListFitsTheSize' /\ MisdirectedOnlyAfterLoss'
         /\ bitmap' \in SUBSET DataBlock
         /\ node' \in [File -> [filesize : Nat, blocks : Seq(Entry)]]
         /\ writer' \in [DataBlock -> File \cup {None}]
         /\ astray' \in BOOLEAN
  <1>1. bitmap' = bitmap /\ node' = node /\ writer' = writer /\ astray' = astray
    BY DEF disk
  <1>2. BlocksHaveOneOwner'
    BY <1>1 DEF DataInv, BlocksHaveOneOwner
  <1>3. ListFitsTheSize'
    BY <1>1 DEF DataInv, ListFitsTheSize
  <1>4. MisdirectedOnlyAfterLoss'
    BY <1>1 DEF DataInv, MisdirectedOnlyAfterLoss, BlocksMissing
  <1>. QED  BY <1>1, <1>2, <1>3, <1>4 DEF DataInv, TypeOK, Entry

LEMMA IdleTypes == Idle \in Locals /\ Listed(Idle.blocks) = {}
  <1>1. <<>> \in Seq(DataBlock \cup {NoBlock}) /\ Listed(<<>>) = {}
    BY DEF Listed
  <1>. QED  BY <1>1, SacDataAssumption DEF Idle, Locals

LEMMA InitHasDataInv == Init => DataInv
  <1>. SUFFICES ASSUME Init
                PROVE  DataInv
    OBVIOUS
  <1>1. \A f \in File : node[f].filesize = 0 /\ node[f].blocks = <<>>
    BY DEF Init
  <1>2. <<>> \in Seq(Entry) /\ Listed(<<>>) = {} /\ Blocks(<<>>) = {}
    BY DEF Listed, Blocks
  <1>3. TypeOK
    <2>1. req \in Locals
      BY IdleTypes DEF Init
    <2>3. node \in [File -> [filesize : Nat, blocks : Seq(DataBlock \cup {NoBlock})]]
      <3>1. [filesize |-> 0, blocks |-> <<>>]
                \in [filesize : Nat, blocks : Seq(DataBlock \cup {NoBlock})]
        BY <1>2 DEF Entry
      <3>. QED  BY <3>1 DEF Init
    <2>. QED  BY <2>1, <2>3 DEF Init, TypeOK
  <1>4. BlocksHaveOneOwner
    BY <1>1, <1>2 DEF BlocksHaveOneOwner
  <1>5. ListFitsTheSize
    <2>1. blocks_count(0) \in Nat
      BY CountType
    <2>. QED  BY <1>1, <2>1 DEF ListFitsTheSize
  <1>6. FullWhenNoBlock
    BY <1>1, <1>2 DEF FullWhenNoBlock, Init, Idle
  <1>7. MisdirectedOnlyAfterLoss /\ WriteIsKnown
    BY DEF Init, MisdirectedOnlyAfterLoss, WriteIsKnown
  <1>. QED  BY <1>3, <1>4, <1>5, <1>6, <1>7 DEF DataInv

\* A request that starts: what its locals are.
LEMMA WriteKeeps ==
  ASSUME DataInv, NEW f \in File, NEW offset \in Offset, NEW size \in Size,
         NEW text \in Text, Write(f, offset, size, text)
  PROVE  DataInv'
  <1>. DEFINE old == node[f].filesize
              start == IF offset > old THEN old ELSE offset
              new == IF start + size > old THEN start + size ELSE old
  <1>1. old \in Nat /\ node[f].blocks \in Seq(Entry) /\ Len(node[f].blocks) \in Nat
    BY FileTypes DEF DataInv
  <1>2. /\ start \in Nat /\ new \in Nat
        /\ start <= old /\ old <= new /\ start < new
        /\ size \in Nat \ {0} /\ (new > old \/ new = old)
    BY <1>1, SacDataAssumption
  <1>3. /\ pc' = "write" /\ UNCHANGED disk /\ UNCHANGED opened
        /\ req'.file = f /\ req'.blocks = node[f].blocks
        /\ req'.last = Len(node[f].blocks)
        /\ req'.needed = blocks_needed(old, new)
        /\ req'.size = new /\ req'.left = size /\ req'.amount = 0
        /\ req'.position = start \div BlockSize
        /\ req'.offset_d = start % BlockSize
        /\ req'.temporal = BlockSize - (start % BlockSize)
    BY DEF Write
  <1>4. node' = node /\ bitmap' = bitmap
    BY <1>3 DEF disk
  <1>. HIDE DEF old, start, new
  <1>5. /\ blocks_count(new) \in Nat /\ blocks_count(old) \in Nat
        /\ blocks_count(old) <= blocks_count(new)
    BY <1>1, <1>2, CountType, CountGrows
  <1>6. req'.needed = blocks_count(new) - blocks_count(old) /\ req'.needed \in Nat
    BY <1>1, <1>2, <1>3, <1>5 DEF blocks_needed
  <1>7. /\ start \div BlockSize \in Nat
        /\ start % BlockSize \in 0 .. BlockSize - 1
        /\ start \div BlockSize < blocks_count(new)
        /\ start \div BlockSize <= old \div BlockSize
    BY <1>1, <1>2, CountType, CountCovers, DivGrows, SacDataAssumption
  <1>8. TypeOK'
    <2>1. /\ f \in File \cup {None} /\ node[f].blocks \in Seq(DataBlock \cup {NoBlock})
          /\ size \in Int /\ text \in Nat
          /\ BlockSize - (start % BlockSize) \in Int
      BY <1>1, <1>2, <1>7, SacDataAssumption DEF Entry
    <2>2. req' \in Locals
      BY <1>1, <1>2, <1>5, <1>6, <1>7, <2>1 DEF Write, Locals, old, start, new
    <2>. QED  BY <1>3, <2>2 DEF DataInv, TypeOK, disk
  <1>9. FullWhenNoBlock'
    BY <1>3, <1>4 DEF DataInv, FullWhenNoBlock
  <1>10. WriteIsKnown'
    <2>1. ListIsKnown'
      BY <1>3, <1>4, <1>6 DEF ListIsKnown, Grown, old
    <2>2. PlaceIsKnown'
      BY <1>3, <1>4, <1>7 DEF PlaceIsKnown, old
    <2>3. LeftIsKnown'
      BY <1>3, <1>7, SacDataAssumption DEF LeftIsKnown
    <2>. QED  BY <2>1, <2>2, <2>3, <1>2, <1>3, <1>4 DEF WriteIsKnown, old
  <1>11. BlocksHaveOneOwner' /\ ListFitsTheSize' /\ MisdirectedOnlyAfterLoss'
    BY <1>3, DiskStays
  <1>. QED  BY <1>8, <1>9, <1>10, <1>11 DEF DataInv

\* The end of a request that was not answered, and the server's start.
LEMMA EndKeeps ==
  ASSUME DataInv, Crash \/ Kill
  PROVE  DataInv'
  <1>1. UNCHANGED disk /\ opened' = opened /\ pc' = "down" /\ req' = Idle
    BY DEF Crash, Kill
  <1>2. TypeOK'
    BY <1>1, DiskStays, IdleTypes DEF DataInv, TypeOK, Entry
  <1>3. FullWhenNoBlock'
    BY <1>1, IdleTypes DEF DataInv, FullWhenNoBlock, disk
  <1>4. WriteIsKnown'
    BY <1>1 DEF WriteIsKnown
  <1>5. BlocksHaveOneOwner' /\ ListFitsTheSize' /\ MisdirectedOnlyAfterLoss'
    BY <1>1, DiskStays
  <1>. QED  BY <1>2, <1>3, <1>4, <1>5 DEF DataInv

LEMMA OpenKeeps ==
  ASSUME DataInv, Start \/ \E f \in File : action_open(f)
  PROVE  DataInv'
  <1>1. /\ UNCHANGED <<disk, req>> /\ opened' \in SUBSET File
        /\ pc' = "ready"
    BY DEF Start, action_open, DataInv, TypeOK
  <1>2. TypeOK'
    BY <1>1 DEF DataInv, TypeOK, disk
  <1>3. FullWhenNoBlock'
    BY <1>1 DEF DataInv, FullWhenNoBlock, disk
  <1>4. WriteIsKnown'
    BY <1>1 DEF WriteIsKnown
  <1>5. BlocksHaveOneOwner' /\ ListFitsTheSize' /\ MisdirectedOnlyAfterLoss'
    BY <1>1, DiskStays
  <1>. QED  BY <1>2, <1>3, <1>4, <1>5 DEF DataInv
-----------------------------------------------------------------------------
LEMMA WriteFacts ==
  ASSUME DataInv, pc = "write"
  PROVE  /\ req.file \in File
         /\ node[req.file].blocks \in Seq(Entry)
         /\ node[req.file].filesize \in Nat
         /\ Len(node[req.file].blocks) \in Nat
         /\ Len(node[req.file].blocks) <= blocks_count(node[req.file].filesize)
         /\ req.last = Len(node[req.file].blocks)
         /\ req.size >= node[req.file].filesize
         /\ Grown \in Nat
         /\ req \in Locals /\ req.blocks \in Seq(Entry)
         /\ ListIsKnown /\ PlaceIsKnown /\ LeftIsKnown
  <1>1. /\ req.file \in File
        /\ req.last = Len(node[req.file].blocks)
        /\ req.size >= node[req.file].filesize
        /\ ListIsKnown /\ PlaceIsKnown /\ LeftIsKnown
    BY DEF DataInv, WriteIsKnown
  <1>2. /\ node[req.file].blocks \in Seq(Entry)
        /\ node[req.file].filesize \in Nat
        /\ Len(node[req.file].blocks) \in Nat
        /\ Len(node[req.file].blocks) <= blocks_count(node[req.file].filesize)
    BY <1>1, FileTypes DEF DataInv, ListFitsTheSize
  <1>3. req \in Locals /\ req.blocks \in Seq(Entry) /\ req.size \in Nat
    BY DEF DataInv, TypeOK, Locals, Entry
  <1>4. Grown \in Nat
    <2>1. /\ blocks_count(req.size) \in Nat
          /\ blocks_count(node[req.file].filesize) \in Nat
      BY <1>2, <1>3, CountType
    <2>2. blocks_count(node[req.file].filesize) <= blocks_count(req.size)
      BY <1>1, <1>2, <1>3, CountGrows
    <2>. QED  BY <2>1, <2>2 DEF Grown
  <1>. QED  BY <1>1, <1>2, <1>3, <1>4

LEMMA AddBlockKeeps ==
  ASSUME DataInv, AddBlock
  PROVE  DataInv'
  <1>. PICK b : b = find_free_block
    OBVIOUS
  <1>. PICK old : old = node[req.file].blocks
    OBVIOUS
  <1>1. /\ pc = "write" /\ req.needed > 0 /\ pc' = "write"
        /\ bitmap' = bitmap \cup ({b} \ {NoBlock})
        /\ node' = node /\ writer' = writer /\ astray' = astray /\ opened' = opened
        /\ req' = [req EXCEPT !.blocks = with_block(req.blocks, req.last, b),
                              !.needed = @ - 1]
    BY DEF AddBlock, set_block_as_occupied
  <1>2. /\ req.file \in File /\ old \in Seq(Entry) /\ Len(old) \in Nat
        /\ req.last = Len(old) /\ Grown \in Nat /\ req \in Locals
        /\ req.size >= node[req.file].filesize
        /\ ListIsKnown /\ PlaceIsKnown /\ LeftIsKnown
    BY <1>1, WriteFacts, SMTT(60)
  <1>3. \/ b = NoBlock /\ DataBlock \subseteq bitmap
        \/ b \in DataBlock \ bitmap
    BY FreeBlock
  <1>4. b \in Entry
    BY <1>3 DEF Entry
  <1>5. with_block(req.blocks, req.last, b) = Append(old, b)
    <2>1. CASE req.blocks = old
      BY <2>1, <1>2, <1>4, WithBlock
    <2>2. CASE \E c \in Entry : req.blocks = Append(old, c)
      BY <2>2, <1>2, <1>4, WithBlock, SMTT(60)
    <2>. QED  BY <2>1, <2>2, <1>2 DEF ListIsKnown
  <1>6. req.needed \in Nat /\ req.needed <= Grown
    BY <1>2 DEF ListIsKnown, Locals
  <1>7. /\ Append(old, b) \in Seq(Entry)
        /\ Listed(Append(old, b)) = Listed(old) \cup {b}
    BY <1>2, <1>4, AppendLists, AppendListed
  <1>8. req' = [req EXCEPT !.blocks = Append(old, b), !.needed = @ - 1]
    BY <1>1, <1>5
  <1>9. /\ req' \in Locals /\ req'.blocks = Append(old, b)
        /\ req'.needed = req.needed - 1
        /\ req'.file = req.file /\ req'.last = req.last /\ req'.size = req.size
        /\ req'.position = req.position /\ req'.offset_d = req.offset_d
        /\ req'.left = req.left /\ req'.temporal = req.temporal
        /\ req'.amount = req.amount
    <2>1. req.needed - 1 \in Nat
      BY <1>1, <1>6
    <2>2. req \in Locals /\ Append(old, b) \in Seq(DataBlock \cup {NoBlock})
      BY <1>2, <1>7 DEF Entry
    <2>. HIDE <1>1, <1>2, <1>5, <1>7
    <2>. QED  BY <2>1, <2>2, <1>8 DEF Locals
  <1>10. bitmap \subseteq bitmap' /\ bitmap' \in SUBSET DataBlock
    BY <1>1, <1>3 DEF DataInv, TypeOK
  <1>11. TypeOK'
    BY <1>1, <1>9, <1>10 DEF DataInv, TypeOK
  <1>12. BlocksHaveOneOwner'
    BY <1>1, <1>10 DEF DataInv, BlocksHaveOneOwner
  <1>13. ListFitsTheSize' /\ MisdirectedOnlyAfterLoss'
    BY <1>1, <1>10 DEF DataInv, ListFitsTheSize, MisdirectedOnlyAfterLoss, BlocksMissing
  <1>14. FullWhenNoBlock'
    <2>1. ASSUME NoBlock \in Listed(req'.blocks)
          PROVE  DataBlock \subseteq bitmap
      <3>1. CASE NoBlock \in Listed(old)
        BY <3>1, <1>2 DEF DataInv, FullWhenNoBlock
      <3>2. CASE b = NoBlock
        BY <3>2, <1>3 DEF NoBlock, DataBlock
      <3>. QED  BY <2>1, <3>1, <3>2, <1>7, <1>9
    <2>2. ASSUME NEW f \in File, NoBlock \in Listed(node'[f].blocks)
          PROVE  DataBlock \subseteq bitmap
      BY <2>2, <1>1 DEF DataInv, FullWhenNoBlock
    <2>. QED  BY <2>1, <2>2, <1>10 DEF FullWhenNoBlock
  <1>15. WriteIsKnown'
    <2>1. IsFresh(b)'
      <3>1. CASE b \in DataBlock \ bitmap
        <4>1. \A f \in File : b \notin Blocks(node[f].blocks)
          BY <3>1 DEF DataInv, BlocksHaveOneOwner
        <4>2. b \in bitmap'
          BY <3>1, <1>1 DEF NoBlock, DataBlock
        <4>. QED  BY <4>1, <4>2, <1>1 DEF IsFresh
      <3>2. CASE b = NoBlock
        BY <3>2, SMTT(60) DEF IsFresh
      <3>. QED  BY <3>1, <3>2, <1>3
    <2>2. Grown' = Grown
      BY <1>1, <1>9, SMTT(60) DEF Grown
    <2>3. ListIsKnown'
      <3>1. node'[req'.file].blocks = old
        BY <1>1, <1>9
      <3>2. req'.blocks = Append(old, b) /\ b \in Entry
        BY <1>4, <1>9
      <3>3. req'.needed < Grown'
        BY <2>2, <1>2, <1>6, <1>9
      <3>. HIDE DEF IsFresh, Grown
      <3>. QED  BY <2>1, <3>1, <3>2, <3>3, Zenon DEF ListIsKnown
    <2>4. PlaceIsKnown' /\ LeftIsKnown'
      BY <1>1, <1>2, <1>9 DEF PlaceIsKnown, LeftIsKnown
    <2>. QED  BY <2>3, <2>4, <1>1, <1>2, <1>9 DEF WriteIsKnown
  <1>. QED  BY <1>11, <1>12, <1>13, <1>14, <1>15 DEF DataInv
-----------------------------------------------------------------------------
\* A list of a write holds blocks of its file and fresh ones only.
LEMMA ListedInAWrite ==
  ASSUME DataInv, pc = "write", NEW c \in Blocks(req.blocks)
  PROVE  /\ c \in bitmap
         /\ \A g \in File \ {req.file} : c \notin Blocks(node[g].blocks)
  <1>. PICK old : old = node[req.file].blocks
    OBVIOUS
  <1>1. req.file \in File /\ old \in Seq(Entry) /\ ListIsKnown
    BY WriteFacts
  <1>2. c \in Listed(req.blocks) /\ c # NoBlock
    BY BlocksAreListed
  <1>3. CASE c \in Listed(old)
    <2>1. c \in Blocks(old)
      BY <1>2, <1>3, BlocksAreListed
    <2>. QED  BY <2>1, <1>1 DEF DataInv, BlocksHaveOneOwner
  <1>4. CASE c \notin Listed(old)
    <2>1. PICK b \in Entry : IsFresh(b) /\ req.blocks = Append(old, b)
      BY <1>1, <1>2, <1>4 DEF ListIsKnown
    <2>2. c = b
      BY <2>1, <1>1, <1>2, <1>4, AppendListed
    <2>. QED  BY <2>1, <2>2, <1>2 DEF IsFresh
  <1>. QED  BY <1>3, <1>4

\* No two places of the list of a write hold the same block.
LEMMA NoneTwiceInAWrite ==
  ASSUME DataInv, pc = "write",
         NEW i \in DOMAIN req.blocks, NEW j \in DOMAIN req.blocks,
         req.blocks[i] = req.blocks[j], req.blocks[i] # NoBlock
  PROVE  i = j
  <1>. PICK old : old = node[req.file].blocks
    OBVIOUS
  <1>1. /\ req.file \in File /\ old \in Seq(Entry) /\ Len(old) \in Nat
        /\ ListIsKnown
    BY WriteFacts
  <1>2. \A k, l \in DOMAIN old : old[k] = old[l] /\ old[k] # NoBlock => k = l
    BY <1>1 DEF DataInv, BlocksHaveOneOwner
  <1>3. CASE req.blocks = old
    BY <1>2, <1>3
  <1>4. CASE \E b \in Entry : IsFresh(b) /\ req.blocks = Append(old, b)
    <2>1. PICK b \in Entry : IsFresh(b) /\ req.blocks = Append(old, b)
      BY <1>4
    <2>2. /\ DOMAIN old = 1 .. Len(old)
          /\ DOMAIN req.blocks = 1 .. Len(old) + 1
          /\ \A k \in 1 .. Len(old) : req.blocks[k] = old[k]
          /\ req.blocks[Len(old) + 1] = b
      BY <1>1, <2>1, AppendLists
    <2>3. b # NoBlock => \A k \in DOMAIN old : old[k] # b
      BY <1>1, <2>1 DEF IsFresh, Blocks
    <2>4. i \in 1 .. Len(old) + 1 /\ j \in 1 .. Len(old) + 1
      BY <2>2
    <2>5. CASE i \in 1 .. Len(old) /\ j \in 1 .. Len(old)
      BY <1>2, <2>2, <2>5
    <2>6. CASE i = Len(old) + 1 /\ j \in 1 .. Len(old)
      BY <2>2, <2>3, <2>6
    <2>7. CASE i \in 1 .. Len(old) /\ j = Len(old) + 1
      BY <2>2, <2>3, <2>7
    <2>. QED  BY <1>1, <2>4, <2>5, <2>6, <2>7, SMTT(60)
  <1>. QED  BY <1>1, <1>3, <1>4 DEF ListIsKnown

\* A file that lists less than its size fills does so after its write as well.
LEMMA LengthInAWrite ==
  ASSUME DataInv, pc = "write", req.needed = 0
  PROVE  /\ Len(req.blocks) \in Nat
         /\ Len(req.blocks) <= blocks_count(req.size)
         /\ Len(node[req.file].blocks) < blocks_count(node[req.file].filesize)
                => Len(req.blocks) < blocks_count(req.size)
         /\ \/ Len(req.blocks) = Len(node[req.file].blocks) + 1
            \/ /\ req.blocks = node[req.file].blocks
               /\ blocks_count(req.size) = blocks_count(node[req.file].filesize)
  <1>. PICK old : old = node[req.file].blocks
    OBVIOUS
  <1>. PICK count : count = blocks_count(node[req.file].filesize)
    OBVIOUS
  <1>1. /\ old \in Seq(Entry) /\ Len(old) \in Nat /\ Len(old) <= count
        /\ ListIsKnown /\ Grown \in Nat
        /\ req \in Locals
        /\ node[req.file].filesize \in Nat
    BY WriteFacts
  <1>2. blocks_count(req.size) \in Nat /\ count \in Nat
    BY <1>1, CountType DEF Locals
  <1>3. Grown = blocks_count(req.size) - count
    BY DEF Grown
  <1>4. CASE req.blocks = old /\ req.needed = Grown
    BY <1>1, <1>2, <1>3, <1>4
  <1>5. CASE \E b \in Entry : req.blocks = Append(old, b) /\ req.needed < Grown
    <2>1. Len(req.blocks) = Len(old) + 1
      BY <1>1, <1>5, AppendLists
    <2>. QED  BY <2>1, <1>1, <1>2, <1>3, <1>5, SMTT(60)
  <1>. QED  BY <1>1, <1>4, <1>5 DEF ListIsKnown

LEMMA SaveNodeKeeps ==
  ASSUME DataInv, SaveNode
  PROVE  DataInv'
  <1>. PICK f : f = req.file
    OBVIOUS
  <1>1. /\ pc = "write" /\ req.needed = 0 /\ pc' = "ready" /\ req' = Idle
        /\ node' = [node EXCEPT ![f] = [filesize |-> req.size, blocks |-> req.blocks]]
        /\ bitmap' = bitmap /\ writer' = writer /\ astray' = astray /\ opened' = opened
    BY DEF SaveNode
  <1>2. /\ f \in File /\ req \in Locals /\ req.blocks \in Seq(Entry)
        /\ req.size \in Nat
    BY <1>1, WriteFacts DEF Locals
  <1>3. node \in [File -> [filesize : Nat, blocks : Seq(Entry)]]
    BY DEF DataInv, TypeOK, Entry
  <1>4. /\ node' \in [File -> [filesize : Nat, blocks : Seq(Entry)]]
        /\ node'[f].blocks = req.blocks /\ node'[f].filesize = req.size
        /\ \A g \in File \ {f} : node'[g] = node[g]
    BY <1>1, <1>2, <1>3
  <1>5. TypeOK'
    BY <1>1, <1>4, IdleTypes DEF DataInv, TypeOK, Entry
  <1>6. BlocksHaveOneOwner'
    <2>1. \A g \in File : Blocks(node'[g].blocks) \subseteq bitmap
      BY <1>1, <1>4, ListedInAWrite DEF DataInv, BlocksHaveOneOwner
    <2>2. ASSUME NEW g \in File,
                 NEW i \in DOMAIN node'[g].blocks, NEW j \in DOMAIN node'[g].blocks,
                 node'[g].blocks[i] = node'[g].blocks[j], node'[g].blocks[i] # NoBlock
          PROVE  i = j
      <3>1. CASE g = f
        BY <3>1, <2>2, <1>1, <1>4, NoneTwiceInAWrite
      <3>2. CASE g # f
        BY <3>2, <2>2, <1>4, ZenonT(60) DEF DataInv, BlocksHaveOneOwner
      <3>. QED  BY <3>1, <3>2
    <2>3. ASSUME NEW g \in File, NEW h \in File, g # h
          PROVE  Blocks(node'[g].blocks) \cap Blocks(node'[h].blocks) = {}
      <3>1. CASE g = f
        BY <3>1, <2>3, <1>1, <1>4, ListedInAWrite
      <3>2. CASE h = f
        BY <3>2, <2>3, <1>1, <1>4, ListedInAWrite
      <3>3. CASE g # f /\ h # f
        BY <3>3, <2>3, <1>4 DEF DataInv, BlocksHaveOneOwner
      <3>. QED  BY <3>1, <3>2, <3>3
    <2>. QED  BY <2>1, <2>2, <2>3, <1>1 DEF BlocksHaveOneOwner
  <1>7. ListFitsTheSize'
    BY <1>1, <1>4, LengthInAWrite DEF DataInv, ListFitsTheSize
  <1>8. MisdirectedOnlyAfterLoss'
    <2>1. ASSUME NEW g \in File, Len(node[g].blocks) < blocks_count(node[g].filesize)
          PROVE  Len(node'[g].blocks) < blocks_count(node'[g].filesize)
      BY <2>1, <1>1, <1>4, LengthInAWrite
    <2>2. BlocksMissing => BlocksMissing'
      BY <2>1, <1>1 DEF BlocksMissing
    <2>. QED  BY <2>2, <1>1 DEF DataInv, MisdirectedOnlyAfterLoss
  <1>9. FullWhenNoBlock'
    <2>1. \A g \in File : NoBlock \in Listed(node'[g].blocks) => DataBlock \subseteq bitmap
      BY <1>4 DEF DataInv, FullWhenNoBlock
    <2>. QED  BY <2>1, <1>1, IdleTypes DEF FullWhenNoBlock
  <1>10. WriteIsKnown'
    BY <1>1 DEF WriteIsKnown
  <1>. QED  BY <1>5, <1>6, <1>7, <1>8, <1>9, <1>10 DEF DataInv
-----------------------------------------------------------------------------
LEMMA LengthsAreNumbers ==
  ASSUME req \in Locals, NEW len \in lengths(req)
  PROVE  len \in Int
  <1>1. req.text \in Nat /\ req.amount \in Nat /\ req.temporal \in Int
    BY DEF Locals
  <1>. QED  BY <1>1 DEF lengths

\* As long as no block was lost, a write goes to a data block of its list.
LEMMA NothingLostNothingStrays ==
  ASSUME DataInv, pc = "write", req.needed = 0, ~ BlocksMissing
  PROVE  /\ req.position < Len(req.blocks)
         /\ \A b \in block_at(req.blocks, req.position) : b \in DataBlock
  <1>. PICK old : old = node[req.file].blocks
    OBVIOUS
  <1>. PICK count : count = blocks_count(node[req.file].filesize)
    OBVIOUS
  <1>1. /\ req.file \in File /\ Len(old) \in Nat /\ Len(old) <= count
        /\ node[req.file].filesize \in Nat
        /\ req.blocks \in Seq(Entry) /\ req \in Locals
        /\ req.position < blocks_count(req.size)
        /\ req.position <= node[req.file].filesize \div BlockSize
    BY WriteFacts DEF PlaceIsKnown
  <1>2. ~ (Len(old) < count) /\ ~ (DataBlock \subseteq bitmap)
    BY <1>1 DEF BlocksMissing
  <1>3. /\ Len(req.blocks) \in Nat
        /\ \/ Len(req.blocks) = Len(old) + 1
           \/ req.blocks = old /\ blocks_count(req.size) = count
    BY LengthInAWrite
  <1>4. /\ count \in Nat /\ node[req.file].filesize \div BlockSize \in Nat
        /\ node[req.file].filesize \div BlockSize <= count
        /\ blocks_count(req.size) \in Nat /\ req.position \in Nat
    BY <1>1, CountType DEF Locals
  <1>5. req.position + 1 \in 1 .. Len(req.blocks)
    <2>1. Len(old) = count
      BY <1>1, <1>2, <1>4
    <2>2. req.position <= count
      BY <1>1, <1>4
    <2>3. CASE Len(req.blocks) = Len(old) + 1
      BY <2>1, <2>2, <2>3, <1>1, <1>4
    <2>4. CASE req.blocks = old /\ blocks_count(req.size) = count
      <3>1. Len(req.blocks) = count /\ req.position < count
        BY <2>1, <2>4, <1>1
      <3>. QED  BY <3>1, <1>4
    <2>. QED  BY <2>3, <2>4, <1>3
  <1>6. /\ DOMAIN req.blocks = 1 .. Len(req.blocks)
        /\ req.blocks[req.position + 1] \in Entry
    BY <1>1, <1>5, LenProperties, ElementOfSeq
  <1>7. /\ req.position < Len(req.blocks)
        /\ block_at(req.blocks, req.position) = {req.blocks[req.position + 1]}
    <2>1. req.position < Len(req.blocks)
      BY <1>3, <1>4, <1>5
    <2>. QED  BY <2>1 DEF block_at
  <1>8. req.blocks[req.position + 1] # NoBlock
    BY <1>2, <1>5, <1>6 DEF DataInv, FullWhenNoBlock, Listed
  <1>. QED  BY <1>6, <1>7, <1>8 DEF Entry

\* Cells counted from a place of a data block are not in front of it.
LEMMA HitsAreBehind ==
  ASSUME NEW b \in DataBlock, NEW offset_d \in 0 .. BlockSize - 1, NEW len \in Int
  PROVE  0 \notin write_block(b, offset_d, len) /\ 1 \notin write_block(b, offset_d, len)
  <1>1. /\ b \in Nat /\ b >= 2 /\ b # NoBlock /\ BlockSize \in Nat \ {0}
        /\ 0 \in 0 .. BlockSize - 1 /\ offset_d \in Nat
    BY SacDataAssumption DEF DataBlock, NoBlock
  <1>2. write_block(b, offset_d, len)
          = {(b * BlockSize + offset_d + k) \div BlockSize : k \in 0 .. len - 1}
    BY <1>1 DEF write_block
  <1>3. (b * BlockSize + 0) \div BlockSize = b
    BY <1>1, DivOfBlock
  <1>4. ASSUME NEW k \in 0 .. len - 1
        PROVE  (b * BlockSize + offset_d + k) \div BlockSize >= 2
    <2>. PICK start : start = b * BlockSize
      OBVIOUS
    <2>1. start \in Nat /\ k \in Nat
      BY <1>1
    <2>2. /\ start + 0 \in Nat /\ start + offset_d + k \in Nat
          /\ start + 0 <= start + offset_d + k
      BY <2>1, <1>1
    <2>3. (start + 0) \div BlockSize <= (start + offset_d + k) \div BlockSize
      BY <2>2, <1>1, DivGrows
    <2>4. (start + offset_d + k) \div BlockSize \in Nat
      BY <2>2, <1>1, DivMod
    <2>. QED  BY <2>3, <2>4, <1>1, <1>3
  <1>5. ASSUME NEW h \in write_block(b, offset_d, len)
        PROVE  h >= 2
    BY <1>2, <1>4
  <1>. QED  BY <1>5

LEMMA WriteChunkKeeps ==
  ASSUME DataInv, WriteChunk
  PROVE  DataInv'
  <1>1. /\ pc = "write" /\ req.needed = 0 /\ req.left > 0
        /\ bitmap' = bitmap /\ node' = node /\ opened' = opened
        /\ req' = [req EXCEPT !.left = left_after(req),
                              !.temporal = temporal_after(left_after(req)),
                              !.amount = @ + req.temporal]
    BY DEF WriteChunk
  <1>2. PICK b \in block_at(req.blocks, req.position), len \in lengths(req) :
          LET hit == write_block(b, req.offset_d, len) IN
          /\ writer' = [c \in DataBlock |->
                            IF c \in hit THEN req.file ELSE writer[c]]
          /\ astray' = (astray \/ 0 \in hit \/ req.position >= Len(req.blocks))
          /\ pc' = IF 1 \in hit THEN "wrecked" ELSE pc
    BY DEF WriteChunk
  <1>3. /\ req.file \in File /\ req \in Locals
        /\ req.last = Len(node[req.file].blocks)
        /\ req.size >= node[req.file].filesize
        /\ ListIsKnown /\ PlaceIsKnown /\ LeftIsKnown
    BY <1>1, WriteFacts
  <1>4. /\ req.left \in Int /\ req.temporal \in Int /\ req.temporal > 0
        /\ req.amount \in Nat /\ req.offset_d \in 0 .. BlockSize - 1
    BY <1>1, <1>3 DEF Locals, LeftIsKnown
  <1>5. /\ left_after(req) \in Int /\ temporal_after(left_after(req)) \in Int
        /\ left_after(req) > 0 => temporal_after(left_after(req)) > 0
        /\ req.amount + req.temporal \in Nat
    BY <1>4, SacDataAssumption DEF left_after, temporal_after
  <1>6. /\ req' \in Locals
        /\ req'.file = req.file /\ req'.blocks = req.blocks /\ req'.last = req.last
        /\ req'.needed = req.needed /\ req'.size = req.size
        /\ req'.position = req.position /\ req'.offset_d = req.offset_d
        /\ req'.left = left_after(req)
        /\ req'.temporal = temporal_after(left_after(req))
        /\ req'.amount = req.amount + req.temporal
    <2>1. req' = [req EXCEPT !.left = left_after(req),
                             !.temporal = temporal_after(left_after(req)),
                             !.amount = req.amount + req.temporal]
      BY <1>1
    <2>2. req \in Locals
      BY <1>3
    <2>. HIDE <1>1, <1>2, <1>3
    <2>. QED  BY <2>1, <2>2, <1>5 DEF Locals
  <1>7. TypeOK'
    <2>1. /\ writer \in [DataBlock -> File \cup {None}]
          /\ astray \in BOOLEAN
      BY DEF DataInv, TypeOK
    <2>2. /\ writer' \in [DataBlock -> File \cup {None}]
          /\ astray' \in BOOLEAN /\ pc' \in {"write", "wrecked"}
      BY <2>1, <1>1, <1>2, <1>3
    <2>. QED  BY <2>2, <1>1, <1>6 DEF DataInv, TypeOK
  <1>8. BlocksHaveOneOwner' /\ ListFitsTheSize' /\ FullWhenNoBlock'
    BY <1>1, <1>6 DEF DataInv, BlocksHaveOneOwner, ListFitsTheSize, FullWhenNoBlock
  <1>9. MisdirectedOnlyAfterLoss'
    <2>1. BlocksMissing' = BlocksMissing
      BY <1>1 DEF BlocksMissing
    <2>2. ASSUME ~ BlocksMissing
          PROVE  astray' = FALSE /\ pc' = "write"
      <3>1. b \in DataBlock /\ req.position < Len(req.blocks)
        BY <1>1, <1>2, <2>2, NothingLostNothingStrays
      <3>2. ~ (req.position >= Len(req.blocks))
        <4>1. req.position \in Nat /\ Len(req.blocks) \in Nat
          BY <1>1, WriteFacts, LenProperties DEF Locals
        <4>. QED  BY <3>1, <4>1
      <3>3. astray = FALSE
        BY <2>2 DEF DataInv, MisdirectedOnlyAfterLoss, TypeOK
      <3>4. /\ astray' = (astray \/ 0 \in write_block(b, req.offset_d, len))
            /\ pc' = IF 1 \in write_block(b, req.offset_d, len) THEN "wrecked" ELSE pc
        BY <3>2, <1>2
      <3>5. len \in Int
        BY <1>3, LengthsAreNumbers
      <3>6. /\ 0 \notin write_block(b, req.offset_d, len)
            /\ 1 \notin write_block(b, req.offset_d, len)
        BY <3>1, <3>5, <1>4, HitsAreBehind
      <3>. QED  BY <3>3, <3>4, <3>6, <1>1
    <2>. QED  BY <2>1, <2>2 DEF MisdirectedOnlyAfterLoss
  <1>10. WriteIsKnown'
    <2>1. Grown' = Grown /\ \A c \in Entry : IsFresh(c)' = IsFresh(c)
      BY <1>1, <1>6 DEF Grown, IsFresh
    <2>2. ListIsKnown'
      BY <2>1, <1>1, <1>3, <1>6 DEF ListIsKnown
    <2>3. PlaceIsKnown'
      BY <1>1, <1>3, <1>6 DEF PlaceIsKnown
    <2>4. LeftIsKnown'
      <3>1. req.amount + req.temporal >= BlockSize - req.offset_d
        BY <1>3, <1>4, SacDataAssumption DEF LeftIsKnown
      <3>. QED  BY <3>1, <1>5, <1>6 DEF LeftIsKnown
    <2>. QED  BY <2>2, <2>3, <2>4, <1>1, <1>3, <1>6 DEF WriteIsKnown
  <1>. QED  BY <1>7, <1>8, <1>9, <1>10 DEF DataInv
-----------------------------------------------------------------------------
LEMMA StutterKeeps ==
  ASSUME DataInv, UNCHANGED vars
  PROVE  DataInv'
  BY ZenonT(60) DEF DataInv, vars, disk, TypeOK, BlocksHaveOneOwner, ListFitsTheSize,
         MisdirectedOnlyAfterLoss, BlocksMissing, FullWhenNoBlock, WriteIsKnown,
         ListIsKnown, PlaceIsKnown, LeftIsKnown, Grown, IsFresh

LEMMA NextKeeps == DataInv /\ [Next]_vars => DataInv'
  <1>. SUFFICES ASSUME DataInv, [Next]_vars
                PROVE  DataInv'
    OBVIOUS
  <1>1. CASE \E f \in File, offset \in Offset, size \in Size, text \in Text :
                Write(f, offset, size, text)
    BY <1>1, WriteKeeps
  <1>2. CASE AddBlock
    BY <1>2, AddBlockKeeps
  <1>3. CASE WriteChunk
    BY <1>3, WriteChunkKeeps
  <1>4. CASE SaveNode
    BY <1>4, SaveNodeKeeps
  <1>5. CASE Crash \/ Kill
    BY <1>5, EndKeeps
  <1>6. CASE Start \/ \E f \in File : action_open(f)
    BY <1>6, OpenKeeps
  <1>7. CASE UNCHANGED vars
    BY <1>7, StutterKeeps
  <1>. QED  BY <1>1, <1>2, <1>3, <1>4, <1>5, <1>6, <1>7 DEF Next, Step

LEMMA DataHolds == Spec => []DataInv
  BY InitHasDataInv, NextKeeps, PTL DEF Spec

\* A text that ends before its block does falls on one block, that of the list
\* or the astray.
LEMMA ShortTextHitsOne ==
  ASSUME NEW b \in Int, b >= 0 \/ b = NoBlock, NEW offset_d \in 0 .. BlockSize - 1,
         NEW len \in Nat, len < BlockSize - offset_d
  PROVE  write_block(b, offset_d, len) \subseteq {IF b = NoBlock THEN 0 ELSE b}
  <1>1. ASSUME NEW c \in Nat, NEW k \in 0 .. BlockSize - 1
        PROVE  (c * BlockSize + k) \div BlockSize = c
    BY <1>1, SacDataAssumption, DivOfBlock
  <1>2. CASE b = NoBlock
    <2>1. write_block(b, offset_d, len) = {(0 + k) \div BlockSize : k \in 0 .. len - 1}
      BY <1>2 DEF write_block
    <2>2. \A k \in 0 .. len - 1 : k \in 0 .. BlockSize - 1 /\ 0 + k = 0 * BlockSize + k
      BY SacDataAssumption
    <2>3. \A k \in 0 .. len - 1 : (0 + k) \div BlockSize = 0
      BY <1>1, <2>2
    <2>. QED  BY <2>1, <2>3, <1>2
  <1>3. CASE b # NoBlock
    <2>. PICK start : start = b * BlockSize
      OBVIOUS
    <2>1. b \in Nat /\ start \in Nat
      BY <1>3, SacDataAssumption
    <2>2. write_block(b, offset_d, len)
            = {(start + offset_d + k) \div BlockSize : k \in 0 .. len - 1}
      BY <1>3 DEF write_block
    <2>3. \A k \in 0 .. len - 1 : /\ offset_d + k \in 0 .. BlockSize - 1
                                  /\ start + offset_d + k = start + (offset_d + k)
      BY <2>1, SacDataAssumption
    <2>4. \A k \in 0 .. len - 1 : (start + offset_d + k) \div BlockSize = b
      BY <1>1, <2>1, <2>3
    <2>. QED  BY <2>2, <2>4, <1>3
  <1>. QED  BY <1>2, <1>3

\* A block that is in the list of another file is not the one such a text hits.
LEMMA OthersAreNotHit ==
  ASSUME DataInv, WriteChunk,
         req.text < BlockSize - req.offset_d,
         req.amount + req.left <= BlockSize - req.offset_d,
         req.position <= Len(req.blocks),
         NEW f \in File \ {req.file},
         NEW c \in DataBlock, c \in Blocks(node[f].blocks)
  PROVE  writer'[c] = writer[c]
  <1>1. /\ pc = "write" /\ req.left > 0
        /\ \E b \in block_at(req.blocks, req.position), len \in lengths(req) :
              writer' = [d \in DataBlock |->
                           IF d \in write_block(b, req.offset_d, len)
                           THEN req.file ELSE writer[d]]
    BY DEF WriteChunk
  <1>2. /\ req \in Locals /\ req.blocks \in Seq(Entry) /\ LeftIsKnown
        /\ req.left \in Int /\ req.temporal \in Int /\ req.amount \in Nat
        /\ req.text \in Nat /\ req.position \in Nat
        /\ req.offset_d \in 0 .. BlockSize - 1
    BY <1>1, WriteFacts DEF Locals
  <1>3. req.amount = 0 /\ req.temporal = BlockSize - req.offset_d
    BY <1>1, <1>2, SacDataAssumption DEF LeftIsKnown
  <1>4. lengths(req) = {req.text}
    BY <1>2, <1>3 DEF lengths
  <1>5. PICK b \in block_at(req.blocks, req.position) :
          writer' = [d \in DataBlock |->
                       IF d \in write_block(b, req.offset_d, req.text)
                       THEN req.file ELSE writer[d]]
    BY <1>1, <1>4
  <1>6. c \notin write_block(b, req.offset_d, req.text)
    <2>1. b \in Listed(req.blocks) \/ b = 0
      <3>1. DOMAIN req.blocks = 1 .. Len(req.blocks) /\ Len(req.blocks) \in Nat
        BY <1>2, LenProperties
      <3>2. CASE req.position < Len(req.blocks)
        <4>1. req.position + 1 \in DOMAIN req.blocks
          BY <3>1, <3>2, <1>2, SMTT(60)
        <4>2. b = req.blocks[req.position + 1]
          BY <1>5, <3>2 DEF block_at
        <4>. QED  BY <4>1, <4>2 DEF Listed
      <3>3. CASE ~ (req.position < Len(req.blocks))
        <4>1. req.position = Len(req.blocks)
          BY <3>1, <3>3, <1>2
        <4>. QED  BY <1>5, <3>3, <4>1 DEF block_at
      <3>. QED  BY <3>2, <3>3
    <2>2. b \in Entry \cup {0}
      <3>1. \A i \in DOMAIN req.blocks : req.blocks[i] \in Entry
        BY <1>2, LenProperties, ElementOfSeq
      <3>. QED  BY <2>1, <3>1 DEF Listed
    <2>3. b \in Int /\ (b >= 0 \/ b = NoBlock)
      BY <2>2, SacDataAssumption DEF Entry, DataBlock, NoBlock
    <2>4. write_block(b, req.offset_d, req.text) \subseteq {IF b = NoBlock THEN 0 ELSE b}
      BY <2>3, <1>2, ShortTextHitsOne
    <2>5. c # 0 /\ c # NoBlock
      BY SacDataAssumption DEF DataBlock, NoBlock
    <2>6. c # b
      <3>1. ASSUME b \in Listed(req.blocks), b # NoBlock
            PROVE  b \notin Blocks(node[f].blocks)
        <4>1. b \in Blocks(req.blocks)
          BY <3>1, BlocksAreListed
        <4>. QED  BY <4>1, <1>1, ListedInAWrite
      <3>. QED  BY <3>1, <2>1, <2>5
    <2>. QED  BY <2>4, <2>5, <2>6
  <1>. QED  BY <1>5, <1>6 DEF DataInv, TypeOK
-----------------------------------------------------------------------------
\* The disk and the locals of a write have their types.
THEOREM DataTypesHold == Spec => []TypeOK
  <1>1. DataInv => TypeOK
    BY DEF DataInv
  <1>. QED  BY <1>1, DataHolds, PTL

\* However requests, writes that end half way, kills and restarts follow each
\* other, no block that action_write found on the disk is in two lists or twice
\* in one, and its bit is set.
THEOREM OwnersHold == Spec => []BlocksHaveOneOwner
  <1>1. DataInv => BlocksHaveOneOwner
    BY DEF DataInv
  <1>. QED  BY <1>1, DataHolds, PTL

\* The loop of action_write that adds blocks never adds one too many.
THEOREM ListsFit == Spec => []ListFitsTheSize
  <1>1. DataInv => ListFitsTheSize
    BY DEF DataInv
  <1>. QED  BY <1>1, DataHolds, PTL

\* Text goes to the header, the bitmap, the nodes or a block number nobody wrote
\* only after that loop lost a block, or on a full disk.
THEOREM StraysAfterLossOnly == Spec => []MisdirectedOnlyAfterLoss
  <1>1. DataInv => MisdirectedOnlyAfterLoss
    BY DEF DataInv
  <1>. QED  BY <1>1, DataHolds, PTL

\* A write of less text than the rest of its block holds, that claims no more,
\* to a block of its file's list or the zero behind it, changes no data block of
\* another file: in no state that requests, kills and full disks lead to.
THEOREM OthersAreSafe == Spec => OthersDataIsSafe
  <1>. DEFINE Safe ==
         \A f \in File \ {req.file}, b \in DataBlock :
            b \in Blocks(node[f].blocks) /\ writer'[b] # writer[b]
              => \/ req.text >= BlockSize - req.offset_d
                 \/ req.amount + req.left > BlockSize - req.offset_d
                 \/ req.position > Len(req.blocks)
  <1>1. DataInv /\ [Next]_vars => [Safe]_vars
    <2>. SUFFICES ASSUME DataInv, Next
                  PROVE  Safe
      OBVIOUS
    <2>1. CASE WriteChunk
      <3>1. /\ req.text \in Int /\ req.amount + req.left \in Int
            /\ BlockSize - req.offset_d \in Int
            /\ req.position \in Nat /\ Len(req.blocks) \in Nat
        BY LenProperties, SacDataAssumption, SMTT(60) DEF DataInv, TypeOK, Locals
      <3>. QED  BY <2>1, <3>1, OthersAreNotHit
    <2>2. CASE ~ WriteChunk
      <3>1. writer' = writer
        BY <2>2 DEF Next, Step, Write, AddBlock, Crash, SaveNode, action_open,
                    Kill, Start, disk
      <3>. QED  BY <3>1
    <2>. QED  BY <2>1, <2>2
  <1>. QED  BY <1>1, DataHolds, PTL DEF Spec, OthersDataIsSafe

\* How many turns the two loops of action_write have left, at most.
TurnsLeft == req.needed + (IF req.left > 0 THEN req.left ELSE 0) + 1

\* Every step of a write that does not end it leaves it fewer turns, so the two
\* loops end whatever offset, size and text they are given: a chunk is never
\* empty while something is left to write.
THEOREM WritesGetOn ==
    Spec => [][pc = "write" /\ pc' = "write" /\ Step
                  => TurnsLeft \in Nat /\ TurnsLeft' \in Nat /\ TurnsLeft' < TurnsLeft]_vars
  <1>. DEFINE GetsOn ==
         pc = "write" /\ pc' = "write" /\ Step
            => TurnsLeft \in Nat /\ TurnsLeft' \in Nat /\ TurnsLeft' < TurnsLeft
  <1>1. DataInv /\ [Next]_vars => [GetsOn]_vars
    <2>. SUFFICES ASSUME DataInv, pc = "write", pc' = "write", Step
                  PROVE  TurnsLeft \in Nat /\ TurnsLeft' \in Nat /\ TurnsLeft' < TurnsLeft
      OBVIOUS
    <2>1. req \in Locals /\ req.needed \in Nat /\ req.left \in Int
      BY DEF DataInv, TypeOK, Locals
    <2>2. CASE AddBlock
      <3>1. req.needed > 0 /\ req'.needed = req.needed - 1 /\ req'.left = req.left
        BY <2>1, <2>2 DEF AddBlock, Locals
      <3>. QED  BY <2>1, <3>1 DEF TurnsLeft
    <2>3. CASE WriteChunk
      <3>1. /\ req.left > 0 /\ req'.needed = req.needed
            /\ req'.left = req.left - req.temporal
        BY <2>1, <2>3 DEF WriteChunk, Locals, left_after
      <3>2. req.temporal \in Int /\ req.temporal > 0
        BY <2>1, <3>1 DEF DataInv, WriteIsKnown, LeftIsKnown, Locals
      <3>. QED  BY <2>1, <3>1, <3>2 DEF TurnsLeft
    <2>4. ~ Crash /\ ~ SaveNode
      BY DEF Crash, SaveNode
    <2>. QED  BY <2>2, <2>3, <2>4 DEF Step
  <1>. QED  BY <1>1, DataHolds, PTL DEF Spec
=============================================================================
