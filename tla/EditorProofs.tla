---------------------------- MODULE EditorProofs ----------------------------
(***************************************************************************)
(* Proofs about the RAM disk and the editor on it, for every size of the   *)
(* disk and every set of names: no block or inode is shared, lost or left  *)
(* behind, what the editor shows as saved is on the disk, and the disk     *)
(* implements the store of named files of FileStore.                       *)
(*                                                                         *)
(* The last two are about names shorter than FS_MAX_NAME (LongNames = {}): *)
(* the run RamFS_long_names shows that longer ones can be created twice.   *)
(***************************************************************************)
EXTENDS Editor, FiniteSetTheorems, FunctionTheorems, SequenceTheorems, TLAPS

\* The root keeps its block.
RootKept == blocks[Root] = <<0>>

\* The entries in use have names of users.
NamedByUsers == \A j \in Taken : dir[j].name \in Names

\* Whatever block a file has, it was written.
FilesWritten ==
  \A i \in Inodes \ {Root} : \A k \in DOMAIN blocks[i] : disk[blocks[i][k]] \in Chunks

\* What holds of the disk between two calls.
DiskInv ==
  /\ TypeOK
  /\ BlocksOwned /\ InodesLinked
  /\ RootKept /\ NamedByUsers /\ FilesWritten

EditorInv == DiskInv /\ EditorTypeOK

-----------------------------------------------------------------------------
(* Sizes, bitmaps and searches                                             *)

LEMMA Sizes ==
  /\ INODES \in Nat /\ BLOCKS \in Nat /\ DIRECT \in Nat /\ SLOTS \in Nat /\ MAX_LEN \in Nat
  /\ INODES >= 1 /\ BLOCKS >= 1 /\ DIRECT >= 1 /\ SLOTS >= 1 /\ MAX_LEN >= 1
  /\ Root \in Inodes /\ 0 \in Blocks /\ EMPTY \notin Inodes
<1>1. /\ INODES \in Nat \ {0} /\ BLOCKS \in Nat \ {0} /\ DIRECT \in Nat \ {0}
      /\ SLOTS \in Nat \ {0} /\ MAX_LEN \in Nat \ {0}
  BY SizesAssumption
<1> QED
  BY <1>1, SizesAssumption DEF Root, Inodes, Blocks, EMPTY

\* alloc_bit() never returns the same position twice, nor one in use.
LEMMA FirstFreesDistinct ==
  ASSUME NEW bitmap, NEW positions, NEW s, FirstFrees(s, bitmap, positions),
         DOMAIN s \subseteq Nat \ {0}
  PROVE  /\ \A k \in DOMAIN s : s[k] \notin bitmap
         /\ \A k, m \in DOMAIN s : s[k] = s[m] => k = m
<1>1. \A k \in DOMAIN s : s[k] \notin bitmap \cup {s[j] : j \in 1 .. k - 1}
  BY DEF FirstFrees, FirstFree
<1>2. \A k, m \in DOMAIN s : k < m => s[k] # s[m]
  <2> TAKE k, m \in DOMAIN s
  <2> HAVE k < m
  <2>1. k \in 1 .. m - 1
    OBVIOUS
  <2> QED
    BY <1>1, <2>1
<1> QED
  BY <1>1, <1>2

\* find_inode_by_name finds the inode of an entry in use.
LEMMA FoundIsLinked ==
  ASSUME DiskInv, NEW n \in Names, NEW i \in Inodes, Found(n, i)
  PROVE  /\ i \in inode_bitmap /\ i # Root
         /\ \E j \in Taken : dir[j].inode = i /\ dir[j].name = n
<1>1. PICK j \in 1 .. SLOTS : FirstSlot(j, {k \in 1 .. SLOTS : Matches(k, n)}) /\ i = dir[j].inode
  BY DEF Found
<1>2. j \in Taken /\ dir[j].name = n
  BY <1>1 DEF FirstSlot, Matches, Taken
<1>3. i \in Linked
  BY <1>1, <1>2 DEF Linked
<1> QED
  BY <1>1, <1>2, <1>3 DEF DiskInv, InodesLinked

\* A used block has a place in an inode.
LEMMA UsedBlocks ==
  ASSUME DiskInv, NEW b
  PROVE  b \in block_bitmap <=> \E i \in Inodes : \E k \in DOMAIN blocks[i] : blocks[i][k] = b
BY DEF DiskInv, BlocksOwned, Range

\* What is left after the blocks of an inode are freed are those of the others.
LEMMA FreedBlocks ==
  ASSUME DiskInv, NEW i \in Inodes, NEW b
  PROVE  b \in Freed(i) <=>
           \E j \in Inodes \ {i} : \E k \in DOMAIN blocks[j] : blocks[j][k] = b
<1>1. b \in Freed(i) <=> b \in block_bitmap /\ ~ \E k \in DOMAIN blocks[i] : blocks[i][k] = b
  BY DEF Freed, Range
<1> QED
  BY <1>1, UsedBlocks DEF DiskInv, BlocksOwned

\* An inode gets other blocks, all of them free or its own before.
LEMMA BlocksReplaced ==
  ASSUME DiskInv, NEW i \in Inodes, NEW s \in Seq(Blocks),
         \A k \in DOMAIN s : s[k] \notin Freed(i),
         \A k, m \in DOMAIN s : s[k] = s[m] => k = m,
         blocks' = [blocks EXCEPT ![i] = s],
         block_bitmap' = Freed(i) \cup Range(s)
  PROVE  BlocksOwned'
<1>1. blocks \in [Inodes -> Seq(Blocks)]
  BY DEF DiskInv, TypeOK
<1>2. \A j \in Inodes : blocks'[j] = IF j = i THEN s ELSE blocks[j]
  BY <1>1
<1>3. block_bitmap' = UNION {Range(blocks'[j]) : j \in Inodes}
  <2>1. ASSUME NEW b
        PROVE  b \in block_bitmap' <=> \E j \in Inodes : \E k \in DOMAIN blocks'[j] : blocks'[j][k] = b
    <3>1. b \in block_bitmap' <=> b \in Freed(i) \/ \E k \in DOMAIN s : s[k] = b
      BY <1>1 DEF Range
    <3>2. b \in Freed(i) <=>
            \E j \in Inodes \ {i} : \E k \in DOMAIN blocks'[j] : blocks'[j][k] = b
      <4>1. \A j \in Inodes \ {i} : blocks'[j] = blocks[j]
        BY <1>2
      <4> QED
        BY <4>1, FreedBlocks
    <3>3. blocks'[i] = s
      BY <1>2
    <3> QED
      BY <1>1, <3>1, <3>2, <3>3
  <2> QED
    BY <2>1 DEF Range
<1>4. ASSUME NEW j \in Inodes, NEW l \in Inodes, NEW k \in DOMAIN blocks'[j],
             NEW m \in DOMAIN blocks'[l], blocks'[j][k] = blocks'[l][m]
      PROVE  j = l /\ k = m
  <2>1. CASE j = i /\ l = i
    BY <1>1, <1>2, <1>4, <2>1
  <2>2. CASE j = i /\ l # i
    BY <1>1, <1>2, <1>4, <2>2, FreedBlocks
  <2>3. CASE j # i /\ l = i
    BY <1>1, <1>2, <1>4, <2>3, FreedBlocks
  <2>4. CASE j # i /\ l # i
    BY <1>2, <1>4, <2>4 DEF DiskInv, BlocksOwned
  <2> QED
    BY <2>1, <2>2, <2>3, <2>4
<1> QED
  BY <1>3, <1>4 DEF BlocksOwned

-----------------------------------------------------------------------------
(* The calls preserve the invariant                                        *)

\* A disk that was just formatted.
Fresh ==
  /\ inode_bitmap = {Root} /\ block_bitmap = {0} /\ blocks = FreshBlocks
  /\ dir = FreshDir /\ disk = FreshDisk /\ answer = Code(0)

LEMMA FreshSound == Fresh => DiskInv
<1> SUFFICES ASSUME Fresh
             PROVE  DiskInv
  OBVIOUS
<1> USE Sizes DEF Fresh
<1>1. \A i \in Inodes : blocks[i] = IF i = Root THEN <<0>> ELSE <<>>
  BY DEF FreshBlocks
<1>2. Taken = {}
  BY DEF Taken, FreshDir, Vacant
<1>3. TypeOK
  <2>1. blocks \in [Inodes -> Seq(Blocks)] /\ \A i \in Inodes : Len(blocks[i]) <= DIRECT
    BY <1>1 DEF FreshBlocks
  <2>2. dir \in [1 .. SLOTS -> [inode : Inodes \cup {EMPTY}, name : Names \cup {NoName}]]
    BY DEF FreshDir, Vacant
  <2>3. disk \in [Blocks -> Chunks \cup {Blank}]
    BY DEF FreshDisk
  <2>4. answer \in Answers
    BY DEF Code, Answers
  <2> QED
    BY <2>1, <2>2, <2>3, <2>4 DEF TypeOK
<1>4. BlocksOwned
  <2>1. block_bitmap = UNION {Range(blocks[i]) : i \in Inodes}
    BY <1>1 DEF Range
  <2> QED
    BY <1>1, <2>1 DEF BlocksOwned
<1>5. InodesLinked
  BY <1>1, <1>2 DEF InodesLinked, Linked, FreshDir, Vacant
<1> QED
  BY <1>1, <1>2, <1>3, <1>4, <1>5 DEF DiskInv, RootKept, NamedByUsers, FilesWritten

LEMMA InitSound == Init => DiskInv
BY FreshSound DEF Init, Fresh

LEMMA FormatPreserves == Format => DiskInv'
<1>1. Format => Fresh'
  BY DEF Format, Fresh
<1> QED
  BY <1>1, FreshSound, PTL

\* Outcomes that change nothing but the answer.
LEMMA OnlyAnswers ==
  ASSUME DiskInv, UNCHANGED <<inode_bitmap, block_bitmap, blocks, dir, disk>>,
         answer' \in Answers
  PROVE  DiskInv'
<1>1. Taken' = Taken
  BY DEF Taken
<1>2. InodesLinked'
  BY <1>1 DEF DiskInv, InodesLinked, Linked
<1> QED
  BY <1>1, <1>2
  DEF DiskInv, TypeOK, BlocksOwned, RootKept, NamedByUsers, FilesWritten

LEMMA CodeTyped ==
  ASSUME NEW c \in {-3, -2, -1, 0}
  PROVE  Code(c) \in Answers
BY Sizes DEF Code, Answers

LEMMA CreatePreserves ==
  ASSUME DiskInv, NEW n \in Names, Create(n)
  PROVE  DiskInv'
<1> USE Sizes DEF DiskInv
<1>1. CASE answer' = Code(IF Missing(n) THEN -2 ELSE -1)
           /\ UNCHANGED <<inode_bitmap, block_bitmap, blocks, dir, disk>>
  BY <1>1, OnlyAnswers, CodeTyped
<1>2. ASSUME NEW i \in Inodes, FirstFree(i, inode_bitmap, Inodes),
             blocks' = [blocks EXCEPT ![i] = <<>>], UNCHANGED <<block_bitmap, disk>>
      PROVE  i \notin inode_bitmap /\ i # Root /\ i \notin Linked /\ blocks' = blocks
  <2>1. i \notin inode_bitmap
    BY <1>2 DEF FirstFree
  <2>2. blocks[i] = <<>>
    BY <2>1 DEF InodesLinked
  <2> QED
    BY <1>2, <2>1, <2>2 DEF InodesLinked, TypeOK
<1>3. ASSUME NEW i \in Inodes, FirstFree(i, inode_bitmap, Inodes),
             blocks' = [blocks EXCEPT ![i] = <<>>], UNCHANGED <<block_bitmap, disk>>,
             NEW j \in 1 .. SLOTS, dir[j].inode = EMPTY,
             dir' = [dir EXCEPT ![j] = [inode |-> i, name |-> n]],
             inode_bitmap' = inode_bitmap \cup {i}, answer' = Code(0)
      PROVE  DiskInv'
  <2>1. i \notin inode_bitmap /\ i # Root /\ i \notin Linked /\ blocks' = blocks
    BY <1>2, <1>3
  <2>2. \A k \in 1 .. SLOTS : dir'[k] = IF k = j THEN [inode |-> i, name |-> n] ELSE dir[k]
    BY <1>3 DEF TypeOK
  <2>3. Taken' = Taken \cup {j} /\ j \notin Taken
    BY <1>3, <2>2 DEF Taken
  <2>4. Linked' = Linked \cup {i}
    BY <2>2, <2>3 DEF Linked, Taken
  <2>5. InodesLinked'
    <3>1. \A k \in Taken : dir[k].inode # i
      BY <2>1 DEF Linked
    <3>2. \A k, m \in 1 .. SLOTS :
            dir'[k].inode = dir'[m].inode /\ dir'[k].inode # EMPTY => k = m
      BY <2>2, <3>1 DEF InodesLinked, Taken
    <3> QED
      BY <1>3, <2>1, <2>4, <3>2 DEF InodesLinked
  <2>6. TypeOK'
    BY <1>3, <2>1, CodeTyped DEF TypeOK
  <2> QED
    BY <1>3, <2>1, <2>2, <2>3, <2>5, <2>6
    DEF BlocksOwned, RootKept, NamedByUsers, FilesWritten
<1>4. ASSUME NEW i \in Inodes, FirstFree(i, inode_bitmap, Inodes),
             blocks' = [blocks EXCEPT ![i] = <<>>], UNCHANGED <<block_bitmap, disk>>,
             inode_bitmap' = InodesAfterFullDir(i), answer' = Code(-3), UNCHANGED dir
      PROVE  DiskInv'
  <2>1. UNCHANGED <<inode_bitmap, block_bitmap, blocks, dir, disk>>
    BY <1>2, <1>4 DEF InodesAfterFullDir
  <2> QED
    BY <1>4, <2>1, OnlyAnswers, CodeTyped
<1> QED
  BY <1>1, <1>3, <1>4 DEF Create, FirstSlot

LEMMA TooLargePreserves ==
  ASSUME DiskInv, NEW i \in inode_bitmap \ {Root}, TooLarge(i), answer' = Code(-2),
         UNCHANGED <<inode_bitmap, dir, disk>>
  PROVE  DiskInv'
<1> USE Sizes DEF DiskInv
<1>1. i \in Inodes /\ blocks' = [blocks EXCEPT ![i] = <<>>] /\ block_bitmap' = Freed(i) \cup Range(<<>>)
  BY DEF TooLarge, TypeOK, Range
<1>2. BlocksOwned'
  <2>1. <<>> \in Seq(Blocks) /\ DOMAIN <<>> = {}
    OBVIOUS
  <2> QED
    BY <1>1, <2>1, BlocksReplaced
<1>3. \A k \in Inodes : blocks'[k] = IF k = i THEN <<>> ELSE blocks[k]
  BY <1>1 DEF TypeOK
<1>4. TypeOK'
  BY <1>1, <1>3, CodeTyped DEF TypeOK, TooLarge, Freed
<1>5. Taken' = Taken /\ Linked' = Linked
  BY DEF Taken, Linked
<1> QED
  BY <1>2, <1>3, <1>4, <1>5 DEF InodesLinked, RootKept, NamedByUsers, FilesWritten

\* A write gets a number of blocks, however many are free.
LEMMA DataTyped ==
  ASSUME NEW d \in Data
  PROVE  /\ Len(d) \in 0 .. MAX_LEN /\ Len(d) \in Nat
         /\ d \in [1 .. Len(d) -> Chunks] /\ d \in Seq(Chunks)
<1>1. PICK k \in 0 .. MAX_LEN : d \in [1 .. k -> Chunks]
  BY DEF Data
<1> QED
  BY <1>1, Sizes

LEMMA FreeCounted ==
  ASSUME NEW i \in Inodes
  PROVE  /\ IsFiniteSet(Blocks) /\ IsFiniteSet(Blocks \ Freed(i))
         /\ Cardinality(Blocks \ Freed(i)) \in Nat
<1>1. IsFiniteSet(Blocks)
  BY Sizes, FS_Interval DEF Blocks
<1>2. IsFiniteSet(Blocks \ Freed(i))
  BY <1>1, FS_Subset
<1> QED
  BY <1>1, <1>2, FS_CardinalityType

\* Every block that was got holds its chunk, and the others what they held.
LEMMA ChunksStored ==
  ASSUME NEW i \in Inodes, NEW d \in Data,
         NEW s \in Seq(Blocks), FirstFrees(s, Freed(i), Blocks), disk' = Filled(s, d)
  PROVE  /\ \A k \in DOMAIN s : disk'[s[k]] = d[k]
         /\ \A b \in Blocks : (\A k \in DOMAIN s : s[k] # b) => disk'[b] = disk[b]
         /\ \A k \in DOMAIN s : s[k] \notin Freed(i)
         /\ \A k, m \in DOMAIN s : s[k] = s[m] => k = m
<1>1. /\ \A k \in DOMAIN s : s[k] \notin Freed(i)
      /\ \A k, m \in DOMAIN s : s[k] = s[m] => k = m
  <2>1. DOMAIN s \subseteq Nat \ {0}
    OBVIOUS
  <2> QED
    BY <2>1, FirstFreesDistinct
<1>2. ASSUME NEW k \in DOMAIN s
      PROVE  disk'[s[k]] = d[k]
  <2>1. s[k] \in Blocks /\ s[k] \in Range(s)
    BY DEF Range
  <2>2. (CHOOSE m \in DOMAIN s : s[m] = s[k]) = k
    BY <1>1
  <2> QED
    BY <2>1, <2>2 DEF Filled
<1> QED
  BY <1>1, <1>2 DEF Filled, Range

LEMMA StoredPreserves ==
  ASSUME DiskInv, NEW i \in inode_bitmap \ {Root}, NEW d \in Data,
         NEW s \in Seq(Blocks), Len(s) <= Len(d), Len(s) <= DIRECT,
         FirstFrees(s, Freed(i), Blocks),
         blocks' = [blocks EXCEPT ![i] = s],
         block_bitmap' = Freed(i) \cup Range(s),
         disk' = Filled(s, d),
         answer' = Code(Len(s)), UNCHANGED <<inode_bitmap, dir>>
  PROVE  DiskInv'
<1> USE Sizes DEF DiskInv
<1>1. i \in Inodes
  BY DEF TypeOK
<1>2. /\ \A k \in DOMAIN s : disk'[s[k]] = d[k]
      /\ \A b \in Blocks : (\A k \in DOMAIN s : s[k] # b) => disk'[b] = disk[b]
      /\ \A k \in DOMAIN s : s[k] \notin Freed(i)
      /\ \A k, m \in DOMAIN s : s[k] = s[m] => k = m
  BY <1>1, ChunksStored
<1>3. BlocksOwned'
  BY <1>1, <1>2, BlocksReplaced
<1>4. \A j \in Inodes : blocks'[j] = IF j = i THEN s ELSE blocks[j]
  BY <1>1 DEF TypeOK
<1>5. d \in [1 .. Len(d) -> Chunks] /\ Len(d) \in Nat
  BY DataTyped
<1>6. TypeOK'
  <2>2. blocks' \in [Inodes -> Seq(Blocks)] /\ \A j \in Inodes : Len(blocks'[j]) <= DIRECT
    BY <1>1, <1>4 DEF TypeOK
  <2>3. disk' \in [Blocks -> Chunks \cup {Blank}]
    <3>1. ASSUME NEW k \in DOMAIN s
          PROVE  disk'[s[k]] \in Chunks
      BY <1>2, <1>5
    <3>2. \A b \in Blocks : disk'[b] \in Chunks \cup {Blank}
      BY <1>2, <3>1 DEF TypeOK
    <3> QED
      BY <3>2 DEF Filled
  <2>4. block_bitmap' \subseteq Blocks
    BY DEF Freed, Range, TypeOK
  <2>5. answer' \in Answers
    BY DEF Code, Answers
  <2> QED
    BY <2>2, <2>3, <2>4, <2>5 DEF TypeOK
<1>7. Taken' = Taken /\ Linked' = Linked
  BY DEF Taken, Linked
<1>8. FilesWritten'
  <2> SUFFICES ASSUME NEW j \in Inodes \ {Root}, NEW k \in DOMAIN blocks'[j]
               PROVE  disk'[blocks'[j][k]] \in Chunks
    BY DEF FilesWritten
  <2>1. CASE j = i
    <3>1. blocks'[j] = s /\ k \in DOMAIN s /\ k \in 1 .. Len(d)
      BY <1>4, <1>5, <2>1
    <3> QED
      BY <1>2, <1>5, <3>1
  <2>2. CASE j # i
    <3>1. blocks'[j] = blocks[j] /\ blocks[j][k] \in Blocks /\ blocks[j][k] \in Freed(i)
      BY <1>1, <1>4, <2>2, FreedBlocks DEF TypeOK
    <3>2. disk'[blocks[j][k]] = disk[blocks[j][k]]
      BY <1>2, <3>1
    <3> QED
      BY <2>2, <3>1, <3>2 DEF FilesWritten
  <2> QED
    BY <2>1, <2>2
<1> QED
  BY <1>3, <1>4, <1>6, <1>7, <1>8 DEF InodesLinked, RootKept, NamedByUsers

LEMMA WritePreserves ==
  ASSUME DiskInv, NEW n \in Names, NEW d \in Data, Write(n, d)
  PROVE  DiskInv'
<1>1. CASE answer' = Code(-1)
           /\ UNCHANGED <<inode_bitmap, block_bitmap, blocks, dir, disk>>
  BY <1>1, OnlyAnswers, CodeTyped
<1>2. ASSUME NEW i \in Inodes, Found(n, i), TooLarge(i), answer' = Code(-2),
             UNCHANGED <<inode_bitmap, dir, disk>>
      PROVE  DiskInv'
  BY <1>2, FoundIsLinked, TooLargePreserves
<1>3. ASSUME NEW i \in Inodes, Found(n, i), Fits(d),
             NEW s \in [1 .. BlocksGot(Len(d), Cardinality(Blocks \ Freed(i))) -> Blocks],
             FirstFrees(s, Freed(i), Blocks),
             blocks' = [blocks EXCEPT ![i] = s],
             block_bitmap' = Freed(i) \cup Range(s),
             disk' = Filled(s, d),
             answer' = Code(Len(s)), UNCHANGED <<inode_bitmap, dir>>
      PROVE  DiskInv'
  <2> DEFINE got == BlocksGot(Len(d), Cardinality(Blocks \ Freed(i)))
  <2>1. got \in Nat /\ got <= Len(d) /\ got <= DIRECT
    <3>1. Len(d) \in Nat /\ Cardinality(Blocks \ Freed(i)) \in Nat
      BY DataTyped, FreeCounted
    <3> HIDE DEF got
    <3>2. got \in {Len(d), Cardinality(Blocks \ Freed(i))} /\ got <= Len(d)
      BY <3>1 DEF BlocksGot, got
    <3> QED
      BY <1>3, <3>1, <3>2, Sizes DEF Fits
  <2>2. i \in inode_bitmap \ {Root}
    BY <1>3, FoundIsLinked
  <2>3. s \in [1 .. got -> Blocks]
    BY <1>3
  <2> HIDE DEF got
  <2>4. s \in Seq(Blocks) /\ Len(s) = got
    BY <2>1, <2>3
  <2> QED
    BY <1>3, <2>1, <2>2, <2>4, StoredPreserves
<1> QED
  BY <1>1, <1>2, <1>3 DEF Write

LEMMA DeletePreserves ==
  ASSUME DiskInv, NEW n \in Names, Delete(n)
  PROVE  DiskInv'
<1> USE DEF DiskInv
<1>1. CASE answer' = Code(-1)
           /\ UNCHANGED <<inode_bitmap, block_bitmap, blocks, dir, disk>>
  BY <1>1, OnlyAnswers, CodeTyped
<1>2. ASSUME NEW i \in Inodes, Found(n, i), block_bitmap' = Freed(i),
             blocks' = [blocks EXCEPT ![i] = <<>>], inode_bitmap' = inode_bitmap \ {i},
             dir' = Unlinked(i), answer' = Code(0), UNCHANGED disk
      PROVE  DiskInv'
  <2>1. i \in inode_bitmap /\ i # Root /\ \E j \in Taken : dir[j].inode = i
    BY <1>2, FoundIsLinked
  <2>2. PICK j \in Taken : dir[j].inode = i
    BY <2>1
  <2>3. j \in 1 .. SLOTS /\ i # EMPTY /\ \A k \in 1 .. SLOTS : dir[k].inode = i => k = j
    BY <2>2 DEF Taken, InodesLinked
  <2>4. \A k \in 1 .. SLOTS : dir'[k] = IF k = j THEN Vacant ELSE dir[k]
    <3>1. \A k \in 1 .. SLOTS : FirstSlot(k, {m \in 1 .. SLOTS : dir[m].inode = i}) <=> k = j
      BY <2>2, <2>3 DEF FirstSlot
    <3> QED
      BY <1>2, <3>1 DEF Unlinked
  <2>5. Taken' = Taken \ {j}
    BY <2>4 DEF Taken, Vacant
  <2>6. Linked' = Linked \ {i}
    BY <2>2, <2>3, <2>4, <2>5 DEF Linked, Taken
  <2>7. \A k \in Inodes : blocks'[k] = IF k = i THEN <<>> ELSE blocks[k]
    BY <1>2 DEF TypeOK
  <2>8. BlocksOwned'
    <3>1. <<>> \in Seq(Blocks) /\ DOMAIN <<>> = {} /\ block_bitmap' = Freed(i) \cup Range(<<>>)
      BY <1>2 DEF Range
    <3> QED
      BY <1>2, <3>1, BlocksReplaced
  <2>9. InodesLinked'
    <3>1. \A k, m \in 1 .. SLOTS :
            dir'[k].inode = dir'[m].inode /\ dir'[k].inode # EMPTY => k = m
      BY <2>4 DEF InodesLinked, Vacant
    <3> QED
      BY <1>2, <2>1, <2>6, <2>7, <3>1 DEF InodesLinked
  <2>10. TypeOK'
    <3>1. dir' \in [1 .. SLOTS -> [inode : Inodes \cup {EMPTY}, name : Names \cup {NoName}]]
      <4>1. dir' = [k \in 1 .. SLOTS |-> dir'[k]]
        BY <1>2 DEF Unlinked
      <4> QED
        BY <2>4, <4>1 DEF TypeOK, Vacant
    <3>2. blocks' \in [Inodes -> Seq(Blocks)] /\ \A k \in Inodes : Len(blocks'[k]) <= DIRECT
      BY <1>2, <2>7, Sizes DEF TypeOK
    <3> QED
      BY <1>2, <3>1, <3>2, CodeTyped DEF TypeOK, Freed
  <2>11. RootKept' /\ FilesWritten'
    BY <1>2, <2>1, <2>7, Sizes DEF RootKept, FilesWritten
  <2>12. NamedByUsers'
    BY <2>4, <2>5 DEF NamedByUsers, Taken
  <2> QED
    BY <2>8, <2>9, <2>10, <2>11, <2>12
<1> QED
  BY <1>1, <1>2 DEF Delete

LEMMA PrefixTyped ==
  ASSUME NEW S, NEW s \in Seq(S), NEW n \in Nat, n <= Len(s)
  PROVE  SubSeq(s, 1, n) \in [1 .. n -> S] /\ Len(SubSeq(s, 1, n)) = n
<1> DEFINE t == SubSeq(s, 1, n)
<1>1. \A k \in 1 .. n : s[k] \in S
  OBVIOUS
<1>2. 1 \in Int /\ n \in Int
  OBVIOUS
<1>3. t \in Seq(S) /\ Len(t) = IF 1 <= n THEN n - 1 + 1 ELSE 0
  BY <1>1, <1>2, SubSeqProperties
<1> HIDE DEF t
<1>4. t \in [1 .. n -> S] /\ Len(t) = n
  BY <1>3
<1> QED
  BY <1>4 DEF t

\* What a file holds, as far as the caller has room.
LEMMA ReadTyped ==
  ASSUME DiskInv, NEW i \in inode_bitmap \ {Root}, NEW room \in Nat
  PROVE  /\ ReadBlocks(i, room) \in 0 .. DIRECT /\ ReadBlocks(i, room) <= room
         /\ Content(i) \in Seq(Chunks) /\ Len(Content(i)) = Len(blocks[i])
         /\ SubSeq(Content(i), 1, ReadBlocks(i, room)) \in [1 .. ReadBlocks(i, room) -> Chunks]
<1>1. i \in Inodes /\ blocks[i] \in Seq(Blocks) /\ Len(blocks[i]) \in 0 .. DIRECT
  BY Sizes DEF DiskInv, TypeOK
<1>2. Content(i) \in [1 .. Len(blocks[i]) -> Chunks]
  BY <1>1 DEF DiskInv, FilesWritten, Content
<1>3. Content(i) \in Seq(Chunks) /\ Len(Content(i)) = Len(blocks[i])
  BY <1>1, <1>2
<1>4. /\ ReadBlocks(i, room) \in 0 .. DIRECT /\ ReadBlocks(i, room) <= room
      /\ ReadBlocks(i, room) <= Len(blocks[i])
  BY <1>1, Sizes DEF ReadBlocks
<1>5. SubSeq(Content(i), 1, ReadBlocks(i, room)) \in [1 .. ReadBlocks(i, room) -> Chunks]
  <2>1. Content(i) \in Seq(Chunks) /\ ReadBlocks(i, room) \in Nat
        /\ ReadBlocks(i, room) <= Len(Content(i))
    BY <1>1, <1>3, <1>4
  <2> QED
    BY <2>1, PrefixTyped
<1> QED
  BY <1>3, <1>4, <1>5

\* What a read returns.
Shorter(data, room) == data \in Seq(Chunks) /\ Len(data) <= room

LEMMA ReadPreserves ==
  ASSUME DiskInv, NEW n \in Names, NEW room \in Nat, Read(n, room)
  PROVE  DiskInv' /\ Shorter(answer'.data, room)
<1>1. CASE Missing(n) /\ answer' = Code(-1)
  <2>1. answer' \in Answers /\ answer'.data = <<>>
    BY <1>1, CodeTyped DEF Code
  <2> QED
    BY <2>1, OnlyAnswers DEF Read, Shorter
<1>2. ASSUME NEW i \in Inodes, Found(n, i),
             answer' = [code |-> ReadBlocks(i, room),
                        data |-> SubSeq(Content(i), 1, ReadBlocks(i, room))]
      PROVE  DiskInv' /\ Shorter(answer'.data, room)
  <2>1. i \in inode_bitmap \ {Root}
    BY <1>2, FoundIsLinked
  <2>2. /\ answer'.code \in 0 .. DIRECT /\ answer'.code <= room
        /\ answer'.data \in [1 .. answer'.code -> Chunks]
        /\ answer' = [code |-> answer'.code, data |-> answer'.data]
    BY <1>2, <2>1, ReadTyped
  <2>3. answer'.data \in Seq(Chunks) /\ Len(answer'.data) = answer'.code
    BY <2>2, Sizes
  <2>4. answer' \in Answers
    BY <2>2, <2>3, Sizes DEF Answers
  <2> QED
    BY <2>2, <2>3, <2>4, OnlyAnswers DEF Read, Shorter
<1> QED
  BY <1>1, <1>2 DEF Read

LEMMA ListPreserves ==
  ASSUME DiskInv, List
  PROVE  DiskInv'
<1>1. PICK taken \in [1 .. Cardinality(Taken) -> Taken] :
        answer' = [code |-> 0, data |-> [k \in DOMAIN taken |-> Shown(taken[k])]]
  BY DEF List
<1>2. Cardinality(Taken) \in Nat
  <2>1. IsFiniteSet(1 .. SLOTS)
    BY Sizes, FS_Interval
  <2>2. IsFiniteSet(Taken)
    BY <2>1, FS_Subset DEF Taken
  <2> QED
    BY <2>2, FS_CardinalityType
<1>3. \A j \in Taken : Shown(j) \in Names \cup LongNames \X (Inodes \cup {EMPTY})
  <2>1. SUFFICES ASSUME NEW j \in Taken
                 PROVE  Shown(j) \in Names \cup LongNames \X (Inodes \cup {EMPTY})
    OBVIOUS
  <2>2. dir[j].name \in Names /\ j \in 1 .. SLOTS /\ SLOTS \in Nat
    BY Sizes DEF DiskInv, NamedByUsers, Taken
  <2>3. CASE dir[j].name \in LongNames /\ j < SLOTS
    <3>1. j + 1 \in 1 .. SLOTS
      BY <2>2, <2>3
    <3>2. dir[j + 1].inode \in Inodes \cup {EMPTY}
      BY <3>1 DEF DiskInv, TypeOK
    <3> QED
      BY <2>3, <3>2 DEF Shown
  <2>4. CASE ~ (dir[j].name \in LongNames /\ j < SLOTS)
    BY <2>2, <2>4 DEF Shown
  <2> QED
    BY <2>3, <2>4
<1>4. [k \in DOMAIN taken |-> Shown(taken[k])] \in Seq(Chunks \cup Names \cup LongNames \X (Inodes \cup {EMPTY}))
  BY <1>2, <1>3
<1>5. answer' \in Answers
  BY <1>1, <1>4, Sizes DEF Answers
<1> QED
  BY <1>5, OnlyAnswers DEF List

LEMMA DiskStep ==
  ASSUME DiskInv, Next
  PROVE  DiskInv'
<1>1. ASSUME NEW n \in Names, NEW room \in 1 .. DIRECT, Read(n, room)
      PROVE  DiskInv'
  <2>1. room \in Nat
    BY Sizes
  <2> QED
    BY <1>1, <2>1, ReadPreserves
<1> QED
  BY <1>1, FormatPreserves, ListPreserves, CreatePreserves, DeletePreserves, WritePreserves
  DEF Next

-----------------------------------------------------------------------------
(* The editor                                                              *)

\* A buffer is data that can be saved.
LEMMA BufferTyped ==
  ASSUME NEW s \in Seq(Chunks), Len(s) <= MAX_LEN
  PROVE  s \in Data
<1>1. Len(s) \in 0 .. MAX_LEN /\ s \in [1 .. Len(s) -> Chunks]
  BY Sizes
<1> QED
  BY <1>1 DEF Data

LEMMA EditorInitSound == EditorInit => EditorInv
<1> SUFFICES ASSUME EditorInit
             PROVE  EditorInv
  OBVIOUS
<1>1. DiskInv
  BY InitSound DEF EditorInit
<1>2. buffer \in Data
  <2>1. <<>> \in Seq(Chunks) /\ Len(<<>>) <= MAX_LEN
    BY Sizes
  <2> QED
    BY <2>1, BufferTyped DEF EditorInit
<1> QED
  BY <1>1, <1>2 DEF EditorInit, EditorInv, EditorTypeOK, DiskInv

LEMMA OpenPreserves ==
  ASSUME EditorInv, NEW n \in Names, Open(n)
  PROVE  EditorInv'
<1>1. DiskInv' /\ Shorter(answer'.data, MAX_LEN)
  BY Sizes, ReadPreserves DEF Open, EditorInv
<1>2. buffer' \in Data
  BY <1>1, BufferTyped DEF Open, Shorter
<1> QED
  BY <1>1, <1>2 DEF Open, EditorInv, EditorTypeOK, DiskInv

LEMMA TypePreserves ==
  ASSUME EditorInv, NEW c \in Chunks, Type(c)
  PROVE  EditorInv'
<1>1. DiskInv'
  BY DEF Type, fvars, EditorInv, DiskInv, TypeOK, BlocksOwned, InodesLinked, Linked, Taken,
         RootKept, NamedByUsers, FilesWritten
<1>2. buffer' \in Data
  <2>1. buffer \in Seq(Chunks) /\ Len(buffer) \in 0 .. MAX_LEN /\ Len(buffer) < MAX_LEN
    BY DataTyped DEF EditorInv, EditorTypeOK, Type, HasRoom
  <2>2. Append(buffer, c) \in Seq(Chunks) /\ Len(Append(buffer, c)) = Len(buffer) + 1
    BY <2>1
  <2>3. Len(Append(buffer, c)) <= MAX_LEN
    BY <2>1, <2>2, Sizes
  <2> QED
    BY <2>2, <2>3, BufferTyped DEF Type
<1> QED
  BY <1>1, <1>2 DEF Type, EditorInv, EditorTypeOK, DiskInv

LEMMA BackspacePreserves ==
  ASSUME EditorInv, Backspace
  PROVE  EditorInv'
<1>1. DiskInv'
  BY DEF Backspace, fvars, EditorInv, DiskInv, TypeOK, BlocksOwned, InodesLinked, Linked, Taken,
         RootKept, NamedByUsers, FilesWritten
<1>2. buffer' \in Data
  <2>1. buffer \in Seq(Chunks) /\ Len(buffer) \in 1 .. MAX_LEN
    BY DataTyped DEF EditorInv, EditorTypeOK, Backspace
  <2>2. Len(buffer) - 1 \in Nat /\ Len(buffer) - 1 <= Len(buffer)
    BY <2>1, Sizes
  <2>3. Front(buffer) \in [1 .. Len(buffer) - 1 -> Chunks]
    BY <2>1, <2>2, PrefixTyped DEF Front
  <2>4. Front(buffer) \in Seq(Chunks) /\ Len(Front(buffer)) <= MAX_LEN
    BY <2>1, <2>2, <2>3, Sizes
  <2> QED
    BY <2>4, BufferTyped DEF Backspace
<1> QED
  BY <1>1, <1>2 DEF Backspace, EditorInv, EditorTypeOK, DiskInv

LEMMA EditorStep ==
  ASSUME EditorInv, [EditorNext]_evars
  PROVE  EditorInv'
<1>1. CASE Command
  BY <1>1, DiskStep DEF Command, EditorInv, EditorTypeOK, DiskInv
<1>2. CASE Save
  <2>1. editing \in Names /\ buffer \in Data
    BY <1>2 DEF Save, EditorInv, EditorTypeOK
  <2>2. DiskInv'
    BY <1>2, <2>1, WritePreserves DEF Save, ToSave, EditorInv
  <2> QED
    BY <1>2, <2>2 DEF Save, EditorInv, EditorTypeOK, DiskInv
<1>3. CASE Quit \/ UNCHANGED evars
  <2>1. UNCHANGED <<inode_bitmap, block_bitmap, blocks, dir, disk, answer>>
        /\ editing' \in {editing, NoName} /\ buffer' \in {buffer, <<>>}
        /\ saved' \in {saved, FALSE}
    BY <1>3 DEF Quit, evars, fvars
  <2>2. DiskInv'
    BY <2>1 DEF EditorInv, DiskInv, TypeOK, BlocksOwned, InodesLinked, Linked, Taken,
                RootKept, NamedByUsers, FilesWritten
  <2>3. <<>> \in Data
    <3>1. <<>> \in Seq(Chunks) /\ Len(<<>>) <= MAX_LEN
      BY Sizes
    <3> QED
      BY <3>1, BufferTyped
  <2> QED
    BY <2>1, <2>2, <2>3 DEF EditorInv, EditorTypeOK, DiskInv
<1> QED
  BY <1>1, <1>2, <1>3, OpenPreserves, TypePreserves, BackspacePreserves DEF EditorNext

LEMMA EditorInductive == EditorSpec => []EditorInv
<1>1. EditorInv /\ [EditorNext]_evars => EditorInv'
  BY EditorStep
<1> QED
  BY <1>1, EditorInitSound, PTL DEF EditorSpec

\* Every inode keeps at most DIRECT blocks of the disk, every answer is one the
\* shell expects, and the buffer of the editor never outgrows edit_buffer.
THEOREM EditorTypeCorrect == EditorSpec => []EditorTypeOK
<1>1. EditorInv => EditorTypeOK
  BY DEF EditorInv
<1> QED
  BY <1>1, EditorInductive, PTL

\* No block belongs to two files, or to two places of one, and none is lost,
\* through any sequence of writes, deletions, formats and edits.
THEOREM EveryBlockOwned == EditorSpec => []BlocksOwned
<1>1. EditorInv => BlocksOwned
  BY DEF EditorInv, DiskInv
<1> QED
  BY <1>1, EditorInductive, PTL

\* Every inode in use is the root or is named by exactly one entry, also after
\* creations that failed because the directory was full.
THEOREM EveryInodeLinked == EditorSpec => []InodesLinked
<1>1. EditorInv => InodesLinked
  BY DEF EditorInv, DiskInv
<1> QED
  BY <1>1, EditorInductive, PTL

-----------------------------------------------------------------------------
(* There is always room                                                    *)

LEMMA OneMore ==
  ASSUME NEW S, NEW x, IsFiniteSet(S)
  PROVE  /\ IsFiniteSet(S \cup {x})
         /\ Cardinality(S \cup {x}) <= Cardinality(S) + 1
         /\ Cardinality(S) \in Nat /\ Cardinality(S \cup {x}) \in Nat
<1>1. IsFiniteSet(S \cup {x})
      /\ Cardinality(S \cup {x}) = IF x \in S THEN Cardinality(S) ELSE Cardinality(S) + 1
  BY FS_AddElement
<1>2. Cardinality(S) \in Nat
  BY FS_CardinalityType
<1>3. Cardinality(S \cup {x}) \in {Cardinality(S), Cardinality(S) + 1}
  BY <1>1
<1> QED
  BY <1>1, <1>2, <1>3

LEMMA SlotsCounted ==
  /\ IsFiniteSet(1 .. SLOTS) /\ Cardinality(1 .. SLOTS) = SLOTS
  /\ IsFiniteSet(Taken) /\ Cardinality(Taken) \in 0 .. SLOTS
  /\ Cardinality(Taken) = SLOTS => Taken = 1 .. SLOTS
<1>1. IsFiniteSet(1 .. SLOTS) /\ Cardinality(1 .. SLOTS) = SLOTS
  BY Sizes, FS_Interval
<1>2. Taken \in SUBSET (1 .. SLOTS)
  BY DEF Taken
<1>3. /\ IsFiniteSet(Taken) /\ Cardinality(Taken) <= SLOTS
      /\ Cardinality(1 .. SLOTS) = Cardinality(Taken) => 1 .. SLOTS = Taken
  BY <1>1, <1>2, FS_Subset
<1>4. Cardinality(Taken) \in Nat
  BY <1>3, FS_CardinalityType
<1> QED
  BY <1>1, <1>3, <1>4, Sizes

\* fs_create never runs out of inodes: the directory is full before.
LEMMA InodesSuffice ==
  ASSUME DiskInv
  PROVE  ~ (Inodes \subseteq inode_bitmap)
<1> SUFFICES ASSUME Inodes \subseteq inode_bitmap
             PROVE  FALSE
  OBVIOUS
<1> DEFINE entry == [j \in Taken |-> dir[j].inode]
<1>1. entry \in Surjection(Taken, Linked)
  <2>1. entry \in [Taken -> Linked] /\ \A i \in Linked : \E j \in Taken : entry[j] = i
    BY DEF Linked
  <2> QED
    BY <2>1, Fun_IsSurj
<1> HIDE DEF entry
<1>2. IsFiniteSet(Linked) /\ Cardinality(Linked) <= Cardinality(Taken)
  BY <1>1, SlotsCounted, FS_Surjection
<1>3. /\ IsFiniteSet(Linked \cup {Root})
      /\ Cardinality(Linked \cup {Root}) <= Cardinality(Linked) + 1
      /\ Cardinality(Linked) \in Nat
  BY <1>2, OneMore
<1>4. Inodes \in SUBSET (Linked \cup {Root})
  BY DEF DiskInv, InodesLinked
<1>5. Cardinality(Inodes) <= Cardinality(Linked \cup {Root})
  BY <1>3, <1>4, FS_Subset
<1>6. Cardinality(Inodes) = INODES
  <2>1. Cardinality(0 .. INODES - 1) = IF 0 > INODES - 1 THEN 0 ELSE (INODES - 1) - 0 + 1
    BY Sizes, FS_Interval
  <2> QED
    BY <2>1, Sizes DEF Inodes
<1>7. Cardinality(Linked \cup {Root}) \in Nat /\ Cardinality(Taken) \in Nat
  BY <1>3, SlotsCounted, FS_CardinalityType
<1> QED
  BY <1>2, <1>3, <1>5, <1>6, <1>7, SlotsCounted, Sizes, SizesAssumption

\* Whatever the other files hold, a file gets all the blocks its inode can have.
LEMMA BlocksSuffice ==
  ASSUME DiskInv, NEW i \in inode_bitmap \ {Root}
  PROVE  Cardinality(Blocks \ Freed(i)) >= DIRECT
<1> USE Sizes
<1>1. PICK j \in Taken : dir[j].inode = i
  BY DEF DiskInv, InodesLinked, Linked
<1>2. j \in 1 .. SLOTS /\ i \in Inodes
  BY DEF Taken, DiskInv, TypeOK
<1> DEFINE others == (1 .. SLOTS) \ {j}
           places == others \X (1 .. DIRECT)
           held == [x \in places |->
                      IF dir[x[1]].inode # EMPTY /\ x[2] \in DOMAIN blocks[dir[x[1]].inode]
                      THEN blocks[dir[x[1]].inode][x[2]] ELSE 0]
\* Each block in use is the root's or at one of the places of the other files.
<1>3. ASSUME NEW b \in Freed(i), b # 0
      PROVE  \E x \in places : held[x] = b
  <2>1. PICK k \in Inodes \ {i} : \E m \in DOMAIN blocks[k] : blocks[k][m] = b
    BY <1>2, FreedBlocks
  <2>2. PICK m \in DOMAIN blocks[k] : blocks[k][m] = b
    BY <2>1
  <2>3. k # Root
    BY <1>3, <2>2 DEF DiskInv, RootKept
  <2>4. k \in inode_bitmap
    <3>1. blocks[k] # <<>>
      BY <2>2
    <3> QED
      BY <3>1 DEF DiskInv, InodesLinked
  <2>5. PICK l \in Taken : dir[l].inode = k
    BY <2>3, <2>4 DEF DiskInv, InodesLinked, Linked
  <2>6. l \in others /\ dir[l].inode # EMPTY
    BY <1>1, <2>5 DEF Taken
  <2>7. m \in 1 .. DIRECT
    <3>1. blocks[k] \in Seq(Blocks) /\ Len(blocks[k]) <= DIRECT
      BY DEF DiskInv, TypeOK
    <3> QED
      BY <2>2, <3>1
  <2>8. <<l, m>> \in places
    BY <2>6, <2>7
  <2>9. held[<<l, m>>] = b
    BY <2>2, <2>5, <2>6, <2>8
  <2> QED
    BY <2>8, <2>9
<1>4. IsFiniteSet(places) /\ Cardinality(places) = (SLOTS - 1) * DIRECT
  <2>1. IsFiniteSet(others) /\ Cardinality(others) = SLOTS - 1
    <3>1. /\ IsFiniteSet((1 .. SLOTS) \ {j})
          /\ Cardinality((1 .. SLOTS) \ {j}) =
               IF j \in 1 .. SLOTS THEN Cardinality(1 .. SLOTS) - 1 ELSE Cardinality(1 .. SLOTS)
      BY SlotsCounted, FS_RemoveElement
    <3>2. Cardinality((1 .. SLOTS) \ {j}) = Cardinality(1 .. SLOTS) - 1
      BY <1>2, <3>1
    <3> QED
      BY <3>1, <3>2, SlotsCounted
  <2>2. IsFiniteSet(1 .. DIRECT) /\ Cardinality(1 .. DIRECT) = DIRECT
    BY FS_Interval
  <2> HIDE DEF others
  <2> DEFINE width == 1 .. DIRECT
  <2> HIDE DEF width
  <2>3. /\ IsFiniteSet(others \X width)
        /\ Cardinality(others \X width) = Cardinality(others) * Cardinality(width)
    BY <2>1, <2>2, FS_Product, Zenon DEF width
  <2> QED
    BY <2>1, <2>2, <2>3, Zenon DEF width
<1> HIDE DEF places
<1>5. held \in [places -> Range(held)]
  BY DEF Range
<1>6. Freed(i) \subseteq Range(held) \cup {0}
  BY <1>3 DEF Range
<1> HIDE DEF held
<1>7. IsFiniteSet(Range(held)) /\ Cardinality(Range(held)) <= (SLOTS - 1) * DIRECT
  <2>1. held \in Surjection(places, Range(held))
    BY <1>5, Fun_RangeProperties
  <2> QED
    BY <1>4, <2>1, FS_Surjection
<1>8. /\ IsFiniteSet(Range(held) \cup {0})
      /\ Cardinality(Range(held) \cup {0}) <= Cardinality(Range(held)) + 1
      /\ Cardinality(Range(held)) \in Nat
  BY <1>7, OneMore
<1>9. IsFiniteSet(Freed(i)) /\ Cardinality(Freed(i)) <= Cardinality(Range(held) \cup {0})
  BY <1>6, <1>8, FS_Subset
<1>10. Cardinality(Freed(i)) \in Nat /\ Cardinality(Range(held) \cup {0}) \in Nat
  BY <1>8, <1>9, FS_CardinalityType
<1>11. Cardinality(Blocks \ Freed(i)) = BLOCKS - Cardinality(Freed(i))
  <2>1. Freed(i) \subseteq Blocks
    BY DEF DiskInv, TypeOK, Freed
  <2>2. IsFiniteSet(Blocks) /\ Cardinality(Blocks) = BLOCKS
    <3>1. Cardinality(0 .. BLOCKS - 1) = IF 0 > BLOCKS - 1 THEN 0 ELSE (BLOCKS - 1) - 0 + 1
      BY FS_Interval
    <3> QED
      BY <3>1, FS_Interval DEF Blocks
  <2>3. Blocks \cap Freed(i) = Freed(i)
    BY <2>1
  <2> QED
    BY <2>2, <2>3, FS_Difference
<1>12. (SLOTS - 1) * DIRECT = SLOTS * DIRECT - DIRECT /\ SLOTS * DIRECT < BLOCKS
       /\ SLOTS * DIRECT \in Nat
  BY SizesAssumption
<1> QED
  BY <1>7, <1>8, <1>9, <1>10, <1>11, <1>12

-----------------------------------------------------------------------------
(* The files a user sees, for names shorter than FS_MAX_NAME               *)

\* FileStore counts with the same operators of the library.
LEMMA SameLibrary ==
  /\ \A S : Store!Cardinality(S) = Cardinality(S)
  /\ \A s : Store!Range(s) = Range(s)
<1>1. ASSUME NEW S
      PROVE  Store!Cardinality(S) = Cardinality(S)
  BY DEF Store!Cardinality, Cardinality
<1>2. ASSUME NEW s
      PROVE  Store!Range(s) = Range(s)
  BY DEF Store!Range, Range
<1> QED
  BY <1>1, <1>2

\* Every entry in use is a file: its name, and what its inode holds.
FilesSeen ==
  /\ DOMAIN Files = {dir[j].name : j \in Taken}
  /\ Files = [m \in DOMAIN Files |-> Files[m]]
  /\ \A j \in Taken : Files[dir[j].name] = Content(dir[j].inode)

LEMMA FilesView == NamesUnique => FilesSeen
<1> SUFFICES ASSUME NamesUnique
             PROVE  FilesSeen
  OBVIOUS
<1>1. DOMAIN Files = {dir[j].name : j \in Taken} /\ Files = [m \in DOMAIN Files |-> Files[m]]
  BY DEF Files
<1>2. ASSUME NEW j \in Taken
      PROVE  Files[dir[j].name] = Content(dir[j].inode)
  <2>1. (CHOOSE k \in Taken : dir[k].name = dir[j].name) = j
    BY DEF NamesUnique
  <2> HIDE DEF Content
  <2> QED
    BY <2>1 DEF Files
<1> QED
  BY <1>1, <1>2 DEF FilesSeen

LEMMA FilesViewNext == NamesUnique' => FilesSeen'
BY FilesView, PTL

\* A name is found exactly if it is in the directory.
LEMMA ShortNames ==
  ASSUME LongNames = {}, NamesUnique, NEW n
  PROVE  /\ Missing(n) <=> n \notin DOMAIN Files
         /\ \A i : Found(n, i) => \E j \in Taken : dir[j].name = n /\ dir[j].inode = i
<1>1. \A j \in 1 .. SLOTS : Matches(j, n) <=> j \in Taken /\ dir[j].name = n
  BY DEF Matches, Taken
<1>2. DOMAIN Files = {dir[j].name : j \in Taken}
  BY FilesView DEF FilesSeen
<1>3. Missing(n) <=> n \notin DOMAIN Files
  BY <1>1, <1>2 DEF Missing, Taken
<1> QED
  BY <1>1, <1>3 DEF Found, FirstSlot

LEMMA SameFiles ==
  ASSUME UNCHANGED <<blocks, dir, disk>>
  PROVE  Files' = Files /\ (NamesUnique => NamesUnique')
BY DEF Files, Content, NamesUnique, Taken

\* What an inode holds as data that were written.
LEMMA ContentTyped ==
  ASSUME DiskInv, NEW j \in Taken
  PROVE  /\ dir[j].inode \in inode_bitmap \ {Root} /\ dir[j].inode \in Inodes
         /\ Content(dir[j].inode) \in Seq(Chunks)
         /\ Len(Content(dir[j].inode)) = Len(blocks[dir[j].inode])
         /\ Len(blocks[dir[j].inode]) \in 0 .. DIRECT
<1>1. dir[j].inode \in Linked
  BY DEF Linked
<1>2. dir[j].inode \in inode_bitmap \ {Root} /\ dir[j].inode \in Inodes
  BY <1>1 DEF DiskInv, InodesLinked, TypeOK
<1>3. Len(blocks[dir[j].inode]) \in 0 .. DIRECT
  BY <1>2, Sizes DEF DiskInv, TypeOK
<1>4. 1 \in Nat
  OBVIOUS
<1> QED
  BY <1>2, <1>3, <1>4, ReadTyped

LEMMA FormatFiles ==
  ASSUME Format
  PROVE  NamesUnique' /\ Store!Formatted
<1>1. Taken' = {}
  BY DEF Format, Taken, FreshDir, Vacant
<1>2. Files' = <<>>
  BY <1>1 DEF Files
<1> QED
  BY <1>1, <1>2 DEF NamesUnique, Store!Formatted, Format, Code, Store!Code

LEMMA FilesCounted ==
  ASSUME NamesUnique
  PROVE  IsFiniteSet(DOMAIN Files) /\ Cardinality(DOMAIN Files) = Cardinality(Taken)
<1> DEFINE name == [j \in Taken |-> dir[j].name]
<1>1. DOMAIN Files = {dir[j].name : j \in Taken}
  BY FilesView DEF FilesSeen
<1>2. name \in [Taken -> DOMAIN Files] /\ \A j, k \in Taken : name[j] = name[k] => j = k
  BY <1>1 DEF NamesUnique
<1>3. \A n \in DOMAIN Files : \E j \in Taken : name[j] = n
  BY <1>1
<1> HIDE DEF name
<1>4. name \in Bijection(Taken, DOMAIN Files)
  BY <1>2, <1>3, Fun_IsBij
<1>5. ExistsBijection(Taken, DOMAIN Files)
  BY <1>4 DEF ExistsBijection
<1> QED
  BY <1>5, SlotsCounted, FS_Bijection

LEMMA CreateFiles ==
  ASSUME DiskInv, NamesUnique, LongNames = {}, NEW n \in Names, Create(n)
  PROVE  NamesUnique' /\ Store!Created(n)
<1> USE DEF Store!Created, Store!Code, Code
<1>1. CASE /\ ~ Missing(n) \/ Inodes \subseteq inode_bitmap
           /\ answer' = Code(IF Missing(n) THEN -2 ELSE -1)
           /\ UNCHANGED <<inode_bitmap, block_bitmap, blocks, dir, disk>>
  BY <1>1, InodesSuffice, ShortNames, SameFiles
<1>2. ASSUME Missing(n), NEW i \in Inodes, FirstFree(i, inode_bitmap, Inodes),
             blocks' = [blocks EXCEPT ![i] = <<>>], UNCHANGED <<block_bitmap, disk>>,
             NEW j \in 1 .. SLOTS, dir[j].inode = EMPTY,
             dir' = [dir EXCEPT ![j] = [inode |-> i, name |-> n]], answer' = Code(0)
      PROVE  NamesUnique' /\ Store!Created(n)
  <2>1. n \notin DOMAIN Files
    BY <1>2, ShortNames
  <2>2. blocks[i] = <<>> /\ blocks' = blocks
    BY <1>2 DEF FirstFree, DiskInv, InodesLinked, TypeOK
  <2>3. \A k \in 1 .. SLOTS : dir'[k] = IF k = j THEN [inode |-> i, name |-> n] ELSE dir[k]
    BY <1>2 DEF DiskInv, TypeOK
  <2>4. Taken' = Taken \cup {j} /\ j \notin Taken /\ Taken \subseteq 1 .. SLOTS
    BY <1>2, <2>3, Sizes DEF Taken
  <2>5. FilesSeen
    BY FilesView
  <2>6. NamesUnique'
    BY <2>1, <2>3, <2>4, <2>5 DEF NamesUnique, FilesSeen
  <2>7. FilesSeen'
    BY <2>6, FilesViewNext
  <2>8. \A k : Content(k)' = Content(k)
    BY <1>2, <2>2 DEF Content
  <2>9. Content(i) = <<>>
    BY <2>2 DEF Content
  <2>10. DOMAIN Files' = DOMAIN Files \cup {n}
    BY <2>3, <2>4, <2>5, <2>7 DEF FilesSeen
  <2>11. Files'[n] = <<>>
    BY <2>3, <2>4, <2>7, <2>8, <2>9 DEF FilesSeen
  <2>12. \A m \in DOMAIN Files : Files'[m] = Files[m]
    BY <2>3, <2>4, <2>5, <2>7, <2>8 DEF FilesSeen
  <2>13. Files' = [m \in DOMAIN Files \cup {n} |-> IF m = n THEN <<>> ELSE Files[m]]
    BY <2>1, <2>7, <2>10, <2>11, <2>12 DEF FilesSeen
  <2>14. Store!Cardinality(DOMAIN Files) < SLOTS
    <3>1. Taken # 1 .. SLOTS
      BY <2>4
    <3> QED
      BY <3>1, SlotsCounted, FilesCounted, SameLibrary, Sizes
  <2>15. answer' = Store!Code(0)
    BY <1>2
  <2> QED
    BY <2>1, <2>6, <2>13, <2>14, <2>15
<1>3. ASSUME Missing(n), NEW i \in Inodes, FirstFree(i, inode_bitmap, Inodes),
             blocks' = [blocks EXCEPT ![i] = <<>>], UNCHANGED <<block_bitmap, disk, dir>>,
             \A j \in 1 .. SLOTS : dir[j].inode # EMPTY, answer' = Code(-3)
      PROVE  NamesUnique' /\ Store!Created(n)
  <2>1. UNCHANGED <<blocks, dir, disk>>
    BY <1>3 DEF FirstFree, DiskInv, InodesLinked, TypeOK
  <2>2. Taken = 1 .. SLOTS
    BY <1>3 DEF Taken
  <2>3. NamesUnique' /\ Files' = Files /\ n \notin DOMAIN Files
    BY <1>3, <2>1, ShortNames, SameFiles
  <2>4. Store!Cardinality(DOMAIN Files) = SLOTS
    BY <2>2, SlotsCounted, FilesCounted, SameLibrary
  <2>5. answer' = Store!Code(-3)
    BY <1>3
  <2> QED
    BY <2>3, <2>4, <2>5
<1> QED
  BY <1>1, <1>2, <1>3 DEF Create, FirstSlot

\* One file gets other contents and the others keep theirs.
LEMMA OneFileChanges ==
  ASSUME NamesUnique, UNCHANGED dir, NEW j \in Taken, NEW data,
         Content(dir[j].inode)' = data,
         \A k \in Taken \ {j} : Content(dir[k].inode)' = Content(dir[k].inode)
  PROVE  NamesUnique' /\ Files' = [Files EXCEPT ![dir[j].name] = data]
<1> HIDE DEF Content
<1>1. Taken' = Taken /\ NamesUnique'
  BY DEF Taken, NamesUnique
<1>2. FilesSeen /\ FilesSeen'
  BY <1>1, FilesView, FilesViewNext
<1>3. DOMAIN Files' = DOMAIN Files
  BY <1>1, <1>2 DEF FilesSeen
<1>4. Files'[dir[j].name] = data
  BY <1>1, <1>2 DEF FilesSeen
<1>5. ASSUME NEW m \in DOMAIN Files, m # dir[j].name
      PROVE  Files'[m] = Files[m]
  <2>1. PICK k \in Taken : dir[k].name = m
    BY <1>2 DEF FilesSeen
  <2>2. k # j
    BY <1>5, <2>1
  <2> QED
    BY <1>1, <1>2, <2>1, <2>2 DEF FilesSeen
<1>6. Files' = [m \in DOMAIN Files |-> IF m = dir[j].name THEN data ELSE Files[m]]
  BY <1>2, <1>3, <1>4, <1>5 DEF FilesSeen
<1> QED
  BY <1>1, <1>6

\* What another inode holds does not depend on what happens to inode i.
LEMMA OthersKept ==
  ASSUME DiskInv, NEW i \in Inodes, NEW l \in Inodes \ {i}, blocks'[l] = blocks[l],
         \A b \in Blocks : b \in Freed(i) => disk'[b] = disk[b]
  PROVE  Content(l)' = Content(l)
<1>1. blocks[l] \in Seq(Blocks)
  BY DEF DiskInv, TypeOK
<1>2. \A k \in DOMAIN blocks[l] : blocks[l][k] \in Blocks /\ blocks[l][k] \in Freed(i)
  BY <1>1, FreedBlocks
<1> QED
  BY <1>1, <1>2 DEF Content

LEMMA WriteFiles ==
  ASSUME DiskInv, NamesUnique, LongNames = {}, NEW n \in Names, NEW d \in Data, Write(n, d)
  PROVE  NamesUnique' /\ Store!Written(n, d)
<1>1. CASE /\ Missing(n) /\ answer' = Code(-1)
           /\ UNCHANGED <<inode_bitmap, block_bitmap, blocks, dir, disk>>
  BY <1>1, ShortNames, SameFiles DEF Store!Written, Store!Code, Code
<1>2. ASSUME NEW i \in Inodes, Found(n, i)
      PROVE  \E j \in Taken : /\ dir[j].name = n /\ dir[j].inode = i /\ n \in DOMAIN Files
                              /\ \A k \in Taken \ {j} : dir[k].inode \in Inodes \ {i}
  <2>1. PICK j \in Taken : dir[j].name = n /\ dir[j].inode = i
    BY <1>2, ShortNames
  <2>2. n \in DOMAIN Files
    BY <2>1, FilesView DEF FilesSeen
  <2>3. \A k \in Taken \ {j} : dir[k].inode \in Inodes \ {i}
    BY <2>1 DEF DiskInv, InodesLinked, TypeOK, Taken
  <2> QED
    BY <2>1, <2>2, <2>3
<1>3. ASSUME NEW i \in Inodes, Found(n, i), ~ Fits(d), TooLarge(i), answer' = Code(-2),
             UNCHANGED <<inode_bitmap, dir, disk>>
      PROVE  NamesUnique' /\ Store!Written(n, d)
  <2>1. PICK j \in Taken : /\ dir[j].name = n /\ dir[j].inode = i /\ n \in DOMAIN Files
                           /\ \A k \in Taken \ {j} : dir[k].inode \in Inodes \ {i}
    BY <1>2, <1>3
  <2>2. \A k \in Inodes : blocks'[k] = IF k = i THEN <<>> ELSE blocks[k]
    BY <1>3 DEF TooLarge, DiskInv, TypeOK
  <2>3. Content(dir[j].inode)' = <<>>
    BY <1>3, <2>1, <2>2 DEF Content
  <2>4. \A k \in Taken \ {j} : Content(dir[k].inode)' = Content(dir[k].inode)
    BY <1>3, <2>1, <2>2 DEF Content
  <2>5. NamesUnique' /\ Files' = [Files EXCEPT ![n] = <<>>]
    BY <1>3, <2>1, <2>3, <2>4, OneFileChanges
  <2> QED
    BY <1>3, <2>1, <2>5, DataTyped, Sizes DEF Store!Written, Store!Code, Code, Fits
<1>4. ASSUME NEW i \in Inodes, Found(n, i), Fits(d),
             NEW s \in [1 .. BlocksGot(Len(d), Cardinality(Blocks \ Freed(i))) -> Blocks],
             FirstFrees(s, Freed(i), Blocks),
             blocks' = [blocks EXCEPT ![i] = s],
             disk' = Filled(s, d),
             answer' = Code(Len(s)), UNCHANGED <<inode_bitmap, dir>>
      PROVE  NamesUnique' /\ Store!Written(n, d)
  <2>1. PICK j \in Taken : /\ dir[j].name = n /\ dir[j].inode = i /\ n \in DOMAIN Files
                           /\ \A k \in Taken \ {j} : dir[k].inode \in Inodes \ {i}
    BY <1>2, <1>4
  <2>2. Len(d) \in Nat /\ Len(d) <= DIRECT /\ d \in [1 .. Len(d) -> Chunks]
    BY <1>4, DataTyped DEF Fits
  <2>3. BlocksGot(Len(d), Cardinality(Blocks \ Freed(i))) = Len(d)
    <3>1. i \in inode_bitmap \ {Root}
      BY <1>4, FoundIsLinked
    <3>2. Len(d) <= Cardinality(Blocks \ Freed(i))
      <4>1. Cardinality(Blocks \ Freed(i)) \in Nat
        BY FreeCounted
      <4>2. Cardinality(Blocks \ Freed(i)) >= DIRECT
        BY <3>1, BlocksSuffice
      <4> QED
        BY <2>2, <4>1, <4>2, Sizes
    <3> QED
      BY <3>2 DEF BlocksGot
  <2>4. s \in [1 .. Len(d) -> Blocks]
    BY <1>4, <2>3
  <2>5. s \in Seq(Blocks) /\ Len(s) = Len(d) /\ DOMAIN s = 1 .. Len(d)
    BY <2>2, <2>4
  <2>6. /\ \A k \in DOMAIN s : disk'[s[k]] = d[k]
        /\ \A b \in Blocks : (\A k \in DOMAIN s : s[k] # b) => disk'[b] = disk[b]
        /\ \A k \in DOMAIN s : s[k] \notin Freed(i)
    BY <1>4, <2>5, ChunksStored
  <2>7. \A k \in Inodes : blocks'[k] = IF k = i THEN s ELSE blocks[k]
    BY <1>4 DEF DiskInv, TypeOK
  <2>8. Content(i)' = d
    BY <2>2, <2>5, <2>6, <2>7 DEF Content
  <2>9. \A b \in Blocks : b \in Freed(i) => disk'[b] = disk[b]
    BY <2>6
  <2>10. ASSUME NEW k \in Taken \ {j}
         PROVE  Content(dir[k].inode)' = Content(dir[k].inode)
    <3>1. dir[k].inode \in Inodes \ {i} /\ dir'[k] = dir[k]
      BY <1>4, <2>1
    <3>2. blocks'[dir[k].inode] = blocks[dir[k].inode]
      BY <2>7, <3>1
    <3>3. \A l \in Inodes \ {i} : blocks'[l] = blocks[l] => Content(l)' = Content(l)
      BY <2>9, OthersKept
    <3> QED
      BY <3>1, <3>2, <3>3 DEF Content
  <2>11. Content(dir[j].inode)' = d
    BY <1>4, <2>1, <2>8 DEF Content
  <2>12. NamesUnique' /\ Files' = [Files EXCEPT ![n] = d]
    BY <1>4, <2>1, <2>10, <2>11, OneFileChanges
  <2> QED
    BY <1>4, <2>1, <2>2, <2>5, <2>12 DEF Store!Written, Store!Code, Code
<1> QED
  BY <1>1, <1>3, <1>4 DEF Write

LEMMA DeleteFiles ==
  ASSUME DiskInv, NamesUnique, LongNames = {}, NEW n \in Names, Delete(n)
  PROVE  NamesUnique' /\ Store!Removed(n)
<1>1. CASE /\ Missing(n) /\ answer' = Code(-1)
           /\ UNCHANGED <<inode_bitmap, block_bitmap, blocks, dir, disk>>
  BY <1>1, ShortNames, SameFiles DEF Store!Removed, Store!Code, Code
<1>2. ASSUME NEW i \in Inodes, Found(n, i), blocks' = [blocks EXCEPT ![i] = <<>>],
             dir' = Unlinked(i), answer' = Code(0), UNCHANGED disk
      PROVE  NamesUnique' /\ Store!Removed(n)
  <2>1. PICK j \in Taken : dir[j].name = n /\ dir[j].inode = i
    BY <1>2, ShortNames
  <2>2. j \in 1 .. SLOTS /\ i # EMPTY /\ \A k \in 1 .. SLOTS : dir[k].inode = i => k = j
    BY <2>1 DEF Taken, DiskInv, InodesLinked
  <2>3. \A k \in 1 .. SLOTS : dir'[k] = IF k = j THEN Vacant ELSE dir[k]
    <3>1. \A k \in 1 .. SLOTS : FirstSlot(k, {m \in 1 .. SLOTS : dir[m].inode = i}) <=> k = j
      BY <2>1, <2>2 DEF FirstSlot
    <3> QED
      BY <1>2, <3>1 DEF Unlinked
  <2>4. Taken' = Taken \ {j} /\ \A k \in Taken' : k \in Taken /\ k # j /\ dir'[k] = dir[k]
    BY <2>3 DEF Taken, Vacant
  <2>5. NamesUnique'
    BY <2>4 DEF NamesUnique
  <2>6. FilesSeen /\ FilesSeen'
    BY <2>5, FilesView, FilesViewNext
  <2>7. DOMAIN Files' = DOMAIN Files \ {n}
    BY <2>1, <2>4, <2>6 DEF FilesSeen, NamesUnique
  <2>8. ASSUME NEW k \in Taken'
        PROVE  Content(dir[k].inode)' = Content(dir[k].inode)
    <3>1. dir[k].inode \in Inodes \ {i} /\ dir'[k] = dir[k]
      BY <2>2, <2>4, ContentTyped DEF Taken
    <3> QED
      BY <1>2, <3>1 DEF Content, DiskInv, TypeOK
  <2>9. ASSUME NEW m \in DOMAIN Files \ {n}
        PROVE  Files'[m] = Files[m]
    <3>1. PICK k \in Taken' : dir'[k].name = m
      <4>1. m \in DOMAIN Files'
        BY <2>7
      <4>2. DOMAIN Files' = {dir'[k].name : k \in Taken'}
        BY <2>6 DEF FilesSeen
      <4> QED
        BY <4>1, <4>2
    <3>2. Files'[m] = Content(dir[k].inode)' /\ Files[m] = Content(dir[k].inode)
      BY <2>4, <2>6, <3>1 DEF FilesSeen
    <3> QED
      BY <2>8, <3>2
  <2>10. Files' = [m \in DOMAIN Files \ {n} |-> Files[m]]
    BY <2>6, <2>7, <2>9 DEF FilesSeen
  <2>11. n \in DOMAIN Files
    BY <2>1, <2>6 DEF FilesSeen
  <2> QED
    BY <1>2, <2>5, <2>10, <2>11 DEF Store!Removed, Store!Code, Code
<1> QED
  BY <1>1, <1>2 DEF Delete

LEMMA ReadFiles ==
  ASSUME DiskInv, NamesUnique, LongNames = {}, NEW n \in Names, NEW room \in Nat,
         Read(n, room)
  PROVE  NamesUnique' /\ Store!ReadBack(n, room)
<1>1. NamesUnique' /\ Files' = Files
  BY SameFiles DEF Read
<1>2. CASE Missing(n) /\ answer' = Code(-1)
  BY <1>1, <1>2, ShortNames DEF Store!ReadBack, Store!Code, Code
<1>3. ASSUME NEW i \in Inodes, Found(n, i),
             answer' = [code |-> ReadBlocks(i, room),
                        data |-> SubSeq(Content(i), 1, ReadBlocks(i, room))]
      PROVE  NamesUnique' /\ Store!ReadBack(n, room)
  <2>1. PICK j \in Taken : dir[j].name = n /\ dir[j].inode = i
    BY <1>3, ShortNames
  <2>2. n \in DOMAIN Files /\ Files[n] = Content(i)
    BY <2>1, FilesView DEF FilesSeen
  <2>3. /\ Content(i) \in Seq(Chunks) /\ Len(Content(i)) = Len(blocks[i])
        /\ i \in inode_bitmap \ {Root}
    BY <2>1, ContentTyped
  <2>4. SubSeq(Content(i), 1, ReadBlocks(i, room)) = Store!Seen(Files[n], room)
    <3>1. ReadBlocks(i, room) = IF Len(Files[n]) < room THEN Len(Files[n]) ELSE room
      BY <2>2, <2>3 DEF ReadBlocks
    <3> QED
      BY <2>2, <3>1 DEF Store!Seen
  <2>5. Len(SubSeq(Content(i), 1, ReadBlocks(i, room))) = ReadBlocks(i, room)
    <3>1. ReadBlocks(i, room) \in Nat /\ ReadBlocks(i, room) <= Len(Content(i))
      <4>1. Len(Content(i)) \in Nat
        BY <2>3
      <4>2. Len(blocks[i]) \in Nat
        BY <2>3, <4>1
      <4> QED
        BY <2>3, <4>2 DEF ReadBlocks
    <3> QED
      BY <2>3, <3>1, PrefixTyped
  <2> QED
    BY <1>1, <1>3, <2>2, <2>4, <2>5 DEF Store!ReadBack
<1> QED
  BY <1>2, <1>3 DEF Read

LEMMA ListFiles ==
  ASSUME DiskInv, NamesUnique, LongNames = {}, List
  PROVE  NamesUnique' /\ Store!Listed
<1>1. NamesUnique' /\ Files' = Files
  BY SameFiles DEF List
<1>2. PICK taken \in [1 .. Cardinality(Taken) -> Taken] :
        /\ Range(taken) = Taken
        /\ answer' = [code |-> 0, data |-> [k \in DOMAIN taken |-> Shown(taken[k])]]
  BY DEF List
<1> DEFINE s == [k \in DOMAIN taken |-> Shown(taken[k])]
<1>3. s = [k \in DOMAIN taken |-> dir[taken[k]].name] /\ DOMAIN s = DOMAIN taken
  BY DEF Shown
<1>4. DOMAIN Files = {dir[j].name : j \in Taken}
  BY FilesView DEF FilesSeen
<1>5. s \in [1 .. Cardinality(DOMAIN Files) -> DOMAIN Files]
  <2>1. DOMAIN s = 1 .. Cardinality(DOMAIN Files)
    BY <1>3, FilesCounted
  <2>2. \A k \in DOMAIN s : s[k] \in DOMAIN Files
    BY <1>3, <1>4
  <2> QED
    BY <1>3, <2>1, <2>2
<1>6. Range(s) = DOMAIN Files
  BY <1>2, <1>3, <1>4 DEF Range
<1>7. answer' = [code |-> 0, data |-> s]
  BY <1>2
<1> HIDE DEF s
<1> QED
  BY <1>1, <1>5, <1>6, <1>7, SameLibrary DEF Store!Listed

-----------------------------------------------------------------------------
(* The disk is a store of named files                                      *)

\* The whole invariant for short names.  [SAVED] is shown inside the editor only.
ShortInv ==
  /\ EditorInv /\ NamesUnique
  /\ saved => editing # NoName
  /\ SavedMeans

LEMMA ShortInitSound == EditorInit => ShortInv /\ Store!Init
<1> SUFFICES ASSUME EditorInit
             PROVE  ShortInv /\ Store!Init
  OBVIOUS
<1>1. Taken = {}
  BY DEF EditorInit, Init, Taken, FreshDir, Vacant
<1>2. Files = <<>> /\ NamesUnique
  BY <1>1 DEF Files, NamesUnique
<1>3. ~ saved /\ SavedMeans
  BY DEF SavedMeans, EditorInit
<1>4. Store!Init
  BY <1>2 DEF Store!Init, Store!Code, Code, EditorInit, Init
<1> QED
  BY <1>2, <1>3, <1>4, EditorInitSound DEF ShortInv

\* Every call of a command is the call of the store with the same name.
LEMMA CommandStores ==
  ASSUME ShortInv, LongNames = {}, Next
  PROVE  NamesUnique' /\ Store!Next
<1>1. DiskInv /\ NamesUnique
  BY DEF ShortInv, EditorInv
<1>2. CASE Format
  BY <1>2, FormatFiles DEF Store!Next
<1>3. CASE List
  BY <1>1, <1>3, ListFiles DEF Store!Next
<1>4. ASSUME NEW n \in Names, Create(n) \/ Delete(n)
      PROVE  NamesUnique' /\ Store!Next
  BY <1>1, <1>4, CreateFiles, DeleteFiles DEF Store!Next
<1>5. ASSUME NEW n \in Names, NEW d \in Data, Write(n, d)
      PROVE  NamesUnique' /\ Store!Next
  BY <1>1, <1>5, WriteFiles DEF Store!Next
<1>6. ASSUME NEW n \in Names, NEW room \in 1 .. DIRECT, Read(n, room)
      PROVE  NamesUnique' /\ Store!Next
  <2>1. room \in Nat
    BY Sizes
  <2> QED
    BY <1>1, <1>6, <2>1, ReadFiles DEF Store!Next
<1> QED
  BY <1>2, <1>3, <1>4, <1>5, <1>6 DEF Next

\* The editor asks for a whole buffer, which is a read of at most DIRECT blocks.
LEMMA OpenStores ==
  ASSUME ShortInv, LongNames = {}, NEW n \in Names, Open(n)
  PROVE  NamesUnique' /\ Store!Next
<1> DEFINE room == IF MAX_LEN <= DIRECT THEN MAX_LEN ELSE DIRECT
<1>1. room \in 1 .. DIRECT /\ room \in Nat
  BY Sizes
<1>2. DiskInv /\ NamesUnique /\ Read(n, MAX_LEN)
  BY DEF ShortInv, EditorInv, Open
<1>3. \A i \in Inodes : ReadBlocks(i, MAX_LEN) = ReadBlocks(i, room)
  <2>1. \A i \in Inodes : Len(blocks[i]) \in Nat /\ Len(blocks[i]) <= DIRECT
    BY <1>2 DEF DiskInv, TypeOK
  <2> QED
    BY <2>1, Sizes DEF ReadBlocks
<1>4. Read(n, room)
  BY <1>2, <1>3 DEF Read
<1> HIDE DEF room
<1> QED
  BY <1>1, <1>2, <1>4, ReadFiles DEF Store!Next

LEMMA SaveStores ==
  ASSUME ShortInv, LongNames = {}, Save
  PROVE  /\ NamesUnique' /\ Store!Next
         /\ saved' => editing' # NoName
         /\ SavedMeans'
<1>1. /\ DiskInv /\ NamesUnique /\ editing \in Names /\ editing # NoName /\ buffer \in Data
      /\ Write(editing, buffer) /\ UNCHANGED <<editing, buffer>>
  BY DEF ShortInv, EditorInv, EditorTypeOK, Save, ToSave
<1>2. NamesUnique' /\ Store!Written(editing, buffer)
  BY <1>1, WriteFiles
<1>3. Store!Next
  BY <1>1, <1>2 DEF Store!Next
<1>4. Len(buffer) \in Nat /\ DIRECT \in Nat
  BY <1>1, DataTyped, Sizes
<1>5. \/ editing \notin DOMAIN Files' /\ answer' = Code(-1)
      \/ /\ editing \in DOMAIN Files' /\ Len(buffer) <= DIRECT
         /\ Files'[editing] = buffer /\ answer' = Code(Len(buffer))
      \/ /\ editing \in DOMAIN Files' /\ Len(buffer) > DIRECT
         /\ Files'[editing] = <<>> /\ answer' = Code(-2)
  <2>1. CASE editing \notin DOMAIN Files
    BY <1>2, <2>1 DEF Store!Written, Store!Code, Code
  <2>2. CASE editing \in DOMAIN Files /\ Len(buffer) <= DIRECT
    <3>1. Files' = [Files EXCEPT ![editing] = buffer] /\ answer' = Code(Len(buffer))
      BY <1>2, <1>4, <2>2 DEF Store!Written, Store!Code, Code
    <3> QED
      BY <2>2, <3>1
  <2>3. CASE editing \in DOMAIN Files /\ Len(buffer) > DIRECT
    <3>1. Files' = [Files EXCEPT ![editing] = <<>>] /\ answer' = Code(-2)
      BY <1>2, <1>4, <2>3 DEF Store!Written, Store!Code, Code
    <3> QED
      BY <2>3, <3>1
  <2> QED
    BY <1>4, <2>1, <2>2, <2>3
<1> QED
  BY <1>1, <1>2, <1>3, <1>5 DEF SavedMeans, Code

LEMMA ShortStep ==
  ASSUME ShortInv, LongNames = {}, [EditorNext]_evars
  PROVE  ShortInv' /\ [Store!Next]_(Store!svars)
<1>1. EditorInv'
  BY EditorStep DEF ShortInv
<1>2. CASE Command
  <2>1. NamesUnique' /\ Store!Next
    BY <1>2, CommandStores DEF Command
  <2>2. editing' = NoName /\ ~ saved'
    BY <1>2 DEF Command, ShortInv
  <2> QED
    BY <1>1, <2>1, <2>2 DEF ShortInv, SavedMeans
<1>3. ASSUME NEW n \in Names, Open(n)
      PROVE  ShortInv' /\ Store!Next
  <2>1. NamesUnique' /\ Store!Next
    BY <1>3, OpenStores
  <2> QED
    BY <1>1, <1>3, <2>1 DEF ShortInv, SavedMeans, Open
<1>4. CASE Save
  BY <1>1, <1>4, SaveStores DEF ShortInv
<1>5. ASSUME UNCHANGED fvars, saved' = FALSE \/ UNCHANGED <<editing, buffer, saved>>
      PROVE  ShortInv' /\ UNCHANGED Store!svars
  <2>1. UNCHANGED <<blocks, dir, disk, answer>>
    BY <1>5 DEF fvars
  <2>2. NamesUnique' /\ Files' = Files
    BY <2>1, SameFiles DEF ShortInv
  <2> QED
    BY <1>1, <1>5, <2>1, <2>2 DEF ShortInv, SavedMeans, Store!svars
<1>6. ASSUME \/ \E c \in Chunks : Type(c)
             \/ Backspace \/ Quit \/ UNCHANGED evars
      PROVE  ShortInv' /\ UNCHANGED Store!svars
  BY <1>5, <1>6 DEF Type, Backspace, Quit, evars
<1> QED
  BY <1>2, <1>3, <1>4, <1>6 DEF EditorNext

\* As long as [SAVED] stands on the screen, the file holds exactly what the buffer
\* holds, unless there is no such file or the buffer is longer than a file may be,
\* which the ignored result of the write says: the disk is never full for it.
THEOREM SavedIsStored ==
  ASSUME LongNames = {}
  PROVE  EditorSpec => []SavedMeans
<1>1. EditorInit => ShortInv
  BY ShortInitSound
<1>2. ShortInv /\ [EditorNext]_evars => ShortInv'
  BY ShortStep
<1>3. ShortInv => SavedMeans
  BY DEF ShortInv
<1> QED
  BY <1>1, <1>2, <1>3, PTL DEF EditorSpec

\* The RAM disk under the shell and the editor implements a store of named
\* files: no inode, block or entry shows through.
THEOREM DiskStoresFiles ==
  ASSUME LongNames = {}
  PROVE  EditorSpec => StoresFiles
<1>1. EditorInit => ShortInv /\ Store!Init
  BY ShortInitSound
<1>2. ShortInv /\ [EditorNext]_evars => ShortInv' /\ [Store!Next]_(Store!svars)
  BY ShortStep
<1> QED
  BY <1>1, <1>2, PTL DEF EditorSpec, StoresFiles, Store!Spec
=============================================================================
