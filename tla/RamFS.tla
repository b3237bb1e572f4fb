------------------------------- MODULE RamFS --------------------------------
(***************************************************************************)
(* The RAM disk of fs.c: an inode bitmap, a block bitmap, inodes with      *)
(* direct block pointers and a root directory of one block.  Inode 0 is    *)
(* the root and block 0 holds its entries; neither is ever freed.          *)
(*                                                                         *)
(* A bitmap is the set of the positions of its bits that are set.  Data    *)
(* are sequences of chunks, one for each block they take, so the size of a *)
(* file is the number of its blocks.  Every call is one step: it comes     *)
(* from the shell's ecall and the trap handler runs with interrupts off.   *)
(***************************************************************************)
EXTENDS Integers, Sequences, SequencesExt, FiniteSets

CONSTANTS
  INODES,      \* FS_MAX_INODES
  BLOCKS,      \* FS_MAX_BLOCKS
  DIRECT,      \* block pointers in an inode
  SLOTS,       \* directory entries in a block
  Names,       \* the names users give to files
  LongNames,   \* those of exactly FS_MAX_NAME characters
  Chunks,      \* what a block may hold
  MAX_LEN,     \* bound of the model on the data of one write, in chunks
  Blank, NoName

EMPTY == 65535   \* 0xFFFF in an entry: no inode has this number

\* 32 inodes, 128 blocks, 6 pointers, 8 entries: beside the root and a file for
\* every entry there is an inode left, so a creation is never refused for want
\* of one, and every file may have all its blocks.
ASSUME SizesAssumption ==
  /\ {INODES, BLOCKS, DIRECT, SLOTS, MAX_LEN} \subseteq Nat \ {0}
  /\ SLOTS + 1 < INODES /\ INODES <= EMPTY
  /\ SLOTS * DIRECT < BLOCKS
ASSUME NamesAssumption ==
  LongNames \subseteq Names /\ NoName \notin Names /\ Blank \notin Chunks

VARIABLES
  inode_bitmap,  \* inodes in use
  block_bitmap,  \* blocks in use
  blocks,        \* the blocks of each inode, in order
  dir,           \* the entries of the root directory
  disk,          \* the data blocks
  answer         \* what the last call returned

fvars == <<inode_bitmap, block_bitmap, blocks, dir, disk, answer>>

Inodes == 0 .. INODES - 1
Blocks == 0 .. BLOCKS - 1
Root   == 0
Vacant == [inode |-> EMPTY, name |-> NoName]
Data   == UNION {[1 .. k -> Chunks] : k \in 0 .. MAX_LEN}
Code(c) == [code |-> c, data |-> <<>>]

-----------------------------------------------------------------------------
(* Helpers                                                                 *)

\* alloc_bit(): b is the first position of positions whose bit is clear.
FirstFree(b, bitmap, positions) ==
  /\ b \in positions \ bitmap
  /\ \A c \in positions \ bitmap : b <= c

\* s lists what alloc_bit() returns when it is called Len(s) times.
FirstFrees(s, bitmap, positions) ==
  /\ \A i \in DOMAIN s : FirstFree(s[i], bitmap \cup {s[j] : j \in 1 .. i - 1}, positions)

\* The comparison of find_inode_by_name.  A name of FS_MAX_NAME characters is
\* stored without its terminator: the comparison runs on into the inode number
\* of the next entry, which is never 0, or past the last entry, where a zero
\* ends it.
Matches(j, n) ==
  /\ dir[j].inode # EMPTY
  /\ dir[j].name = n
  /\ n \in LongNames => j = SLOTS

FirstSlot(j, P) == j \in P /\ \A k \in P : j <= k

\* find_inode_by_name(n) = i
Found(n, i) ==
  \E j \in 1 .. SLOTS : /\ FirstSlot(j, {k \in 1 .. SLOTS : Matches(k, n)})
                        /\ i = dir[j].inode

Missing(n) == \A j \in 1 .. SLOTS : ~ Matches(j, n)

\* Bits left set (mutant of Freed).
FreedNothing(i) == block_bitmap

\* The block bitmap after the blocks of inode i are freed.
Freed(i) == block_bitmap \ Range(blocks[i])

-----------------------------------------------------------------------------
(* fs_format, fs_create, fs_write, fs_read, fs_delete                      *)

FreshBlocks == [i \in Inodes |-> IF i = Root THEN <<0>> ELSE <<>>]
FreshDir    == [j \in 1 .. SLOTS |-> Vacant]
FreshDisk   == [b \in Blocks |-> Blank]

\* fs_init() formats the new disk.
Init ==
  /\ inode_bitmap = {Root}
  /\ block_bitmap = {0}
  /\ blocks = FreshBlocks
  /\ dir = FreshDir
  /\ disk = FreshDisk
  /\ answer = Code(0)

\* SYS_FS_FORMAT
Format ==
  /\ inode_bitmap' = {Root}
  /\ block_bitmap' = {0}
  /\ blocks' = FreshBlocks
  /\ dir' = FreshDir
  /\ disk' = FreshDisk
  /\ answer' = Code(0)

\* The inode kept when the directory is full (mutant of InodesAfterFullDir).
InodeKept(i) == inode_bitmap \cup {i}

\* The inode of a file that found no entry is given back.
InodesAfterFullDir(i) == inode_bitmap

Create(n) ==
  \/ /\ ~ Missing(n) \/ Inodes \subseteq inode_bitmap
     /\ answer' = Code(IF Missing(n) THEN -2 ELSE -1)
     /\ UNCHANGED <<inode_bitmap, block_bitmap, blocks, dir, disk>>
  \/ /\ Missing(n)
     /\ \E i \in Inodes :
          /\ FirstFree(i, inode_bitmap, Inodes)
          /\ blocks' = [blocks EXCEPT ![i] = <<>>]
          /\ UNCHANGED <<block_bitmap, disk>>
          /\ \/ \E j \in 1 .. SLOTS :
                  /\ FirstSlot(j, {k \in 1 .. SLOTS : dir[k].inode = EMPTY})
                  /\ dir' = [dir EXCEPT ![j] = [inode |-> i, name |-> n]]
                  /\ inode_bitmap' = inode_bitmap \cup {i}
                  /\ answer' = Code(0)
             \/ /\ \A j \in 1 .. SLOTS : dir[j].inode # EMPTY
                /\ inode_bitmap' = InodesAfterFullDir(i)
                /\ answer' = Code(-3)
                /\ UNCHANGED dir

\* The old blocks are freed before the size is checked.
TooLarge(i) ==
  /\ blocks' = [blocks EXCEPT ![i] = <<>>]
  /\ block_bitmap' = Freed(i)

\* The data need no more blocks than an inode has pointers.
Fits(d) == Len(d) <= DIRECT

\* How many blocks a write of k chunks gets; the loop breaks on a full disk.
BlocksGot(k, free) == IF k <= free THEN k ELSE free

\* The disk after the chunks of d are copied into the blocks of s.
Filled(s, d) ==
  [b \in Blocks |-> IF b \in Range(s) THEN d[CHOOSE k \in DOMAIN s : s[k] = b] ELSE disk[b]]

Write(n, d) ==
  \/ /\ Missing(n)
     /\ answer' = Code(-1)
     /\ UNCHANGED <<inode_bitmap, block_bitmap, blocks, dir, disk>>
  \/ \E i \in Inodes :
       /\ Found(n, i)
       /\ ~ Fits(d)
       /\ TooLarge(i)
       /\ answer' = Code(-2)
       /\ UNCHANGED <<inode_bitmap, dir, disk>>
  \/ \E i \in Inodes :
       /\ Found(n, i)
       /\ Fits(d)
       /\ \E s \in [1 .. BlocksGot(Len(d), Cardinality(Blocks \ Freed(i))) -> Blocks] :
            /\ FirstFrees(s, Freed(i), Blocks)
            /\ blocks' = [blocks EXCEPT ![i] = s]
            /\ block_bitmap' = Freed(i) \cup Range(s)
            /\ disk' = Filled(s, d)
            /\ answer' = Code(Len(s))
       /\ UNCHANGED <<inode_bitmap, dir>>

\* What inode i holds.
Content(i) == [k \in DOMAIN blocks[i] |-> disk[blocks[i][k]]]

\* The loop stops at the end of the file or of the caller's buffer.
ReadBlocks(i, room) == IF Len(blocks[i]) < room THEN Len(blocks[i]) ELSE room

Read(n, room) ==
  /\ \/ Missing(n) /\ answer' = Code(-1)
     \/ \E i \in Inodes :
          /\ Found(n, i)
          /\ answer' = [code |-> ReadBlocks(i, room),
                        data |-> SubSeq(Content(i), 1, ReadBlocks(i, room))]
  /\ UNCHANGED <<inode_bitmap, block_bitmap, blocks, dir, disk>>

\* The entries in use.
Taken == {j \in 1 .. SLOTS : dir[j].inode # EMPTY}

\* fs_list() copies the name of entry j up to its terminator: one of FS_MAX_NAME
\* characters runs on into the inode number of the next entry.  There it ends: the
\* high byte of a number in use is 0, and behind EMPTY stands a name that begins
\* with 0, as behind the last entry does the block.
Shown(j) ==
  IF dir[j].name \in LongNames /\ j < SLOTS THEN <<dir[j].name, dir[j + 1].inode>>
                                            ELSE dir[j].name

\* SYS_FS_LIST.  The buffer of cmd_ls has room for all entries.
List ==
  /\ \E taken \in [1 .. Cardinality(Taken) -> Taken] :
       /\ Range(taken) = Taken
       /\ \A k, m \in DOMAIN taken : k < m => taken[k] < taken[m]
       /\ answer' = [code |-> 0, data |-> [k \in DOMAIN taken |-> Shown(taken[k])]]
  /\ UNCHANGED <<inode_bitmap, block_bitmap, blocks, dir, disk>>

\* The entry stays (mutant of Unlinked).
UnlinkedNot(i) == dir

\* The first entry that names inode i is made vacant.
Unlinked(i) ==
  [j \in 1 .. SLOTS |->
     IF FirstSlot(j, {k \in 1 .. SLOTS : dir[k].inode = i}) THEN Vacant ELSE dir[j]]

Delete(n) ==
  \/ /\ Missing(n)
     /\ answer' = Code(-1)
     /\ UNCHANGED <<inode_bitmap, block_bitmap, blocks, dir, disk>>
  \/ \E i \in Inodes :
       /\ Found(n, i)
       /\ block_bitmap' = Freed(i)
       /\ blocks' = [blocks EXCEPT ![i] = <<>>]
       /\ inode_bitmap' = inode_bitmap \ {i}
       /\ dir' = Unlinked(i)
       /\ answer' = Code(0)
       /\ UNCHANGED disk

Next ==
  \/ Format \/ List
  \/ \E n \in Names : Create(n) \/ Delete(n)
  \/ \E n \in Names, d \in Data : Write(n, d)
  \/ \E n \in Names, room \in 1 .. DIRECT : Read(n, room)

Spec == Init /\ [][Next]_fvars

-----------------------------------------------------------------------------
(* Properties                                                              *)

Linked == {dir[j].inode : j \in Taken}

Answers == [code : -3 .. DIRECT, data : Seq(Chunks \cup Names \cup LongNames \X (Inodes \cup {EMPTY}))]

TypeOK ==
  /\ inode_bitmap \subseteq Inodes
  /\ block_bitmap \subseteq Blocks
  /\ blocks \in [Inodes -> Seq(Blocks)]
  /\ \A i \in Inodes : Len(blocks[i]) <= DIRECT
  /\ dir \in [1 .. SLOTS -> [inode : Inodes \cup {EMPTY}, name : Names \cup {NoName}]]
  /\ disk \in [Blocks -> Chunks \cup {Blank}]
  /\ answer \in Answers

\* Every block marked used is the block of exactly one place of one inode, and
\* the other way round: over any sequence of writes and deletions no block is
\* shared and none is lost.
BlocksOwned ==
  /\ block_bitmap = UNION {Range(blocks[i]) : i \in Inodes}
  /\ \A i, j \in Inodes : \A k \in DOMAIN blocks[i], m \in DOMAIN blocks[j] :
       blocks[i][k] = blocks[j][m] => i = j /\ k = m

\* Every inode in use is the root or is named by exactly one entry, and no
\* free inode is named or keeps blocks, also after a creation that failed
\* because the directory was full.
InodesLinked ==
  /\ inode_bitmap = {Root} \cup Linked
  /\ Root \notin Linked
  /\ \A j, k \in 1 .. SLOTS :
       dir[j].inode = dir[k].inode /\ dir[j].inode # EMPTY => j = k
  /\ \A i \in Inodes \ inode_bitmap : blocks[i] = <<>>

\* fs_create refuses a name that exists ("Ja existe"): no two entries of the
\* directory have the same name.
NamesUnique ==
  \A j, k \in Taken : dir[j].name = dir[k].name => j = k

\* The files a user sees: the names of the directory with what their inodes hold.
Files == [n \in {dir[j].name : j \in Taken} |->
            Content(dir[CHOOSE j \in Taken : dir[j].name = n].inode)]

Store == INSTANCE FileStore WITH files <- Files, answer <- answer,
                                 MAX_FILES <- SLOTS, MAX_CHUNKS <- DIRECT

\* The disk is a store of named files: what a read returns is what the last
\* write to that name stored, whatever blocks and inodes were reused since, a
\* listing shows every file once, and the disk is never full for a file that
\* may be written (FileStore).
StoresFiles == Store!Spec
=============================================================================
