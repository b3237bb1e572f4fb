-------------------------------- MODULE Heap --------------------------------
(***************************************************************************)
(* The kernel heap of mm.c: a list of blocks, first fit with splitting,    *)
(* kfree, and the explicit kheap_defrag().                                 *)
(*                                                                         *)
(* The linked list is the sequence blocks: element i+1 is the next of      *)
(* element i.  addr is the offset of the header from heap_start; the data  *)
(* of a block start BLOCK_SIZE bytes further.                              *)
(*                                                                         *)
(* kfree believes in a block when the word in front of the pointer holds   *)
(* the magic number, so the words that hold it are part of the state: the  *)
(* canary of each header, and those that kheap_defrag and a reboot leave   *)
(* behind.  The users fill what they own, with anything but the magic      *)
(* number, and free any pointer, their own or not (the command "free       *)
(* <addr>" of the shell).                                                  *)
(*                                                                         *)
(* The only user at run time is the shell, so a call runs to its end       *)
(* before the next: kmalloc and kfree are one step each, kheap_defrag one  *)
(* step for each turn of its loop, and nothing else happens meanwhile.     *)
(***************************************************************************)
EXTENDS Integers, Sequences, SequencesExt

CONSTANTS
  WORD,       \* 2^32: sizes are computed modulo WORD
  HEAP_SIZE,  \* bytes between heap_start and heap_end
  Requests    \* the sizes asked for

BLOCK_SIZE == 16   \* sizeof(block_t)
MARGIN     == 8    \* what a split must leave beyond a header

ASSUME WordAssumption     == WORD \in Nat /\ WORD % 4 = 0
\* The heap is a part of the RAM: a size that fits in it is far from WORD.
ASSUME HeapAssumption     ==
  HEAP_SIZE \in BLOCK_SIZE .. WORD - MARGIN - 1 /\ HEAP_SIZE % 4 = 0
ASSUME RequestsAssumption == Requests \subseteq 0 .. WORD - 1

VARIABLES
  blocks,     \* the list from heap_head
  canaries,   \* the words that hold CANRY_VALUE
  curr,       \* the block kheap_defrag is at (past the last: NULL), or 0 outside
  live,       \* the pointers the users own, with the size each asked for
  strayed     \* history: kfree believed in a header that is no longer in the list

hvars == <<blocks, canaries, curr, live, strayed>>

Block(a, n, f) == [addr |-> a, size |-> n, free |-> f]
DataOf(b) == b.addr + BLOCK_SIZE
CanaryOf(b) == b.addr + 12

Genesis == Block(0, HEAP_SIZE - BLOCK_SIZE, TRUE)

\* kmalloc_init() at power-on: one free block spans the heap.
Init ==
  /\ blocks = << Genesis >>
  /\ canaries = {CanaryOf(blocks[1])}
  /\ curr = 0
  /\ live = <<>>
  /\ strayed = FALSE

-----------------------------------------------------------------------------
(* kmalloc                                                                 *)

\* Rounded down instead of up (mutant of Align).
AlignDown(size) == size - (size % 4)

\* Rounded up to a multiple of 4, in uint32_t.
Align(size) == IF size % 4 = 0 THEN size ELSE (size + 4 - (size % 4)) % WORD

Fits(b, n) == b.free /\ b.size >= n

\* The header of the second half not counted (mutant of WorthSplitting).
SplitWithoutHeader(b, n) == b.size > n + MARGIN

WorthSplitting(b, n) == b.size > (n + BLOCK_SIZE + MARGIN) % WORD

\* The header of the second half forgotten (mutant of SecondHalf).
SecondHalfTooLong(b, n) == Block(DataOf(b) + n, b.size - n, TRUE)

SecondHalf(b, n) == Block(DataOf(b) + n, b.size - n - BLOCK_SIZE, TRUE)

\* The list after block i has been taken for n bytes.
Taken(i, n) ==
  LET b == blocks[i] IN
  IF WorthSplitting(b, n)
  THEN ReplaceAt(InsertAt(blocks, i + 1, SecondHalf(b, n)), i, Block(b.addr, n, FALSE))
  ELSE [blocks EXCEPT ![i].free = FALSE]

\* The words after a header has been written at b: its first three hold other
\* things, its fourth the magic number.
HeaderWritten(b) == (canaries \ (b.addr .. b.addr + 11)) \cup {CanaryOf(b)}

\* kmalloc_init() after a reboot: the heap is not in BSS and keeps its bytes.
Reboot ==
  /\ curr = 0
  /\ blocks' = << Genesis >>
  /\ canaries' = HeaderWritten(Genesis)
  /\ live' = <<>>
  /\ strayed' = FALSE
  /\ UNCHANGED curr

\* SYS_MALLOC, and kmalloc as cmd_memtest calls it: the first block that fits.
\* Without one kmalloc returns NULL and changes nothing.
Malloc(size) ==
  LET fit == {i \in DOMAIN blocks : Fits(blocks[i], Align(size))} IN
  \E i \in fit :
    /\ curr = 0
    /\ \A j \in fit : i <= j
    /\ blocks' = Taken(i, Align(size))
    /\ canaries' = IF WorthSplitting(blocks[i], Align(size))
                   THEN HeaderWritten(SecondHalf(blocks[i], Align(size)))
                   ELSE canaries
    /\ live' = [p \in DOMAIN live \cup {DataOf(blocks[i])} |->
                  IF p = DataOf(blocks[i]) THEN size ELSE live[p]]
    /\ UNCHANGED <<curr, strayed>>

\* A user fills its block with something else (SYS_POKE, fs_init).
Fill(p) ==
  /\ curr = 0
  /\ canaries' = canaries \ (p .. p + live[p] - 1)
  /\ UNCHANGED <<blocks, curr, live, strayed>>

-----------------------------------------------------------------------------
(* kfree and kheap_defrag                                                  *)

\* The block after p freed with it (mutant of Released).
ReleasedTwo(p) ==
  [i \in DOMAIN blocks |->
     [blocks[i] EXCEPT !.free = @ \/ DataOf(blocks[i]) = p
                                  \/ (i > 1 /\ DataOf(blocks[i - 1]) = p)]]

\* The header in front of p marked free.
Released(p) ==
  [i \in DOMAIN blocks |->
     [blocks[i] EXCEPT !.free = @ \/ DataOf(blocks[i]) = p]]

\* The magic number not looked at (mutant of Accepted).
AcceptedAnywhere(p) == p >= BLOCK_SIZE

\* The checks of kfree: in the heap, aligned (all p are), and the magic number.
Accepted(p) == p - 4 \in canaries

\* The flag stored over the magic number (mutant of FlagOf).
FlagOverCanary(p) == p - 4

\* The word of the header that kfree writes.
FlagOf(p) == p - 8

\* SYS_FREE, and kfree as cmd_memtest calls it.  The flag is stored in
\* front of p whether or not a header is still there.
Free(p) ==
  /\ curr = 0
  /\ Accepted(p)
  /\ blocks' = Released(p)
  /\ canaries' = canaries \ {FlagOf(p)}
  /\ live' = [q \in DOMAIN live \ {p} |-> live[q]]
  /\ strayed' = (strayed \/ \A i \in DOMAIN blocks : DataOf(blocks[i]) # p)
  /\ UNCHANGED curr

\* SYS_DEFRAG
Defrag ==
  /\ curr = 0
  /\ curr' = 1
  /\ UNCHANGED <<blocks, canaries, live, strayed>>

BothFree(i) == blocks[i].free /\ blocks[i + 1].free

\* Block i with its neighbour's header and data.
Merged(i) ==
  ReplaceAt(RemoveAt(blocks, i + 1), i,
            [blocks[i] EXCEPT !.size = @ + blocks[i + 1].size + BLOCK_SIZE])

\* curr moves on after a merge, so a merged block is never compared with a
\* third one (mutant of AfterMerge).
MovesOn == curr + 1

AfterMerge == curr

Merge ==
  /\ curr \in 1 .. Len(blocks) - 1
  /\ BothFree(curr)
  /\ blocks' = Merged(curr)
  /\ curr' = AfterMerge
  /\ UNCHANGED <<canaries, live, strayed>>

Advance ==
  /\ curr \in 1 .. Len(blocks) - 1
  /\ ~ BothFree(curr)
  /\ curr' = curr + 1
  /\ UNCHANGED <<blocks, canaries, live, strayed>>

\* curr is NULL or the last block.
DefragEnds ==
  /\ curr >= Len(blocks)
  /\ curr' = 0
  /\ UNCHANGED <<blocks, canaries, live, strayed>>

Pointers == {p \in 0 .. HEAP_SIZE - 1 : p % 4 = 0}

Next ==
  \/ \E size \in Requests : Malloc(size)
  \/ \E p \in DOMAIN live : Fill(p)
  \/ \E p \in Pointers : Free(p)
  \/ Defrag \/ Merge \/ Advance \/ DefragEnds
  \/ Reboot

Spec == Init /\ [][Next]_hvars

-----------------------------------------------------------------------------
(* Properties                                                              *)

Offsets == 0 .. HEAP_SIZE

\* The types, and the alignment the processor needs: every header, hence every
\* pointer handed out, is on a word boundary (kfree refuses the others).
TypeOK ==
  /\ blocks \in Seq([addr : Offsets, size : Offsets, free : BOOLEAN])
  /\ \A i \in DOMAIN blocks : blocks[i].addr % 4 = 0
  /\ canaries \subseteq Pointers
  /\ curr \in 0 .. Len(blocks) + 1
  /\ DOMAIN live \subseteq Offsets
  /\ \A p \in DOMAIN live : live[p] \in Requests

\* The list tiles the heap: every block begins where the data of the one
\* before it end and the last ends at heap_end, through any number of splits
\* (kmalloc) and merges (kheap_defrag).
Tiling ==
  /\ blocks # <<>> /\ blocks[1].addr = 0
  /\ \A i \in 1 .. Len(blocks) - 1 :
       blocks[i + 1].addr = DataOf(blocks[i]) + blocks[i].size
  /\ DataOf(Last(blocks)) + Last(blocks).size = HEAP_SIZE

\* The used blocks are exactly what the users own: kmalloc hands nothing out
\* twice, kfree and kheap_defrag lose nothing, whatever pointers are freed.
UsedIsOwned ==
  {DataOf(blocks[i]) : i \in {j \in DOMAIN blocks : ~ blocks[j].free}} = DOMAIN live

\* mm.h says of kmalloc that it allocates size bytes or returns NULL: the block
\* behind every pointer its user holds is as large as the user asked for.
EnoughBytes ==
  \A p \in DOMAIN live : \A i \in DOMAIN blocks :
    DataOf(blocks[i]) = p => blocks[i].size >= live[p]

\* When kheap_defrag ends no two neighbours are both free, however long the
\* runs of free blocks were.
FullyMerged == [][DefragEnds => \A i \in 1 .. Len(blocks) - 1 : ~ BothFree(i)]_hvars

\* The list survives kfree of any pointer.  Merges and reboots leave magic numbers
\* in what become data or headers, and kfree believes in every one of them; but the
\* flag it stores in front of the pointer never falls on the size or the link of a
\* block.
LinksNeverHit ==
  \A p \in Pointers : Accepted(p) =>
    \A i \in DOMAIN blocks : FlagOf(p) \notin blocks[i].addr .. blocks[i].addr + 7

\* An owner can always give its block back, whatever the owners write into their
\* bytes and however often any block of the list is freed, by anybody.  Only a kfree
\* through a header that has left the list can overwrite the canary of another.
OwnerCanFree == ~ strayed => \A p \in DOMAIN live : Accepted(p)
=============================================================================
