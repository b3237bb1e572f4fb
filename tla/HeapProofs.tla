----------------------------- MODULE HeapProofs ------------------------------
(***************************************************************************)
(* Proofs about Heap, for every size of the heap and every set of          *)
(* requests: whatever is allocated, freed (by its owner or not), merged    *)
(* and rebooted, the list tiles the heap and its used blocks are what the  *)
(* users own; and as long as no request is so close to 2^32 that rounding  *)
(* it wraps around, every block is as large as was asked for and its owner *)
(* can give it back.                                                       *)
(***************************************************************************)
EXTENDS Heap, SequenceTheorems, TLAPS

\* No block reaches into another one.  Tiling says so of neighbours only.
Apart ==
  \A i, j \in DOMAIN blocks :
    i < j => blocks[j].addr >= DataOf(blocks[i]) + blocks[i].size

\* The blocks kheap_defrag has passed need no merging.
MergedSoFar == \A i \in 1 .. curr - 1 : i < Len(blocks) => ~ BothFree(i)

\* No word that kfree believes in lies in the first three words of a header:
\* the flag it stores is that of a block, or it falls into data or on a canary,
\* never on a size or a link.
LinksSafe ==
  \A c \in canaries : \A i \in DOMAIN blocks : c \notin blocks[i].addr .. blocks[i].addr + 11

\* Every header of the list still has its canary.
HeadersIntact == ~ strayed => \A i \in DOMAIN blocks : CanaryOf(blocks[i]) \in canaries

ListInv == TypeOK /\ Tiling /\ Apart

IInv ==
  /\ ListInv
  /\ UsedIsOwned
  /\ MergedSoFar /\ LinksSafe

\* What needs honest sizes: no request that wraps around when it is rounded.
HonestRequests == Requests \subseteq 0 .. WORD - 4

HonestInv == EnoughBytes /\ HeadersIntact

-----------------------------------------------------------------------------
(* Numbers                                                                 *)

BlockSet == [addr : Offsets, size : Offsets, free : BOOLEAN]

\* A multiple of 4.
Aligned(n) == n % 4 = 0

LEMMA Numbers ==
  /\ WORD \in Nat /\ Aligned(WORD)
  /\ HEAP_SIZE \in Nat /\ 16 <= HEAP_SIZE /\ HEAP_SIZE + 8 < WORD
  /\ BLOCK_SIZE = 16 /\ MARGIN = 8
  /\ \A size \in Requests : size \in Nat /\ size < WORD
BY WordAssumption, HeapAssumption, RequestsAssumption DEF BLOCK_SIZE, MARGIN, Aligned

\* A rounded size is a multiple of 4, and not less than what was asked for
\* unless it wrapped around.
LEMMA AlignRounds ==
  ASSUME NEW size \in Requests
  PROVE  /\ Align(size) \in Nat /\ Align(size) < WORD /\ Aligned(Align(size))
         /\ size <= WORD - 4 => Align(size) >= size
<1>1. size \in Nat /\ size < WORD /\ WORD \in Nat /\ WORD % 4 = 0
  BY Numbers DEF Aligned
<1>2. CASE size % 4 = 0
  BY <1>1, <1>2 DEF Align, Aligned
<1>3. CASE size % 4 # 0
  <2> DEFINE up == size + 4 - (size % 4)
  <2>1. up \in Nat /\ up % 4 = 0 /\ up > size /\ up < size + 4 /\ up <= WORD
    BY <1>1, <1>3
  <2>2. Align(size) = up % WORD
    BY <1>3 DEF Align
  <2> HIDE DEF up
  <2>3. CASE up < WORD
    <3>1. up % WORD = up
      BY <1>1, <2>1, <2>3
    <3> QED
      BY <1>1, <2>1, <2>2, <2>3, <3>1 DEF Aligned
  <2>4. CASE up = WORD
    <3>1. up % WORD = 0
      <4>1. WORD \in Nat /\ WORD > 0
        BY <1>1
      <4>2. WORD % WORD = 0
        BY <4>1
      <4> QED
        BY <2>4, <4>2
    <3>2. ~ (size <= WORD - 4)
      BY <1>1, <1>3, <2>1, <2>4
    <3> QED
      BY <1>1, <2>2, <3>1, <3>2 DEF Aligned
  <2> QED
    BY <1>1, <2>1, <2>3, <2>4
<1> QED
  BY <1>2, <1>3 DEF Aligned

-----------------------------------------------------------------------------
(* Lists                                                                   *)

\* Element i of s makes place for e, and those from i on move up.
LEMMA InsertAtProperties ==
  ASSUME NEW S, NEW s \in Seq(S), NEW i \in 1 .. Len(s) + 1, NEW e \in S
  PROVE  /\ InsertAt(s, i, e) \in Seq(S)
         /\ Len(InsertAt(s, i, e)) = Len(s) + 1
         /\ \A k \in 1 .. Len(s) + 1 :
              InsertAt(s, i, e)[k] = IF k < i THEN s[k] ELSE IF k = i THEN e ELSE s[k - 1]
<1> DEFINE front == SubSeq(s, 1, i - 1)
           back == SubSeq(s, i, Len(s))
           head == front \o <<e>>
<1>1. i \in Int /\ i - 1 \in Int /\ Len(s) \in Nat /\ 1 <= i /\ i <= Len(s) + 1
  OBVIOUS
<1>2. /\ front \in Seq(S) /\ Len(front) = i - 1
      /\ \A k \in 1 .. i - 1 : front[k] = s[k]
  <2>1. \A k \in 1 .. i - 1 : s[k] \in S
    BY <1>1
  <2>2. /\ front \in Seq(S)
        /\ Len(front) = IF 1 <= i - 1 THEN i - 1 - 1 + 1 ELSE 0
        /\ \A k \in 1 .. i - 1 - 1 + 1 : front[k] = s[1 + k - 1]
    BY <1>1, <2>1, SubSeqProperties
  <2> HIDE DEF front
  <2> QED
    BY <1>1, <2>2
<1>3. /\ back \in Seq(S) /\ Len(back) = Len(s) - i + 1
      /\ \A k \in 1 .. Len(s) - i + 1 : back[k] = s[i + k - 1]
  <2>1. \A k \in i .. Len(s) : s[k] \in S
    BY <1>1
  <2>2. /\ back \in Seq(S)
        /\ Len(back) = IF i <= Len(s) THEN Len(s) - i + 1 ELSE 0
        /\ \A k \in 1 .. Len(s) - i + 1 : back[k] = s[i + k - 1]
    BY <1>1, <2>1, SubSeqProperties
  <2> HIDE DEF back
  <2> QED
    BY <1>1, <2>2
<1>4. InsertAt(s, i, e) = head \o back
  BY DEF InsertAt
<1> HIDE DEF front, back
<1>5. /\ head \in Seq(S) /\ Len(head) = i
      /\ \A k \in 1 .. i : head[k] = IF k < i THEN s[k] ELSE e
  <2>1. <<e>> \in Seq(S) /\ Len(<<e>>) = 1 /\ <<e>>[1] = e
    OBVIOUS
  <2>2. /\ head \in Seq(S) /\ Len(head) = Len(front) + Len(<<e>>)
        /\ \A k \in 1 .. Len(front) + Len(<<e>>) :
             head[k] = IF k <= Len(front) THEN front[k] ELSE <<e>>[k - Len(front)]
    BY <1>2, <2>1, ConcatProperties
  <2> HIDE DEF head
  <2> QED
    BY <1>1, <1>2, <2>1, <2>2
<1> HIDE DEF head
<1>6. /\ head \o back \in Seq(S) /\ Len(head \o back) = Len(head) + Len(back)
      /\ \A k \in 1 .. Len(head) + Len(back) :
           (head \o back)[k] = IF k <= Len(head) THEN head[k] ELSE back[k - Len(head)]
  BY <1>3, <1>5, ConcatProperties
<1>7. Len(head) + Len(back) = Len(s) + 1
  BY <1>1, <1>3, <1>5
<1>8. ASSUME NEW k \in 1 .. Len(s) + 1
      PROVE  (head \o back)[k] = IF k < i THEN s[k] ELSE IF k = i THEN e ELSE s[k - 1]
  <2>1. CASE k <= i
    BY <1>1, <1>5, <1>6, <1>7, <2>1
  <2>2. CASE k > i
    <3>1. (head \o back)[k] = back[k - i] /\ k - i \in 1 .. Len(s) - i + 1
      <4>1. k \in 1 .. Len(head) + Len(back) /\ ~ (k <= Len(head)) /\ k - Len(head) = k - i
        BY <1>1, <1>5, <1>7, <2>2
      <4>2. (head \o back)[k] = back[k - i]
        BY <1>6, <4>1, Zenon
      <4> QED
        BY <1>1, <2>2, <4>2
    <3>2. back[k - i] = s[i + (k - i) - 1]
      BY <1>3, <3>1
    <3>3. i + (k - i) - 1 = k - 1
      BY <1>1
    <3>4. (head \o back)[k] = s[k - 1]
      BY <3>1, <3>2, <3>3, Zenon
    <3>5. ~ (k < i) /\ k # i
      BY <1>1, <2>2
    <3> QED
      BY <3>4, <3>5, Zenon
  <2>3. k <= i \/ k > i
    BY <1>1
  <2> QED
    BY <2>1, <2>2, <2>3, Zenon
<1> QED
  BY <1>4, <1>6, <1>7, <1>8

\* The elements after element i move down over it.
LEMMA RemoveAtProperties ==
  ASSUME NEW S, NEW s \in Seq(S), NEW i \in 1 .. Len(s)
  PROVE  /\ RemoveAt(s, i) \in Seq(S)
         /\ Len(RemoveAt(s, i)) = Len(s) - 1
         /\ \A k \in 1 .. Len(s) - 1 : RemoveAt(s, i)[k] = IF k < i THEN s[k] ELSE s[k + 1]
<1> DEFINE front == SubSeq(s, 1, i - 1)
           back == SubSeq(s, i + 1, Len(s))
<1>1. i + 1 \in Int /\ i - 1 \in Int /\ i \in Int /\ Len(s) \in Nat /\ 1 <= i /\ i <= Len(s)
  OBVIOUS
<1>2. /\ front \in Seq(S) /\ Len(front) = i - 1
      /\ \A k \in 1 .. i - 1 : front[k] = s[k]
  <2>1. \A k \in 1 .. i - 1 : s[k] \in S
    BY <1>1
  <2>2. /\ front \in Seq(S)
        /\ Len(front) = IF 1 <= i - 1 THEN i - 1 - 1 + 1 ELSE 0
        /\ \A k \in 1 .. i - 1 - 1 + 1 : front[k] = s[1 + k - 1]
    BY <1>1, <2>1, SubSeqProperties
  <2> HIDE DEF front
  <2> QED
    BY <1>1, <2>2
<1>3. /\ back \in Seq(S) /\ Len(back) = Len(s) - i
      /\ \A k \in 1 .. Len(s) - i : back[k] = s[i + k]
  <2>1. \A k \in i + 1 .. Len(s) : s[k] \in S
    BY <1>1
  <2>2. /\ back \in Seq(S)
        /\ Len(back) = IF i + 1 <= Len(s) THEN Len(s) - (i + 1) + 1 ELSE 0
        /\ \A k \in 1 .. Len(s) - (i + 1) + 1 : back[k] = s[(i + 1) + k - 1]
    BY <1>1, <2>1, SubSeqProperties
  <2> HIDE DEF back
  <2> QED
    BY <1>1, <2>2
<1>4. RemoveAt(s, i) = front \o back
  BY DEF RemoveAt
<1> HIDE DEF front, back
<1>5. /\ front \o back \in Seq(S) /\ Len(front \o back) = Len(front) + Len(back)
      /\ \A k \in 1 .. Len(front) + Len(back) :
           (front \o back)[k] = IF k <= Len(front) THEN front[k] ELSE back[k - Len(front)]
  BY <1>2, <1>3, ConcatProperties
<1>6. Len(front) + Len(back) = Len(s) - 1
  BY <1>1, <1>2, <1>3
<1>7. ASSUME NEW k \in 1 .. Len(s) - 1
      PROVE  (front \o back)[k] = IF k < i THEN s[k] ELSE s[k + 1]
  <2>1. CASE k < i
    BY <1>1, <1>2, <1>5, <1>6, <2>1
  <2>2. CASE k >= i
    <3>1. (front \o back)[k] = back[k - (i - 1)] /\ k - (i - 1) \in 1 .. Len(s) - i
      BY <1>1, <1>2, <1>5, <1>6, <2>2
    <3>2. back[k - (i - 1)] = s[i + (k - (i - 1))]
      BY <1>3, <3>1
    <3>3. i + (k - (i - 1)) = k + 1
      BY <1>1
    <3> QED
      BY <1>1, <2>2, <3>1, <3>2, <3>3
  <2>3. k < i \/ k >= i
    BY <1>1
  <2> QED
    BY <2>1, <2>2, <2>3, Zenon
<1> QED
  BY <1>4, <1>5, <1>6, <1>7

-----------------------------------------------------------------------------
(* The blocks of the heap                                                  *)

LEMMA BlocksTyped ==
  ASSUME ListInv
  PROVE  /\ blocks \in Seq(BlockSet) /\ Len(blocks) \in Nat /\ Len(blocks) >= 1
         /\ DOMAIN blocks = 1 .. Len(blocks)
         /\ \A i \in DOMAIN blocks :
              /\ blocks[i] \in BlockSet
              /\ blocks[i].addr \in Nat /\ blocks[i].size \in Nat /\ blocks[i].free \in BOOLEAN
              /\ Aligned(blocks[i].addr)
              /\ DataOf(blocks[i]) = blocks[i].addr + 16
              /\ CanaryOf(blocks[i]) = blocks[i].addr + 12
<1>1. blocks \in Seq(BlockSet) /\ blocks # <<>>
  BY DEF ListInv, TypeOK, Tiling, BlockSet
<1>2. Len(blocks) \in Nat /\ Len(blocks) >= 1 /\ DOMAIN blocks = 1 .. Len(blocks)
  BY <1>1
<1>3. ASSUME NEW i \in DOMAIN blocks
      PROVE  /\ blocks[i] \in BlockSet
             /\ blocks[i].addr \in Nat /\ blocks[i].size \in Nat /\ blocks[i].free \in BOOLEAN
  <2>1. blocks[i] \in BlockSet
    BY <1>1, <1>2
  <2>2. blocks[i].addr \in Offsets /\ blocks[i].size \in Offsets /\ blocks[i].free \in BOOLEAN
    BY <2>1 DEF BlockSet
  <2> QED
    BY <2>1, <2>2, Numbers DEF Offsets
<1>4. \A i \in DOMAIN blocks : Aligned(blocks[i].addr)
  BY DEF ListInv, TypeOK, Aligned
<1>5. \A i \in DOMAIN blocks :
        DataOf(blocks[i]) = blocks[i].addr + 16 /\ CanaryOf(blocks[i]) = blocks[i].addr + 12
  BY DEF DataOf, CanaryOf, BLOCK_SIZE
<1> QED
  BY <1>1, <1>2, <1>3, <1>4, <1>5

\* Neighbours touch, and the last block ends where the heap does.
LEMMA ListTiles ==
  ASSUME ListInv
  PROVE  /\ blocks[1].addr = 0
         /\ \A i \in 1 .. Len(blocks) - 1 :
              blocks[i + 1].addr = blocks[i].addr + 16 + blocks[i].size
         /\ blocks[Len(blocks)].addr + 16 + blocks[Len(blocks)].size = HEAP_SIZE
         /\ \A i, j \in DOMAIN blocks :
              i < j => blocks[j].addr >= blocks[i].addr + 16 + blocks[i].size
BY DEF ListInv, Tiling, Apart, DataOf, BLOCK_SIZE, Last

\* No block ends beyond the heap.
LEMMA InsideHeap ==
  ASSUME ListInv, NEW i \in DOMAIN blocks
  PROVE  blocks[i].addr + 16 + blocks[i].size <= HEAP_SIZE
<1> DEFINE l == Len(blocks)
<1>1. l \in DOMAIN blocks /\ i <= l /\ i \in Nat /\ l \in Nat
  BY BlocksTyped
<1>2. blocks[l].addr + 16 + blocks[l].size = HEAP_SIZE
  BY ListTiles
<1>3. /\ blocks[i].addr \in Nat /\ blocks[i].size \in Nat
      /\ blocks[l].addr \in Nat /\ blocks[l].size \in Nat
  BY <1>1, BlocksTyped
<1> HIDE DEF l
<1>4. CASE i = l
  BY <1>2, <1>3, <1>4, Numbers
<1>5. CASE i < l
  <2>1. blocks[l].addr >= blocks[i].addr + 16 + blocks[i].size
    BY <1>1, <1>5, ListTiles
  <2> QED
    BY <1>2, <1>3, <2>1, Numbers
<1> QED
  BY <1>1, <1>4, <1>5

\* Splitting is a matter of the size alone: nothing wraps around.
LEMMA WorthSplittingMeans ==
  ASSUME ListInv, NEW i \in DOMAIN blocks, NEW n \in Nat, blocks[i].size >= n
  PROVE  WorthSplitting(blocks[i], n) <=> blocks[i].size > n + 24
<1>1. n + 24 < WORD /\ n + 24 \in Nat /\ WORD \in Nat
  <2>1. blocks[i].addr + 16 + blocks[i].size <= HEAP_SIZE
    BY InsideHeap
  <2>2. blocks[i].addr \in Nat /\ blocks[i].size \in Nat
    BY BlocksTyped
  <2>3. HEAP_SIZE \in Nat /\ HEAP_SIZE + 8 < WORD /\ WORD \in Nat
    BY Numbers
  <2> DEFINE x == blocks[i].addr
             y == blocks[i].size
  <2> HIDE DEF x, y
  <2>4. x + 16 + y <= HEAP_SIZE /\ x \in Nat /\ y \in Nat /\ y >= n
    BY <2>1, <2>2 DEF x, y
  <2> QED
    BY <2>3, <2>4
<1>2. (n + 24) % WORD = n + 24
  BY <1>1
<1>3. n + BLOCK_SIZE + MARGIN = n + 24
  BY Numbers
<1> QED
  BY <1>2, <1>3 DEF WorthSplitting

\* The two halves of block i when n bytes of it are taken.
FirstHalf(i, n) == Block(blocks[i].addr, n, FALSE)

LEMMA HalvesTyped ==
  ASSUME ListInv, NEW i \in DOMAIN blocks, NEW n \in Nat, Aligned(n),
         blocks[i].size >= n, WorthSplitting(blocks[i], n)
  PROVE  /\ FirstHalf(i, n) \in BlockSet /\ SecondHalf(blocks[i], n) \in BlockSet
         /\ FirstHalf(i, n).addr = blocks[i].addr
         /\ FirstHalf(i, n).size = n /\ FirstHalf(i, n).free = FALSE
         /\ SecondHalf(blocks[i], n).addr = blocks[i].addr + 16 + n
         /\ SecondHalf(blocks[i], n).size = blocks[i].size - n - 16
         /\ SecondHalf(blocks[i], n).free = TRUE
         /\ Aligned(SecondHalf(blocks[i], n).addr)
         /\ SecondHalf(blocks[i], n).addr \in Nat /\ SecondHalf(blocks[i], n).size \in Nat
<1> DEFINE a == blocks[i].addr
           z == blocks[i].size
<1>1. a \in Nat /\ z \in Nat /\ Aligned(a)
  BY BlocksTyped
<1>2. z > n + 24 /\ a + 16 + z <= HEAP_SIZE /\ HEAP_SIZE \in Nat
  BY WorthSplittingMeans, InsideHeap, Numbers
<1>3. SecondHalf(blocks[i], n) = [addr |-> a + 16 + n, size |-> z - n - 16, free |-> TRUE]
  BY DEF SecondHalf, Block, DataOf, BLOCK_SIZE
<1>4. FirstHalf(i, n) = [addr |-> a, size |-> n, free |-> FALSE]
  BY DEF FirstHalf, Block
<1> HIDE DEF a, z
<1>5. a \in Offsets /\ n \in Offsets /\ a + 16 + n \in Offsets /\ z - n - 16 \in Offsets
  BY <1>1, <1>2 DEF Offsets
<1>6. Aligned(a + 16 + n)
  BY <1>1 DEF Aligned
<1>7. FirstHalf(i, n) \in BlockSet /\ SecondHalf(blocks[i], n) \in BlockSet
  BY <1>3, <1>4, <1>5 DEF BlockSet
<1>8. a + 16 + n \in Nat /\ z - n - 16 \in Nat
  BY <1>1, <1>2
<1> QED
  BY <1>3, <1>4, <1>6, <1>7, <1>8 DEF a, z

LEMMA SplitList ==
  ASSUME ListInv, NEW i \in DOMAIN blocks, NEW n \in Nat, Aligned(n),
         blocks[i].size >= n, WorthSplitting(blocks[i], n)
  PROVE  /\ Taken(i, n) \in Seq(BlockSet) /\ Len(Taken(i, n)) = Len(blocks) + 1
         /\ \A k \in 1 .. Len(blocks) + 1 :
              Taken(i, n)[k] = IF k < i THEN blocks[k] ELSE IF k = i THEN FirstHalf(i, n)
                               ELSE IF k = i + 1 THEN SecondHalf(blocks[i], n) ELSE blocks[k - 1]
<1> DEFINE first == FirstHalf(i, n)
           second == SecondHalf(blocks[i], n)
           longer == InsertAt(blocks, i + 1, second)
<1>1. blocks \in Seq(BlockSet) /\ Len(blocks) \in Nat /\ i \in 1 .. Len(blocks)
  BY BlocksTyped
<1>2. first \in BlockSet /\ second \in BlockSet
  BY HalvesTyped
<1>3. Taken(i, n) = [longer EXCEPT ![i] = first]
  BY DEF Taken, ReplaceAt, FirstHalf
<1> HIDE DEF first, second
<1>4. i + 1 \in 1 .. Len(blocks) + 1
  BY <1>1
<1>5. /\ longer \in Seq(BlockSet) /\ Len(longer) = Len(blocks) + 1
      /\ \A k \in 1 .. Len(blocks) + 1 :
           longer[k] = IF k < i + 1 THEN blocks[k] ELSE IF k = i + 1 THEN second ELSE blocks[k - 1]
  <2> DEFINE at == i + 1
  <2> HIDE DEF at
  <2>1. at \in 1 .. Len(blocks) + 1
    BY <1>4 DEF at
  <2>2. /\ InsertAt(blocks, at, second) \in Seq(BlockSet)
        /\ Len(InsertAt(blocks, at, second)) = Len(blocks) + 1
        /\ \A k \in 1 .. Len(blocks) + 1 :
             InsertAt(blocks, at, second)[k]
             = IF k < at THEN blocks[k] ELSE IF k = at THEN second ELSE blocks[k - 1]
    BY <1>1, <1>2, <2>1, InsertAtProperties
  <2> QED
    BY <2>2 DEF at
<1> HIDE DEF longer
<1>6. /\ Taken(i, n) \in Seq(BlockSet) /\ Len(Taken(i, n)) = Len(blocks) + 1
      /\ \A k \in 1 .. Len(blocks) + 1 : Taken(i, n)[k] = IF k = i THEN first ELSE longer[k]
  BY <1>1, <1>2, <1>3, <1>5
<1>7. \A k \in 1 .. Len(blocks) + 1 :
        Taken(i, n)[k] = IF k < i THEN blocks[k] ELSE IF k = i THEN first
                         ELSE IF k = i + 1 THEN second ELSE blocks[k - 1]
  BY <1>1, <1>5, <1>6
<1> QED
  BY <1>6, <1>7 DEF first, second

\* Block i grown over its neighbour.
Grown(i) == [blocks[i] EXCEPT !.size = @ + blocks[i + 1].size + BLOCK_SIZE]

LEMMA GrownTyped ==
  ASSUME ListInv, NEW i \in 1 .. Len(blocks) - 1
  PROVE  /\ Grown(i) \in BlockSet /\ Grown(i).addr = blocks[i].addr
         /\ Grown(i).free = blocks[i].free
         /\ Grown(i).size = blocks[i].size + blocks[i + 1].size + 16
<1> DEFINE b == blocks[i]
           z == blocks[i + 1].size
<1>1. i \in DOMAIN blocks /\ i + 1 \in DOMAIN blocks
  BY BlocksTyped
<1>2. /\ b \in BlockSet /\ b.addr \in Nat /\ b.size \in Nat
      /\ z \in Nat /\ blocks[i + 1].addr \in Nat
  BY <1>1, BlocksTyped
<1>3. blocks[i + 1].addr = b.addr + 16 + b.size
  BY ListTiles
<1>4. blocks[i + 1].addr + 16 + z <= HEAP_SIZE /\ HEAP_SIZE \in Nat
  BY <1>1, InsideHeap, Numbers
<1>6. Grown(i) = [b EXCEPT !.size = b.size + z + 16]
  BY DEF Grown, BLOCK_SIZE
<1>5. b.size + z + 16 \in Offsets
  <2> DEFINE a == b.addr
             y == b.size
  <2>1. a \in Nat /\ y \in Nat /\ z \in Nat /\ (a + 16 + y) + 16 + z <= HEAP_SIZE
    BY <1>2, <1>3, <1>4
  <2> HIDE DEF a, y, z
  <2>2. y + z + 16 \in 0 .. HEAP_SIZE
    BY <1>4, <2>1
  <2> QED
    BY <2>2 DEF Offsets, y
<1> HIDE DEF b, z
<1>7. b \in [addr : Offsets, size : Offsets, free : BOOLEAN]
  BY <1>2 DEF BlockSet
<1>8. /\ Grown(i) \in BlockSet /\ Grown(i).addr = b.addr /\ Grown(i).free = b.free
      /\ Grown(i).size = b.size + z + 16
  BY <1>5, <1>6, <1>7 DEF BlockSet
<1> QED
  BY <1>8 DEF b, z

LEMMA MergedList ==
  ASSUME ListInv, NEW i \in 1 .. Len(blocks) - 1
  PROVE  /\ Merged(i) \in Seq(BlockSet) /\ Len(Merged(i)) = Len(blocks) - 1
         /\ \A k \in 1 .. Len(blocks) - 1 :
              Merged(i)[k] = IF k < i THEN blocks[k] ELSE IF k = i THEN Grown(i) ELSE blocks[k + 1]
<1> DEFINE shorter == RemoveAt(blocks, i + 1)
<1>1. blocks \in Seq(BlockSet) /\ Len(blocks) \in Nat /\ i \in 1 .. Len(blocks) - 1
  BY BlocksTyped
<1>a. i + 1 \in 1 .. Len(blocks)
  BY <1>1
<1>2. Grown(i) \in BlockSet
  BY GrownTyped
<1>3. Merged(i) = [shorter EXCEPT ![i] = Grown(i)]
  BY DEF Merged, ReplaceAt, Grown
<1>4. /\ shorter \in Seq(BlockSet) /\ Len(shorter) = Len(blocks) - 1
      /\ \A k \in 1 .. Len(blocks) - 1 :
           shorter[k] = IF k < i + 1 THEN blocks[k] ELSE blocks[k + 1]
  BY <1>1, <1>a, RemoveAtProperties
<1> HIDE DEF shorter
<1>5. /\ Merged(i) \in Seq(BlockSet) /\ Len(Merged(i)) = Len(blocks) - 1
      /\ \A k \in 1 .. Len(blocks) - 1 : Merged(i)[k] = IF k = i THEN Grown(i) ELSE shorter[k]
  BY <1>1, <1>2, <1>3, <1>4
<1> QED
  BY <1>1, <1>4, <1>5

-----------------------------------------------------------------------------
(* Every list the operations make is a good one                            *)

GoodList(s) ==
  /\ s \in Seq(BlockSet) /\ Len(s) >= 1
  /\ \A i \in 1 .. Len(s) : Aligned(s[i].addr)
  /\ s[1].addr = 0
  /\ \A i \in 1 .. Len(s) - 1 : s[i + 1].addr = s[i].addr + 16 + s[i].size
  /\ s[Len(s)].addr + 16 + s[Len(s)].size = HEAP_SIZE
  /\ \A i, j \in 1 .. Len(s) : i < j => s[j].addr >= s[i].addr + 16 + s[i].size

LEMMA GoodBlocks ==
  (ListInv => GoodList(blocks))
  /\ (GoodList(blocks)
      => /\ blocks \in Seq([addr : Offsets, size : Offsets, free : BOOLEAN])
         /\ \A i \in DOMAIN blocks : blocks[i].addr % 4 = 0
         /\ Tiling /\ Apart)
<1>1. ASSUME ListInv PROVE GoodList(blocks)
  BY <1>1, BlocksTyped, ListTiles DEF GoodList
<1>2. ASSUME GoodList(blocks)
      PROVE  /\ blocks \in Seq([addr : Offsets, size : Offsets, free : BOOLEAN])
             /\ \A i \in DOMAIN blocks : blocks[i].addr % 4 = 0
             /\ Tiling /\ Apart
  <2>1. blocks \in Seq(BlockSet) /\ Len(blocks) >= 1
    BY <1>2 DEF GoodList
  <2>2. DOMAIN blocks = 1 .. Len(blocks) /\ blocks # <<>>
    BY <2>1
  <2>3. Tiling /\ Apart
    BY <1>2, <2>2 DEF GoodList, Tiling, Apart, DataOf, BLOCK_SIZE, Last
  <2> QED
    BY <1>2, <2>1, <2>2, <2>3 DEF GoodList, BlockSet, Aligned
<1> QED
  BY <1>1, <1>2

\* Two neighbours, at p with y bytes and behind it with x, are as long as one.
LEMMA TwoBlocks ==
  ASSUME NEW p \in Nat, NEW y \in Nat, NEW x \in Nat
  PROVE  p + 16 + (y + x + 16) = (p + 16 + y) + 16 + x
OBVIOUS

\* A block before the last one ends before the heap does.
LEMMA EndsBefore ==
  ASSUME NEW p \in Nat, NEW y \in Nat, NEW q \in Nat, NEW x \in Nat,
         q >= p + 16 + y
  PROVE  p + 16 + y <= q + 16 + x
OBVIOUS

\* The last word of a header at p is not in a header at q if one block ends
\* before the other begins.
LEMMA WordOutside ==
  ASSUME NEW p \in Nat, NEW q \in Nat, NEW y \in Nat,
         q >= p + 16 + y \/ p >= q + 16 + y
  PROVE  p + 12 \notin q .. q + 11
<1> SUFFICES ASSUME p + 12 >= q, p + 12 <= q + 11
             PROVE  FALSE
  OBVIOUS
<1> QED
  OBVIOUS

\* The canary of a header is in the first three words of none.
LEMMA CanaryApart ==
  ASSUME NEW s, GoodList(s), NEW i \in 1 .. Len(s), NEW j \in 1 .. Len(s)
  PROVE  /\ CanaryOf(s[i]) \notin s[j].addr .. s[j].addr + 11
         /\ CanaryOf(s[i]) \in Pointers
         /\ DataOf(s[i]) \in Offsets
         /\ DataOf(s[i]) = DataOf(s[j]) => i = j
<1> DEFINE a == [k \in 1 .. Len(s) |-> s[k].addr]
           z == [k \in 1 .. Len(s) |-> s[k].size]
<1>0. \A k \in 1 .. Len(s) : Aligned(a[k])
  BY DEF GoodList
<1>1. \A k \in 1 .. Len(s) : a[k] \in Nat /\ z[k] \in Nat
  <2> TAKE k \in 1 .. Len(s)
  <2>1. s[k] \in BlockSet
    BY DEF GoodList
  <2>2. s[k].addr \in Offsets /\ s[k].size \in Offsets
    BY <2>1 DEF BlockSet
  <2> QED
    BY <2>2, Numbers DEF Offsets
<1>h. HEAP_SIZE \in Nat
  BY Numbers
<1>2. \A k, l \in 1 .. Len(s) : k < l => a[l] >= a[k] + 16 + z[k]
  BY DEF GoodList
<1>3. Len(s) \in 1 .. Len(s) /\ Len(s) \in Nat /\ a[Len(s)] + 16 + z[Len(s)] = HEAP_SIZE
  BY DEF GoodList
<1>4. CanaryOf(s[i]) = a[i] + 12 /\ DataOf(s[i]) = a[i] + 16 /\ DataOf(s[j]) = a[j] + 16
  BY DEF CanaryOf, DataOf, BLOCK_SIZE
<1> HIDE DEF a, z
<1>5. a[i] + 16 + z[i] <= HEAP_SIZE
  <2> DEFINE l == Len(s)
  <2>1. l \in 1 .. Len(s) /\ l \in Nat /\ i <= l /\ i \in Nat
    BY <1>3
  <2>2. a[l] \in Nat /\ z[l] \in Nat /\ a[i] \in Nat /\ z[i] \in Nat
    BY <1>1, <2>1
  <2>3. a[l] + 16 + z[l] = HEAP_SIZE
    BY <1>3
  <2>4. i < l => a[l] >= a[i] + 16 + z[i]
    BY <1>2, <2>1
  <2> HIDE DEF l
  <2>5. CASE i = l
    <3>1. a[i] + 16 + z[i] = HEAP_SIZE
      BY <2>3, <2>5, Zenon
    <3> QED
      BY <1>h, <3>1
  <2>6. CASE i < l
    <3>1. a[i] + 16 + z[i] <= a[l] + 16 + z[l]
      BY <2>2, <2>4, <2>6, EndsBefore
    <3> QED
      BY <2>3, <3>1, Zenon
  <2> QED
    BY <2>1, <2>5, <2>6
<1>6. a[i] + 12 \notin a[j] .. a[j] + 11
  <2>1. i < j \/ j < i \/ i = j
    BY <1>3
  <2>2. a[i] \in Nat /\ z[i] \in Nat /\ a[j] \in Nat /\ z[j] \in Nat
    BY <1>1
  <2>3. /\ i < j => a[j] >= a[i] + 16 + z[i]
        /\ j < i => a[i] >= a[j] + 16 + z[j]
    BY <1>2
  <2>4. CASE i = j
    <3>1. a[i] = a[j]
      BY <2>4
    <3> QED
      BY <2>2, <3>1
  <2>5. CASE i < j
    BY <2>2, <2>3, <2>5, WordOutside
  <2>6. CASE j < i
    BY <2>2, <2>3, <2>6, WordOutside
  <2> QED
    BY <2>1, <2>4, <2>5, <2>6
<1>7. a[i] + 16 = a[j] + 16 => i = j
  <2>1. i < j \/ j < i \/ i = j
    BY <1>3
  <2>2. a[i] \in Nat /\ z[i] \in Nat /\ a[j] \in Nat /\ z[j] \in Nat
    BY <1>1
  <2>3. /\ i < j => a[j] >= a[i] + 16 + z[i]
        /\ j < i => a[i] >= a[j] + 16 + z[j]
    BY <1>2
  <2>4. CASE i < j
    BY <2>2, <2>3, <2>4
  <2>5. CASE j < i
    BY <2>2, <2>3, <2>5
  <2> QED
    BY <2>1, <2>4, <2>5
<1>8. a[i] + 12 \in Pointers
  <2>1. (a[i] + 12) % 4 = 0
    <3>1. a[i] \in Nat /\ Aligned(a[i])
      BY <1>0, <1>1
    <3> QED
      BY <3>1 DEF Aligned
  <2>2. a[i] + 12 \in 0 .. HEAP_SIZE - 1
    <3>1. a[i] \in Nat /\ z[i] \in Nat
      BY <1>1
    <3>2. \A p, y \in Nat : p + 16 + y <= HEAP_SIZE => p + 12 \in 0 .. HEAP_SIZE - 1
      BY <1>h
    <3> QED
      BY <1>5, <3>1, <3>2, Zenon
  <2> QED
    BY <2>1, <2>2 DEF Pointers
<1>9. a[i] + 16 \in Offsets
  <2>1. a[i] \in Nat /\ z[i] \in Nat
    BY <1>1
  <2>2. \A p, y \in Nat : p + 16 + y <= HEAP_SIZE => p + 16 \in Offsets
    BY <1>h DEF Offsets
  <2> QED
    BY <1>5, <2>1, <2>2, Zenon
<1> QED
  BY <1>4, <1>6, <1>7, <1>8, <1>9 DEF a

\* Genesis spans the heap.
LEMMA GenesisGood ==
  /\ GoodList(<< Genesis >>)
  /\ Genesis.addr = 0 /\ Genesis.free = TRUE /\ CanaryOf(Genesis) = 12
<1> DEFINE s == << Genesis >>
<1>1. Genesis = [addr |-> 0, size |-> HEAP_SIZE - 16, free |-> TRUE]
  BY DEF Genesis, Block, BLOCK_SIZE
<1>2. Genesis.addr = 0 /\ Genesis.size = HEAP_SIZE - 16 /\ Genesis.free = TRUE
  BY <1>1
<1>3. Genesis \in BlockSet
  <2>1. 0 \in Offsets /\ HEAP_SIZE - 16 \in Offsets
    BY Numbers DEF Offsets
  <2> QED
    BY <1>1, <2>1 DEF BlockSet
<1>4. s \in Seq(BlockSet) /\ Len(s) = 1 /\ s[1] = Genesis
  BY <1>3
<1> HIDE DEF s
<1>5. GoodList(s)
  <2>1. Aligned(0)
    BY DEF Aligned
  <2> QED
    BY <1>2, <1>4, <2>1, Numbers DEF GoodList
<1> QED
  BY <1>2, <1>5 DEF s, CanaryOf

LEMMA SplitGood ==
  ASSUME ListInv, NEW i \in DOMAIN blocks, NEW n \in Nat, Aligned(n),
         blocks[i].size >= n, WorthSplitting(blocks[i], n)
  PROVE  GoodList(Taken(i, n))
<1> DEFINE s == Taken(i, n)
           old == [k \in 1 .. Len(blocks) + 1 |-> IF k <= i THEN k ELSE k - 1]
           a == [k \in 1 .. Len(blocks) |-> blocks[k].addr]
           z == [k \in 1 .. Len(blocks) |-> blocks[k].size]
<1>1. /\ s \in Seq(BlockSet) /\ Len(s) = Len(blocks) + 1
      /\ \A k \in 1 .. Len(blocks) + 1 :
           s[k] = IF k < i THEN blocks[k] ELSE IF k = i THEN FirstHalf(i, n)
                  ELSE IF k = i + 1 THEN SecondHalf(blocks[i], n) ELSE blocks[k - 1]
  BY SplitList
<1>0. \A k \in 1 .. Len(blocks) : Aligned(a[k])
  BY BlocksTyped
<1>b. \A k \in 1 .. Len(blocks) : a[k] = blocks[k].addr /\ z[k] = blocks[k].size
  OBVIOUS
<1>2. /\ i \in 1 .. Len(blocks) /\ Len(blocks) \in Nat
      /\ \A k \in 1 .. Len(blocks) : a[k] \in Nat /\ z[k] \in Nat
  BY BlocksTyped
<1>c. /\ 1 \in 1 .. Len(blocks) /\ Len(blocks) \in 1 .. Len(blocks)
      /\ \A k \in 1 .. Len(blocks) - 1 : k \in 1 .. Len(blocks) /\ k + 1 \in 1 .. Len(blocks)
  BY <1>2
<1>d. DOMAIN blocks = 1 .. Len(blocks)
  BY BlocksTyped
<1> HIDE DEF s, a, z
<1>e. /\ blocks[1].addr = 0
      /\ \A k \in 1 .. Len(blocks) - 1 :
           blocks[k + 1].addr = blocks[k].addr + 16 + blocks[k].size
      /\ blocks[Len(blocks)].addr + 16 + blocks[Len(blocks)].size = HEAP_SIZE
      /\ \A k, l \in 1 .. Len(blocks) :
           k < l => blocks[l].addr >= blocks[k].addr + 16 + blocks[k].size
  BY <1>d, ListTiles
<1>3. /\ a[1] = 0 /\ a[Len(blocks)] + 16 + z[Len(blocks)] = HEAP_SIZE
      /\ \A k \in 1 .. Len(blocks) - 1 : a[k + 1] = a[k] + 16 + z[k]
      /\ \A k, l \in 1 .. Len(blocks) : k < l => a[l] >= a[k] + 16 + z[k]
  <2>1. a[1] = 0 /\ a[Len(blocks)] + 16 + z[Len(blocks)] = HEAP_SIZE
    BY <1>b, <1>c, <1>e, Zenon
  <2>2. \A k \in 1 .. Len(blocks) - 1 : a[k + 1] = a[k] + 16 + z[k]
    BY <1>b, <1>c, <1>e, Zenon
  <2>3. \A k, l \in 1 .. Len(blocks) : k < l => a[l] >= a[k] + 16 + z[k]
    BY <1>b, <1>e
  <2> QED
    BY <2>1, <2>2, <2>3, Zenon
<1>h. HEAP_SIZE \in Nat
  BY Numbers
<1>f. /\ FirstHalf(i, n).addr = blocks[i].addr /\ FirstHalf(i, n).size = n
      /\ SecondHalf(blocks[i], n).addr = blocks[i].addr + 16 + n
      /\ SecondHalf(blocks[i], n).size = blocks[i].size - n - 16
      /\ Aligned(SecondHalf(blocks[i], n).addr)
  <2>1. FirstHalf(i, n).addr = blocks[i].addr /\ FirstHalf(i, n).size = n
    BY HalvesTyped, Zenon
  <2>2. SecondHalf(blocks[i], n).addr = blocks[i].addr + 16 + n
    BY HalvesTyped, Zenon
  <2>3. SecondHalf(blocks[i], n).size = blocks[i].size - n - 16
    BY HalvesTyped, Zenon
  <2>4. Aligned(SecondHalf(blocks[i], n).addr)
    BY HalvesTyped, Zenon
  <2> QED
    BY <2>1, <2>2, <2>3, <2>4, Zenon
<1>4. z[i] > n + 24
  <2>1. blocks[i].size > n + 24
    BY WorthSplittingMeans
  <2> QED
    BY <1>2, <1>b, <2>1
<1>5. /\ s[i].addr = a[i] /\ s[i].size = n
      /\ s[i + 1].addr = a[i] + 16 + n /\ s[i + 1].size = z[i] - n - 16
  <2>1. s[i] = FirstHalf(i, n) /\ s[i + 1] = SecondHalf(blocks[i], n)
    BY <1>1, <1>2
  <2>2. a[i] = blocks[i].addr /\ z[i] = blocks[i].size
    BY <1>2, <1>b
  <2> QED
    BY <1>f, <2>1, <2>2, Zenon
<1>6. ASSUME NEW k \in 1 .. Len(blocks) + 1
      PROVE  /\ k < i => s[k].addr = a[k] /\ s[k].size = z[k]
             /\ k > i + 1 => s[k].addr = a[k - 1] /\ s[k].size = z[k - 1]
  <2>1. CASE k < i
    <3>1. s[k] = blocks[k] /\ k \in 1 .. Len(blocks) /\ ~ (k > i + 1)
      BY <1>1, <1>2, <2>1
    <3>2. a[k] = blocks[k].addr /\ z[k] = blocks[k].size
      BY <1>b, <3>1
    <3> QED
      BY <3>1, <3>2
  <2>2. CASE k > i + 1
    <3>0. ~ (k < i) /\ k # i /\ k # i + 1 /\ k - 1 \in 1 .. Len(blocks)
      BY <1>2, <2>2
    <3>1. s[k] = blocks[k - 1] /\ k - 1 \in 1 .. Len(blocks) /\ ~ (k < i)
      BY <1>1, <3>0
    <3>2. a[k - 1] = blocks[k - 1].addr /\ z[k - 1] = blocks[k - 1].size
      BY <1>b, <3>1
    <3> QED
      BY <3>1, <3>2
  <2> QED
    BY <2>1, <2>2
<1>7. ASSUME NEW k \in 1 .. Len(blocks) + 1
      PROVE  Aligned(s[k].addr)
  <2>1. k < i \/ k = i \/ k = i + 1 \/ (k > i + 1 /\ k - 1 \in 1 .. Len(blocks))
    BY <1>2
  <2>2. Aligned(s[i + 1].addr)
    <3>1. s[i + 1] = SecondHalf(blocks[i], n)
      BY <1>1, <1>2
    <3> QED
      BY <1>f, <3>1, Zenon
  <2>3. CASE k < i
    <3>1. k \in 1 .. Len(blocks) /\ s[k].addr = a[k]
      BY <1>2, <1>6, <2>3
    <3> QED
      BY <1>0, <3>1, Zenon
  <2>4. CASE k = i
    <3>1. i \in 1 .. Len(blocks) /\ s[i].addr = a[i]
      BY <1>2, <1>5
    <3> QED
      BY <1>0, <2>4, <3>1, Zenon
  <2>5. CASE k > i + 1 /\ k - 1 \in 1 .. Len(blocks)
    <3>1. s[k].addr = a[k - 1]
      BY <1>6, <2>5
    <3> QED
      BY <1>0, <2>5, <3>1, Zenon
  <2> QED
    BY <2>1, <2>2, <2>3, <2>4, <2>5, Zenon
<1>8. s[1].addr = 0
  <2>1. CASE i = 1
    BY <1>3, <1>5, <2>1
  <2>2. CASE i > 1
    <3>1. 1 \in 1 .. Len(blocks) + 1 /\ 1 < i
      BY <1>2, <2>2
    <3> QED
      BY <1>3, <1>6, <3>1
  <2> QED
    BY <1>2, <2>1, <2>2
<1> DEFINE N == Len(blocks)
<1>N. /\ N \in Nat /\ i \in Nat /\ 1 <= i /\ i <= N
      /\ \A k \in 1 .. N : a[k] \in Nat /\ z[k] \in Nat
  BY <1>2
<1>M. /\ \A k \in 1 .. N - 1 : a[k + 1] = a[k] + 16 + z[k]
      /\ \A k, l \in 1 .. N : k < l => a[l] >= a[k] + 16 + z[k]
      /\ a[N] + 16 + z[N] = HEAP_SIZE
  BY <1>3
<1>S. ASSUME NEW k \in 1 .. N + 1
      PROVE  /\ k < i => s[k].addr = a[k] /\ s[k].size = z[k]
             /\ k > i + 1 => s[k].addr = a[k - 1] /\ s[k].size = z[k - 1]
  BY <1>6
<1> HIDE DEF N
<1>9. s[N + 1].addr + 16 + s[N + 1].size = HEAP_SIZE
  <2>1. CASE i = N
    <3>1. /\ s[N + 1].addr = a[N] + 16 + n /\ s[N + 1].size = z[N] - n - 16
          /\ a[N] \in Nat /\ z[N] \in Nat
      BY <1>5, <1>N, <2>1
    <3> QED
      BY <1>M, <1>h, <3>1
  <2>2. CASE i < N
    <3>1. PICK k \in 1 .. N + 1 : k = N + 1 /\ k > i + 1 /\ k - 1 = N
      BY <1>N, <2>2
    <3>2. s[k].addr = a[k - 1] /\ s[k].size = z[k - 1]
      BY <1>S, <3>1
    <3>3. s[N + 1].addr = a[N] /\ s[N + 1].size = z[N]
      BY <3>1, <3>2
    <3> QED
      BY <1>M, <3>3
  <2> QED
    BY <1>N, <2>1, <2>2
<1>10. ASSUME NEW k \in 1 .. N
       PROVE  s[k + 1].addr = s[k].addr + 16 + s[k].size
  <2>1. CASE k + 1 < i
    <3>1. k \in 1 .. N + 1 /\ k + 1 \in 1 .. N + 1 /\ k < i /\ k \in 1 .. N - 1
      BY <1>N, <2>1
    <3>2. s[k].addr = a[k] /\ s[k].size = z[k] /\ s[k + 1].addr = a[k + 1]
      BY <1>S, <2>1, <3>1
    <3> QED
      BY <1>M, <3>1, <3>2
  <2>2. CASE k + 1 = i
    <3>1. k \in 1 .. N + 1 /\ k < i /\ k \in 1 .. N - 1
      BY <1>N, <2>2
    <3>2. s[k].addr = a[k] /\ s[k].size = z[k] /\ s[k + 1].addr = a[k + 1]
      BY <1>5, <1>S, <2>2, <3>1
    <3> QED
      BY <1>M, <3>1, <3>2
  <2>3. CASE k = i
    BY <1>5, <2>3
  <2>4. CASE k = i + 1
    <3>1. i + 2 \in 1 .. N + 1 /\ i + 2 > i + 1 /\ (i + 2) - 1 = i + 1 /\ i \in 1 .. N - 1
          /\ k + 1 = i + 2
      BY <1>N, <2>4
    <3>2. s[k + 1].addr = a[i + 1] /\ a[i + 1] = a[i] + 16 + z[i]
      BY <1>M, <1>S, <3>1
    <3>3. s[k].addr = a[i] + 16 + n /\ s[k].size = z[i] - n - 16
      BY <1>5, <2>4
    <3>4. a[i] \in Nat /\ z[i] \in Nat
      BY <1>N
    <3> QED
      BY <3>2, <3>3, <3>4
  <2>5. CASE k > i + 1
    <3>1. /\ k \in 1 .. N + 1 /\ k + 1 \in 1 .. N + 1 /\ k + 1 > i + 1
          /\ (k + 1) - 1 = k /\ (k - 1) + 1 = k /\ k - 1 \in 1 .. N - 1
      BY <1>N, <2>5
    <3>2. s[k + 1].addr = a[k] /\ s[k].addr = a[k - 1] /\ s[k].size = z[k - 1]
      BY <1>S, <2>5, <3>1
    <3>3. a[k] = a[k - 1] + 16 + z[k - 1]
      BY <1>M, <3>1
    <3> QED
      BY <3>2, <3>3
  <2> QED
    BY <1>N, <2>1, <2>2, <2>3, <2>4, <2>5
<1>11. ASSUME NEW k \in 1 .. N + 1
       PROVE  /\ old[k] \in 1 .. N
              /\ s[k].addr \in Nat /\ s[k].size \in Nat
              /\ s[k].addr >= a[old[k]]
              /\ s[k].addr + 16 + s[k].size <= a[old[k]] + 16 + z[old[k]]
  <2>0. old[k] = IF k <= i THEN k ELSE k - 1
    BY DEF N
  <2> HIDE DEF old
  <2>1. k < i \/ k = i \/ k = i + 1 \/ k > i + 1
    BY <1>N
  <2>2. a[i] \in Nat /\ z[i] \in Nat
    BY <1>N
  <2>3. CASE k < i
    <3>1. old[k] = k /\ k \in 1 .. N
      BY <1>N, <2>0, <2>3
    <3>2. s[k].addr = a[k] /\ s[k].size = z[k] /\ a[k] \in Nat /\ z[k] \in Nat
      BY <1>N, <1>S, <2>3, <3>1
    <3> QED
      BY <3>1, <3>2
  <2>4. CASE k = i
    <3>1. old[k] = i /\ i \in 1 .. N
      BY <1>N, <2>0, <2>4
    <3>2. s[k].addr = a[i] /\ s[k].size = n
      BY <1>5, <2>4
    <3> QED
      BY <1>4, <2>2, <3>1, <3>2
  <2>5. CASE k = i + 1
    <3>1. old[k] = i /\ i \in 1 .. N
      BY <1>N, <2>0, <2>5
    <3>2. s[k].addr = a[i] + 16 + n /\ s[k].size = z[i] - n - 16
      BY <1>5, <2>5
    <3> QED
      BY <1>4, <2>2, <3>1, <3>2
  <2>6. CASE k > i + 1
    <3>1. old[k] = k - 1 /\ k - 1 \in 1 .. N
      BY <1>N, <2>0, <2>6
    <3>2. /\ s[k].addr = a[k - 1] /\ s[k].size = z[k - 1]
          /\ a[k - 1] \in Nat /\ z[k - 1] \in Nat
      BY <1>N, <1>S, <2>6, <3>1
    <3> QED
      BY <3>1, <3>2
  <2> QED
    BY <2>1, <2>3, <2>4, <2>5, <2>6
<1>12. ASSUME NEW j \in 1 .. N + 1, NEW k \in 1 .. N + 1, j < k
       PROVE  s[k].addr >= s[j].addr + 16 + s[j].size
  <2>1. CASE j = i /\ k = i + 1
    <3>1. s[k].addr = a[i] + 16 + n /\ s[j].addr = a[i] /\ s[j].size = n /\ a[i] \in Nat
      BY <1>5, <1>N, <2>1
    <3> QED
      BY <3>1
  <2>2. CASE ~ (j = i /\ k = i + 1)
    <3>1. old[j] = (IF j <= i THEN j ELSE j - 1) /\ old[k] = IF k <= i THEN k ELSE k - 1
      BY DEF N
    <3> HIDE DEF old
    <3>2. old[j] \in 1 .. N /\ old[k] \in 1 .. N
      BY <1>11
    <3>3. old[j] < old[k]
      BY <1>N, <1>12, <2>2, <3>1
    <3>4. a[old[k]] >= a[old[j]] + 16 + z[old[j]]
      BY <1>M, <3>2, <3>3
    <3>5. /\ a[old[k]] \in Nat /\ a[old[j]] \in Nat /\ z[old[j]] \in Nat
      BY <1>N, <3>2
    <3>6. /\ s[k].addr \in Nat /\ s[j].addr \in Nat /\ s[j].size \in Nat
          /\ s[k].addr >= a[old[k]]
          /\ s[j].addr + 16 + s[j].size <= a[old[j]] + 16 + z[old[j]]
      BY <1>11
    <3> QED
      BY <3>4, <3>5, <3>6
  <2> QED
    BY <2>1, <2>2
<1>13. Len(s) = N + 1 /\ Len(s) >= 1 /\ Len(s) - 1 = N
  BY <1>1, <1>N DEF N
<1>14. GoodList(s)
  <2>1. \A k \in 1 .. N + 1 : Aligned(s[k].addr)
    BY <1>7 DEF N
  <2> QED
    BY <1>1, <1>8, <1>9, <1>10, <1>12, <1>13, <2>1 DEF GoodList
<1> QED
  BY <1>14 DEF s

\* Whether a list is good does not depend on which of its blocks are free.
LEMMA SameShape ==
  ASSUME NEW t, GoodList(t), NEW s \in Seq(BlockSet), Len(s) = Len(t),
         \A k \in 1 .. Len(t) : s[k].addr = t[k].addr /\ s[k].size = t[k].size
  PROVE  GoodList(s)
<1>1. Len(t) \in Nat /\ Len(t) >= 1 /\ 1 \in 1 .. Len(t) /\ Len(t) \in 1 .. Len(t)
  BY DEF GoodList
<1>2. \A k \in 1 .. Len(t) - 1 : k \in 1 .. Len(t) /\ k + 1 \in 1 .. Len(t)
  BY <1>1
<1>3. \A k \in 1 .. Len(t) - 1 : s[k + 1].addr = s[k].addr + 16 + s[k].size
  BY <1>2 DEF GoodList
<1>4. \A j, k \in 1 .. Len(t) : j < k => s[k].addr >= s[j].addr + 16 + s[j].size
  BY DEF GoodList
<1>5. /\ \A k \in 1 .. Len(t) : Aligned(s[k].addr)
      /\ s[1].addr = 0 /\ s[Len(t)].addr + 16 + s[Len(t)].size = HEAP_SIZE
  BY <1>1 DEF GoodList
<1> QED
  BY <1>1, <1>3, <1>4, <1>5 DEF GoodList

LEMMA WholeList ==
  ASSUME ListInv, NEW i \in DOMAIN blocks, NEW n \in Nat, ~ WorthSplitting(blocks[i], n)
  PROVE  /\ GoodList(Taken(i, n)) /\ DOMAIN Taken(i, n) = DOMAIN blocks
         /\ \A k \in DOMAIN blocks :
              /\ Taken(i, n)[k].addr = blocks[k].addr
              /\ Taken(i, n)[k].size = blocks[k].size
              /\ Taken(i, n)[k].free = IF k = i THEN FALSE ELSE blocks[k].free
<1> DEFINE s == Taken(i, n)
           b == [blocks[i] EXCEPT !.free = FALSE]
<1>1. blocks \in Seq(BlockSet) /\ DOMAIN blocks = 1 .. Len(blocks) /\ blocks[i] \in BlockSet
  BY BlocksTyped
<1>2. s = [blocks EXCEPT ![i] = b]
  BY DEF Taken
<1>3. b \in BlockSet /\ b.addr = blocks[i].addr /\ b.size = blocks[i].size /\ b.free = FALSE
  BY <1>1 DEF BlockSet
<1> HIDE DEF b, s
<1>4. s \in Seq(BlockSet) /\ Len(s) = Len(blocks) /\ DOMAIN s = DOMAIN blocks
  BY <1>1, <1>2, <1>3
<1>5. \A k \in DOMAIN blocks : s[k] = IF k = i THEN b ELSE blocks[k]
  BY <1>1, <1>2
<1>6. \A k \in DOMAIN blocks :
        /\ s[k].addr = blocks[k].addr /\ s[k].size = blocks[k].size
        /\ s[k].free = IF k = i THEN FALSE ELSE blocks[k].free
  BY <1>3, <1>5
<1>7. GoodList(s)
  BY <1>1, <1>4, <1>6, GoodBlocks, SameShape
<1> QED
  BY <1>4, <1>6, <1>7 DEF s

LEMMA ReleasedList ==
  ASSUME ListInv, NEW p
  PROVE  /\ GoodList(Released(p)) /\ DOMAIN Released(p) = DOMAIN blocks
         /\ Len(Released(p)) = Len(blocks)
         /\ \A k \in DOMAIN blocks :
              /\ Released(p)[k].addr = blocks[k].addr
              /\ Released(p)[k].size = blocks[k].size
              /\ Released(p)[k].free = (blocks[k].free \/ DataOf(blocks[k]) = p)
<1> DEFINE s == Released(p)
           b(k) == [blocks[k] EXCEPT !.free = @ \/ DataOf(blocks[k]) = p]
<1>1. /\ blocks \in Seq(BlockSet) /\ DOMAIN blocks = 1 .. Len(blocks) /\ Len(blocks) \in Nat
      /\ \A k \in DOMAIN blocks : blocks[k] \in BlockSet
  BY BlocksTyped
<1>2. s = [k \in 1 .. Len(blocks) |-> b(k)]
  BY <1>1 DEF Released
<1>3. ASSUME NEW k \in DOMAIN blocks
      PROVE  /\ b(k) \in BlockSet /\ b(k).addr = blocks[k].addr /\ b(k).size = blocks[k].size
             /\ b(k).free = (blocks[k].free \/ DataOf(blocks[k]) = p)
  <2> DEFINE f == blocks[k].free \/ DataOf(blocks[k]) = p
             e == blocks[k]
  <2>1. f \in BOOLEAN /\ b(k) = [e EXCEPT !.free = f] /\ e \in BlockSet
    BY <1>1
  <2> HIDE DEF f, e
  <2>2. /\ [e EXCEPT !.free = f] \in BlockSet
        /\ [e EXCEPT !.free = f].addr = e.addr /\ [e EXCEPT !.free = f].size = e.size
        /\ [e EXCEPT !.free = f].free = f
    BY <2>1 DEF BlockSet
  <2> QED
    BY <2>1, <2>2, Zenon DEF f, e
<1> HIDE DEF b
<1>4. \A k \in 1 .. Len(blocks) : b(k) \in BlockSet
  BY <1>1, <1>3
<1>5. s \in Seq(BlockSet) /\ Len(s) = Len(blocks) /\ DOMAIN s = DOMAIN blocks
  BY <1>1, <1>2, <1>4
<1>6. \A k \in DOMAIN blocks : s[k] = b(k)
  BY <1>1, <1>2
<1> HIDE DEF s
<1>7. \A k \in DOMAIN blocks :
        /\ s[k].addr = blocks[k].addr /\ s[k].size = blocks[k].size
        /\ s[k].free = (blocks[k].free \/ DataOf(blocks[k]) = p)
  BY <1>3, <1>6, Zenon
<1>8. GoodList(s)
  BY <1>1, <1>5, <1>7, GoodBlocks, SameShape
<1> QED
  BY <1>5, <1>7, <1>8 DEF s

LEMMA MergedGood ==
  ASSUME ListInv, NEW i \in 1 .. Len(blocks) - 1
  PROVE  GoodList(Merged(i))
<1> DEFINE s == Merged(i)
           N == Len(blocks) - 1
           a == [k \in 1 .. N + 1 |-> blocks[k].addr]
           z == [k \in 1 .. N + 1 |-> blocks[k].size]
           from == [k \in 1 .. N |-> IF k <= i THEN k ELSE k + 1]
           to == [k \in 1 .. N |-> IF k < i THEN k ELSE k + 1]
<1>1. /\ s \in Seq(BlockSet) /\ Len(s) = N
      /\ \A k \in 1 .. N :
           s[k] = IF k < i THEN blocks[k] ELSE IF k = i THEN Grown(i) ELSE blocks[k + 1]
  BY MergedList
<1>2. /\ N \in Nat /\ N >= 1 /\ i \in 1 .. N /\ N + 1 = Len(blocks)
      /\ DOMAIN blocks = 1 .. N + 1
  BY BlocksTyped
<1>3. \A k \in 1 .. N + 1 : a[k] = blocks[k].addr /\ z[k] = blocks[k].size
  OBVIOUS
<1>4. \A k \in 1 .. N + 1 : a[k] \in Nat /\ z[k] \in Nat
  BY <1>2, BlocksTyped
<1>5. /\ from \in [1 .. N -> 1 .. N + 1] /\ to \in [1 .. N -> 1 .. N + 1]
      /\ \A k \in 1 .. N : /\ from[k] = IF k <= i THEN k ELSE k + 1
                           /\ to[k] = IF k < i THEN k ELSE k + 1
  BY <1>2
<1> HIDE DEF s, a, z, from, to
<1>6. /\ blocks[1].addr = 0
      /\ \A k \in 1 .. Len(blocks) - 1 :
           blocks[k + 1].addr = blocks[k].addr + 16 + blocks[k].size
      /\ blocks[Len(blocks)].addr + 16 + blocks[Len(blocks)].size = HEAP_SIZE
      /\ \A k, l \in DOMAIN blocks :
           k < l => blocks[l].addr >= blocks[k].addr + 16 + blocks[k].size
  BY ListTiles
<1>7. /\ \A k \in DOMAIN blocks : Aligned(blocks[k].addr)
      /\ Grown(i).addr = blocks[i].addr
      /\ Grown(i).size = blocks[i].size + blocks[i + 1].size + 16
  BY BlocksTyped, GrownTyped
<1>8. HEAP_SIZE \in Nat
  BY Numbers
<1> HIDE DEF N
<1>9. /\ a[1] = 0 /\ a[N + 1] + 16 + z[N + 1] = HEAP_SIZE
      /\ \A k \in 1 .. N : a[k + 1] = a[k] + 16 + z[k]
      /\ \A k, l \in 1 .. N + 1 : k < l => a[l] >= a[k] + 16 + z[k]
  <2>1. 1 \in 1 .. N + 1 /\ N + 1 \in 1 .. N + 1
    BY <1>2
  <2>2. \A k \in 1 .. N : k \in 1 .. N + 1 /\ k + 1 \in 1 .. N + 1
    BY <1>2
  <2>3. \A k \in 1 .. N : blocks[k + 1].addr = blocks[k].addr + 16 + blocks[k].size
    BY <1>6 DEF N
  <2>4. a[N + 1] + 16 + z[N + 1] = HEAP_SIZE
    BY <1>2, <1>3, <1>6, <2>1
  <2>5. \A k \in 1 .. N : a[k + 1] = a[k] + 16 + z[k]
    BY <1>3, <2>2, <2>3
  <2>6. ASSUME NEW k \in 1 .. N + 1, NEW l \in 1 .. N + 1, k < l
        PROVE  a[l] >= a[k] + 16 + z[k]
    <3>1. blocks[l].addr >= blocks[k].addr + 16 + blocks[k].size
      BY <1>2, <1>6, <2>6
    <3> QED
      BY <1>3, <3>1, Zenon
  <2>7. a[1] = 0
    BY <1>3, <1>6, <2>1
  <2> QED
    BY <2>4, <2>5, <2>6, <2>7
\* Each block of the shorter list reaches from an old one to an old one.
<1>10. ASSUME NEW k \in 1 .. N
       PROVE  /\ s[k].addr = a[from[k]] /\ s[k].addr \in Nat /\ s[k].size \in Nat
              /\ s[k].addr + 16 + s[k].size = a[to[k]] + 16 + z[to[k]]
  <2>0. k \in 1 .. N + 1 /\ k + 1 \in 1 .. N + 1 /\ i \in 1 .. N + 1 /\ i + 1 \in 1 .. N + 1
    BY <1>2
  <2>1. CASE k < i
    <3>1. s[k] = blocks[k] /\ from[k] = k /\ to[k] = k
      BY <1>1, <1>2, <1>5, <2>1
    <3> QED
      BY <1>3, <1>4, <2>0, <3>1
  <2>2. CASE k = i
    <3>1. s[k] = Grown(i) /\ from[k] = i /\ to[k] = i + 1
      BY <1>1, <1>2, <1>5, <2>2
    <3>2. a[i + 1] = a[i] + 16 + z[i] /\ a[i] \in Nat /\ z[i] \in Nat /\ z[i + 1] \in Nat
      BY <1>2, <1>4, <1>9, <2>0
    <3>3. s[k].addr = a[i] /\ s[k].size = z[i] + z[i + 1] + 16
      BY <1>3, <1>7, <2>0, <3>1
    <3>4. s[k].addr + 16 + s[k].size = a[i + 1] + 16 + z[i + 1]
      <4>1. a[i] + 16 + (z[i] + z[i + 1] + 16) = (a[i] + 16 + z[i]) + 16 + z[i + 1]
        BY <3>2, TwoBlocks
      <4> QED
        BY <3>2, <3>3, <4>1, Zenon
    <3> QED
      BY <3>1, <3>2, <3>3, <3>4
  <2>3. CASE k > i
    <3>1. s[k] = blocks[k + 1] /\ from[k] = k + 1 /\ to[k] = k + 1
      BY <1>1, <1>2, <1>5, <2>3
    <3> QED
      BY <1>3, <1>4, <2>0, <3>1
  <2> QED
    BY <1>2, <2>1, <2>2, <2>3
<1>11. \A k \in 1 .. N : Aligned(s[k].addr)
  <2>1. \A k \in 1 .. N + 1 : Aligned(a[k])
    BY <1>2, <1>3, <1>7
  <2> QED
    BY <1>5, <1>10, <2>1
<1>12. s[1].addr = 0
  <2>1. 1 \in 1 .. N /\ from[1] = 1
    BY <1>2, <1>5
  <2> QED
    BY <1>9, <1>10, <2>1
<1>13. s[N].addr + 16 + s[N].size = HEAP_SIZE
  <2>1. N \in 1 .. N /\ to[N] = N + 1
    BY <1>2, <1>5
  <2> QED
    BY <1>9, <1>10, <2>1
<1>14. ASSUME NEW k \in 1 .. N - 1
       PROVE  s[k + 1].addr = s[k].addr + 16 + s[k].size
  <2>1. k \in 1 .. N /\ k + 1 \in 1 .. N
    BY <1>2
  <2>2. from[k + 1] = to[k] + 1 /\ to[k] \in 1 .. N
    <3>1. /\ from[k + 1] = IF k + 1 <= i THEN k + 1 ELSE (k + 1) + 1
          /\ to[k] = IF k < i THEN k ELSE k + 1
      BY <1>5, <2>1
    <3>2. CASE k < i
      BY <1>2, <2>1, <3>1, <3>2
    <3>3. CASE ~ (k < i)
      BY <1>2, <2>1, <3>1, <3>3
    <3> QED
      BY <3>2, <3>3
  <2>3. a[to[k] + 1] = a[to[k]] + 16 + z[to[k]]
    BY <1>9, <2>2
  <2>4. s[k + 1].addr = a[to[k] + 1]
    BY <1>10, <2>1, <2>2
  <2>5. s[k].addr + 16 + s[k].size = a[to[k]] + 16 + z[to[k]]
    BY <1>10, <2>1
  <2> QED
    BY <2>3, <2>4, <2>5
<1>15. ASSUME NEW j \in 1 .. N, NEW k \in 1 .. N, j < k
       PROVE  s[k].addr >= s[j].addr + 16 + s[j].size
  <2>1. to[j] < from[k] /\ to[j] \in 1 .. N + 1 /\ from[k] \in 1 .. N + 1
    <3>1. /\ from[k] = IF k <= i THEN k ELSE k + 1
          /\ to[j] = IF j < i THEN j ELSE j + 1
      BY <1>5
    <3>2. CASE j < i
      BY <1>2, <1>15, <3>1, <3>2
    <3>3. CASE ~ (j < i)
      BY <1>2, <1>15, <3>1, <3>3
    <3> QED
      BY <3>2, <3>3
  <2>2. a[from[k]] >= a[to[j]] + 16 + z[to[j]]
    BY <1>9, <2>1
  <2>3. s[k].addr = a[from[k]]
    BY <1>10
  <2>4. s[j].addr + 16 + s[j].size = a[to[j]] + 16 + z[to[j]]
    BY <1>10
  <2> QED
    BY <2>2, <2>3, <2>4
<1>16. GoodList(s)
  BY <1>1, <1>2, <1>11, <1>12, <1>13, <1>14, <1>15 DEF GoodList
<1> QED
  BY <1>16 DEF s

-----------------------------------------------------------------------------
(* The blocks as a set: what the properties say of them does not depend on *)
(* their places                                                            *)

Used(s) == {DataOf(b) : b \in {c \in Range(s) : ~ c.free}}

LEMMA ElementsOf ==
  ASSUME NEW S, NEW s \in Seq(S)
  PROVE  \A b \in Range(s) : b \in S /\ \E k \in 1 .. Len(s) : b = s[k]
<1> TAKE b \in Range(s)
<1>1. DOMAIN s = 1 .. Len(s) /\ \A k \in 1 .. Len(s) : s[k] \in S
  OBVIOUS
<1>2. PICK k \in 1 .. Len(s) : b = s[k]
  BY <1>1, Zenon DEF Range
<1> QED
  BY <1>1, <1>2, Zenon

\* Two blocks of a good list are apart, each with its header.
LEMMA BlocksApart ==
  ASSUME NEW s, GoodList(s), NEW b \in Range(s), NEW c \in Range(s)
  PROVE  /\ b \in BlockSet /\ b.addr \in Nat /\ b.size \in Nat /\ b.free \in BOOLEAN
         /\ CanaryOf(b) = b.addr + 12 /\ DataOf(b) = b.addr + 16
         /\ CanaryOf(b) \notin c.addr .. c.addr + 11
         /\ CanaryOf(b) \in Pointers /\ DataOf(b) \in Offsets
         /\ DataOf(b) = DataOf(c) => b = c
         /\ b # c => b.addr >= c.addr + 16 + c.size \/ c.addr >= b.addr + 16 + b.size
<1>1. s \in Seq(BlockSet)
  BY DEF GoodList
<1>2. PICK i \in 1 .. Len(s), j \in 1 .. Len(s) : b = s[i] /\ c = s[j]
  <2>1. (\E k \in 1 .. Len(s) : b = s[k]) /\ \E k \in 1 .. Len(s) : c = s[k]
    BY <1>1, ElementsOf
  <2> QED
    BY <2>1, Zenon
<1>3. /\ CanaryOf(s[i]) \notin s[j].addr .. s[j].addr + 11
      /\ CanaryOf(s[i]) \in Pointers
      /\ DataOf(s[i]) \in Offsets
      /\ DataOf(s[i]) = DataOf(s[j]) => i = j
  BY CanaryApart
<1>4. b \in BlockSet
  BY <1>1, ElementsOf
<1>5. b.addr \in Nat /\ b.size \in Nat /\ b.free \in BOOLEAN
  <2>1. b.addr \in Offsets /\ b.size \in Offsets /\ b.free \in BOOLEAN
    BY <1>4 DEF BlockSet
  <2> QED
    BY <2>1, Numbers DEF Offsets
<1>6. CanaryOf(b) = b.addr + 12 /\ DataOf(b) = b.addr + 16
  BY DEF CanaryOf, DataOf, BLOCK_SIZE
<1>7. b # c => b.addr >= c.addr + 16 + c.size \/ c.addr >= b.addr + 16 + b.size
  <2>1. SUFFICES ASSUME b # c
                 PROVE  b.addr >= c.addr + 16 + c.size \/ c.addr >= b.addr + 16 + b.size
    OBVIOUS
  <2>2. i < j \/ j < i
    <3>1. i # j
      BY <1>2, <2>1
    <3> QED
      BY <1>1, <3>1
  <2>3. \A k, l \in 1 .. Len(s) : k < l => s[l].addr >= s[k].addr + 16 + s[k].size
    BY DEF GoodList
  <2> QED
    BY <1>2, <2>2, <2>3
<1> QED
  BY <1>2, <1>3, <1>4, <1>5, <1>6, <1>7

\* A split replaces the block by its halves.
LEMMA SplitRange ==
  ASSUME ListInv, NEW i \in DOMAIN blocks, NEW n \in Nat, Aligned(n),
         blocks[i].size >= n, WorthSplitting(blocks[i], n)
  PROVE  Range(Taken(i, n)) = (Range(blocks) \ {blocks[i]})
                              \cup {FirstHalf(i, n), SecondHalf(blocks[i], n)}
<1> DEFINE s == Taken(i, n)
           N == Len(blocks)
           first == FirstHalf(i, n)
           second == SecondHalf(blocks[i], n)
<1>1. /\ s \in Seq(BlockSet) /\ Len(s) = N + 1
      /\ \A k \in 1 .. N + 1 :
           s[k] = IF k < i THEN blocks[k] ELSE IF k = i THEN first
                  ELSE IF k = i + 1 THEN second ELSE blocks[k - 1]
  BY SplitList
<1>2. N \in Nat /\ i \in 1 .. N /\ DOMAIN blocks = 1 .. N
  BY BlocksTyped
<1>3. \A j, k \in 1 .. N : blocks[j] = blocks[k] => j = k
  <2>1. GoodList(blocks)
    BY GoodBlocks
  <2> QED
    BY <2>1, CanaryApart
<1>4. DOMAIN s = 1 .. N + 1
  BY <1>1, <1>2
<1> HIDE DEF s, first, second, N
<1>5. ASSUME NEW k \in 1 .. N + 1
      PROVE  s[k] \in (Range(blocks) \ {blocks[i]}) \cup {first, second}
  <2>1. CASE k < i
    <3>1. s[k] = blocks[k] /\ k \in 1 .. N /\ k # i
      BY <1>1, <1>2, <2>1
    <3> QED
      BY <1>2, <1>3, <3>1, Zenon DEF Range
  <2>2. CASE k = i
    <3>1. s[k] = first
      BY <1>1, <1>2, <2>2
    <3> QED
      BY <3>1
  <2>3. CASE k = i + 1
    <3>1. s[k] = second
      BY <1>1, <1>2, <2>3
    <3> QED
      BY <3>1
  <2>4. CASE k > i + 1
    <3>1. ~ (k < i) /\ k # i /\ k # i + 1 /\ k - 1 \in 1 .. N /\ k - 1 # i
      BY <1>2, <2>4
    <3>2. s[k] = blocks[k - 1]
      BY <1>1, <3>1
    <3> QED
      BY <1>2, <1>3, <3>1, <3>2, Zenon DEF Range
  <2> QED
    BY <1>2, <2>1, <2>2, <2>3, <2>4
<1>6. ASSUME NEW j \in 1 .. N, j # i
      PROVE  blocks[j] \in Range(s)
  <2>1. CASE j < i
    <3>1. j \in 1 .. N + 1 /\ s[j] = blocks[j]
      BY <1>1, <1>2, <2>1
    <3> QED
      BY <1>4, <3>1, Zenon DEF Range
  <2>2. CASE j > i
    <3>1. PICK k \in 1 .. N + 1 : ~ (k < i) /\ k # i /\ k # i + 1 /\ k - 1 = j
      <4>1. /\ j + 1 \in 1 .. N + 1 /\ ~ (j + 1 < i) /\ j + 1 # i /\ j + 1 # i + 1
            /\ (j + 1) - 1 = j
        BY <1>2, <2>2
      <4> QED
        BY <4>1
    <3>2. s[k] = blocks[j]
      BY <1>1, <3>1
    <3> QED
      BY <1>4, <3>2, Zenon DEF Range
  <2> QED
    BY <1>2, <1>6, <2>1, <2>2
<1>7. first \in Range(s) /\ second \in Range(s)
  <2>1. i \in 1 .. N + 1 /\ i + 1 \in 1 .. N + 1 /\ s[i] = first /\ s[i + 1] = second
    BY <1>1, <1>2
  <2> QED
    BY <1>4, <2>1, Zenon DEF Range
<1>8. Range(s) \subseteq (Range(blocks) \ {blocks[i]}) \cup {first, second}
  BY <1>4, <1>5, Zenon DEF Range
<1>9. \A b \in Range(blocks) : b # blocks[i] => b \in Range(s)
  BY <1>2, <1>6, Zenon DEF Range
<1> QED
  BY <1>7, <1>8, <1>9 DEF s, first, second

\* Without a split the block is only marked used.
Marked(i) == [blocks[i] EXCEPT !.free = FALSE]

LEMMA WholeRange ==
  ASSUME ListInv, NEW i \in DOMAIN blocks, NEW n \in Nat, ~ WorthSplitting(blocks[i], n)
  PROVE  /\ Range(Taken(i, n)) = (Range(blocks) \ {blocks[i]}) \cup {Marked(i)}
         /\ Marked(i).addr = blocks[i].addr /\ Marked(i).size = blocks[i].size
         /\ Marked(i).free = FALSE
<1> DEFINE s == Taken(i, n)
<1>1. s = [blocks EXCEPT ![i] = Marked(i)]
  BY DEF Taken, Marked
<1>2. blocks \in Seq(BlockSet) /\ DOMAIN blocks = 1 .. Len(blocks) /\ blocks[i] \in BlockSet
  BY BlocksTyped
<1>3. Marked(i).addr = blocks[i].addr /\ Marked(i).size = blocks[i].size /\ Marked(i).free = FALSE
  BY <1>2 DEF Marked, BlockSet
<1>4. DOMAIN s = DOMAIN blocks /\ \A k \in DOMAIN blocks : s[k] = IF k = i THEN Marked(i) ELSE blocks[k]
  BY <1>1, <1>2
<1>5. \A j, k \in DOMAIN blocks : blocks[j] = blocks[k] => j = k
  <2>1. GoodList(blocks)
    BY GoodBlocks
  <2> QED
    BY <1>2, <2>1, CanaryApart
<1> HIDE DEF s
<1>6. Range(s) = (Range(blocks) \ {blocks[i]}) \cup {Marked(i)}
  BY <1>4, <1>5 DEF Range
<1> QED
  BY <1>3, <1>6 DEF s

\* A release frees the blocks whose data begin at p, and touches no other.
LEMMA ReleasedRange ==
  ASSUME ListInv, NEW p
  PROVE  /\ \A b \in Range(Released(p)) : \E c \in Range(blocks) :
              /\ b.addr = c.addr /\ b.size = c.size /\ DataOf(b) = DataOf(c)
              /\ CanaryOf(b) = CanaryOf(c) /\ b.free = (c.free \/ DataOf(c) = p)
         /\ \A c \in Range(blocks) : \E b \in Range(Released(p)) :
              /\ b.addr = c.addr /\ DataOf(b) = DataOf(c) /\ CanaryOf(b) = CanaryOf(c)
              /\ b.free = (c.free \/ DataOf(c) = p)
<1> DEFINE s == Released(p)
<1>1. /\ DOMAIN s = DOMAIN blocks
      /\ \A k \in DOMAIN blocks :
           /\ s[k].addr = blocks[k].addr /\ s[k].size = blocks[k].size
           /\ s[k].free = (blocks[k].free \/ DataOf(blocks[k]) = p)
  BY ReleasedList, Zenon
<1> HIDE DEF s
<1>2. \A k \in DOMAIN blocks : DataOf(s[k]) = DataOf(blocks[k]) /\ CanaryOf(s[k]) = CanaryOf(blocks[k])
  BY <1>1, Zenon DEF DataOf, CanaryOf
<1>3. \A b \in Range(s) : \E k \in DOMAIN blocks : b = s[k] /\ blocks[k] \in Range(blocks)
  BY <1>1, Zenon DEF Range
<1>4. \A c \in Range(blocks) : \E k \in DOMAIN blocks : c = blocks[k] /\ s[k] \in Range(s)
  BY <1>1, Zenon DEF Range
<1>5. \A b \in Range(s) : \E c \in Range(blocks) :
        /\ b.addr = c.addr /\ b.size = c.size /\ DataOf(b) = DataOf(c)
        /\ CanaryOf(b) = CanaryOf(c) /\ b.free = (c.free \/ DataOf(c) = p)
  <2> TAKE b \in Range(s)
  <2>1. PICK k \in DOMAIN blocks : b = s[k] /\ blocks[k] \in Range(blocks)
    BY <1>3
  <2>2. /\ b.addr = blocks[k].addr /\ b.size = blocks[k].size
        /\ DataOf(b) = DataOf(blocks[k]) /\ CanaryOf(b) = CanaryOf(blocks[k])
        /\ b.free = (blocks[k].free \/ DataOf(blocks[k]) = p)
    BY <1>1, <1>2, <2>1, Zenon
  <2> QED
    BY <2>1, <2>2, Zenon
<1>6. \A c \in Range(blocks) : \E b \in Range(s) :
        /\ b.addr = c.addr /\ DataOf(b) = DataOf(c) /\ CanaryOf(b) = CanaryOf(c)
        /\ b.free = (c.free \/ DataOf(c) = p)
  <2> TAKE c \in Range(blocks)
  <2>1. PICK k \in DOMAIN blocks : c = blocks[k] /\ s[k] \in Range(s)
    BY <1>4
  <2>2. /\ s[k].addr = c.addr
        /\ DataOf(s[k]) = DataOf(c) /\ CanaryOf(s[k]) = CanaryOf(c)
        /\ s[k].free = (c.free \/ DataOf(c) = p)
    BY <1>1, <1>2, <2>1, Zenon
  <2> QED
    BY <2>1, <2>2, Zenon
<1> QED
  BY <1>5, <1>6, Zenon DEF s

\* A merge replaces the two neighbours by the first of them, grown.
LEMMA MergedRange ==
  ASSUME ListInv, NEW i \in 1 .. Len(blocks) - 1
  PROVE  Range(Merged(i)) = (Range(blocks) \ {blocks[i], blocks[i + 1]}) \cup {Grown(i)}
<1> DEFINE s == Merged(i)
           N == Len(blocks) - 1
<1>1. /\ s \in Seq(BlockSet) /\ Len(s) = N
      /\ \A k \in 1 .. N :
           s[k] = IF k < i THEN blocks[k] ELSE IF k = i THEN Grown(i) ELSE blocks[k + 1]
  BY MergedList
<1>2. N \in Nat /\ i \in 1 .. N /\ DOMAIN blocks = 1 .. N + 1
  BY BlocksTyped
<1>3. \A j, k \in 1 .. N + 1 : blocks[j] = blocks[k] => j = k
  <2>1. GoodList(blocks) /\ N + 1 = Len(blocks)
    BY BlocksTyped, GoodBlocks
  <2> QED
    BY <2>1, CanaryApart
<1>4. DOMAIN s = 1 .. N
  BY <1>1, <1>2
<1> HIDE DEF s, N
<1>5. ASSUME NEW k \in 1 .. N
      PROVE  s[k] \in (Range(blocks) \ {blocks[i], blocks[i + 1]}) \cup {Grown(i)}
  <2>0. i \in 1 .. N + 1 /\ i + 1 \in 1 .. N + 1
    BY <1>2
  <2>1. CASE k < i
    <3>1. s[k] = blocks[k] /\ k \in 1 .. N + 1 /\ k # i /\ k # i + 1
      BY <1>1, <1>2, <2>1
    <3> QED
      BY <1>2, <1>3, <2>0, <3>1, Zenon DEF Range
  <2>2. CASE k = i
    <3>1. s[k] = Grown(i)
      BY <1>1, <1>2, <2>2
    <3> QED
      BY <3>1
  <2>3. CASE k > i
    <3>1. ~ (k < i) /\ k # i /\ k + 1 \in 1 .. N + 1 /\ k + 1 # i /\ k + 1 # i + 1
      BY <1>2, <2>3
    <3>2. s[k] = blocks[k + 1]
      BY <1>1, <3>1
    <3> QED
      BY <1>2, <1>3, <2>0, <3>1, <3>2, Zenon DEF Range
  <2> QED
    BY <1>2, <2>1, <2>2, <2>3
<1>6. ASSUME NEW j \in 1 .. N + 1, j # i, j # i + 1
      PROVE  blocks[j] \in Range(s)
  <2>1. CASE j < i
    <3>1. j \in 1 .. N /\ s[j] = blocks[j]
      BY <1>1, <1>2, <2>1
    <3> QED
      BY <1>4, <3>1, Zenon DEF Range
  <2>2. CASE j > i
    <3>1. PICK k \in 1 .. N : ~ (k < i) /\ k # i /\ k + 1 = j
      BY <1>2, <1>6, <2>2
    <3>2. s[k] = blocks[j]
      BY <1>1, <3>1
    <3> QED
      BY <1>4, <3>2, Zenon DEF Range
  <2> QED
    BY <1>2, <1>6, <2>1, <2>2
<1>7. Grown(i) \in Range(s)
  <2>1. i \in 1 .. N /\ s[i] = Grown(i)
    BY <1>1, <1>2
  <2> QED
    BY <1>4, <2>1, Zenon DEF Range
<1>8. Range(s) \subseteq (Range(blocks) \ {blocks[i], blocks[i + 1]}) \cup {Grown(i)}
  BY <1>4, <1>5, Zenon DEF Range
<1>9. \A b \in Range(blocks) : b # blocks[i] /\ b # blocks[i + 1] => b \in Range(s)
  BY <1>2, <1>6, Zenon DEF Range
<1> QED
  BY <1>7, <1>8, <1>9 DEF s

-----------------------------------------------------------------------------
(* The invariant, action by action                                         *)

\* The conjuncts that speak of places in the list, said of its set of blocks.
AsSets ==
  /\ UsedIsOwned <=> Used(blocks) = DOMAIN live
  /\ EnoughBytes <=> \A b \in Range(blocks) :
                       DataOf(b) \in DOMAIN live => b.size >= live[DataOf(b)]
  /\ HeadersIntact <=> (~ strayed => \A b \in Range(blocks) : CanaryOf(b) \in canaries)
  /\ LinksSafe <=> \A c \in canaries : \A b \in Range(blocks) : c \notin b.addr .. b.addr + 11

LEMMA SetsNow == AsSets
<1>2. \A k \in DOMAIN blocks : blocks[k] \in Range(blocks)
  BY Zenon DEF Range
<1>3. \A b \in Range(blocks) : \E k \in DOMAIN blocks : b = blocks[k]
  BY Zenon DEF Range
<1>4. {DataOf(blocks[i]) : i \in {j \in DOMAIN blocks : ~ blocks[j].free}} = Used(blocks)
  BY <1>2, <1>3 DEF Used
<1>6. UsedIsOwned <=> Used(blocks) = DOMAIN live
  BY <1>4 DEF UsedIsOwned
<1>7. EnoughBytes <=> \A b \in Range(blocks) :
                        DataOf(b) \in DOMAIN live => b.size >= live[DataOf(b)]
  BY <1>2, <1>3, Zenon DEF EnoughBytes
<1>8. HeadersIntact <=> (~ strayed => \A b \in Range(blocks) : CanaryOf(b) \in canaries)
  BY <1>2, <1>3, Zenon DEF HeadersIntact
<1>9. LinksSafe <=> \A c \in canaries : \A b \in Range(blocks) : c \notin b.addr .. b.addr + 11
  BY <1>2, <1>3, Zenon DEF LinksSafe
<1> QED
  BY <1>6, <1>7, <1>8, <1>9 DEF AsSets

LEMMA SetsNext == AsSets'
BY SetsNow, PTL

LEMMA GoodNext ==
  GoodList(blocks')
  => /\ blocks' \in Seq([addr : Offsets, size : Offsets, free : BOOLEAN])
     /\ \A i \in DOMAIN blocks' : blocks'[i].addr % 4 = 0
     /\ Tiling' /\ Apart'
<1> DEFINE Good == /\ blocks \in Seq([addr : Offsets, size : Offsets, free : BOOLEAN])
                   /\ \A i \in DOMAIN blocks : blocks[i].addr % 4 = 0
                   /\ Tiling /\ Apart
<1>1. GoodList(blocks) => Good
  BY GoodBlocks
<1>2. (GoodList(blocks) => Good)'
  BY <1>1, PTL
<1> QED
  BY <1>2

\* What remains to be shown of a step once its list is known to be good.
LEMMA StepTyped ==
  ASSUME GoodList(blocks'), canaries' \subseteq Pointers,
         curr' \in 0 .. Len(blocks') + 1,
         DOMAIN live' \subseteq Offsets, \A p \in DOMAIN live' : live'[p] \in Requests
  PROVE  ListInv'
BY GoodNext DEF ListInv, TypeOK

\* Once kheap_defrag has not begun, or has ended, no block is behind it.
LEMMA NothingPassed ==
  ASSUME curr' = 0
  PROVE  MergedSoFar'
BY DEF MergedSoFar

LEMMA MallocKeeps ==
  ASSUME IInv, NEW size \in Requests, Malloc(size)
  PROVE  /\ IInv'
         /\ HonestRequests /\ HonestInv => HonestInv'
<1> DEFINE n == Align(size)
<1>1. n \in Nat /\ Aligned(n)
  BY AlignRounds
<1> HIDE DEF n
<1>2. PICK i \in DOMAIN blocks :
        /\ Fits(blocks[i], n) /\ curr = 0
        /\ blocks' = Taken(i, n)
        /\ canaries' = IF WorthSplitting(blocks[i], n)
                       THEN HeaderWritten(SecondHalf(blocks[i], n)) ELSE canaries
        /\ live' = [p \in DOMAIN live \cup {DataOf(blocks[i])} |->
                      IF p = DataOf(blocks[i]) THEN size ELSE live[p]]
        /\ UNCHANGED <<curr, strayed>>
  BY DEF Malloc, n
<1> DEFINE b == blocks[i]
<1>3. b.free /\ b.size >= n /\ ListInv /\ b \in Range(blocks)
  <2>1. b \in Range(blocks)
    BY Zenon DEF Range
  <2> QED
    BY <1>2, <2>1 DEF Fits, IInv
\* The block taken and, after a split, the block made of the rest.
<1> DEFINE mine == IF WorthSplitting(b, n) THEN FirstHalf(i, n) ELSE Marked(i)
           extra == IF WorthSplitting(b, n) THEN {SecondHalf(b, n)} ELSE {}
<1>5. /\ GoodList(blocks')
      /\ Range(blocks') = (Range(blocks) \ {b}) \cup {mine} \cup extra
      /\ mine.addr = b.addr /\ ~ mine.free /\ mine.size >= n
      /\ \A e \in extra : e.free
      /\ canaries' \subseteq canaries \cup {CanaryOf(e) : e \in extra}
      /\ \A e \in extra : CanaryOf(e) \in canaries'
      /\ \A e \in extra : \A c \in canaries \cap canaries' :
           c \notin e.addr .. e.addr + 11 \/ c = CanaryOf(e)
      /\ \A c \in canaries : c \in canaries' \/ \E e \in extra : c \in e.addr .. e.addr + 11
  <2>1. CASE WorthSplitting(b, n)
    <3> DEFINE second == SecondHalf(b, n)
               first == FirstHalf(i, n)
    <3>1. GoodList(blocks')
      BY <1>1, <1>2, <1>3, <2>1, SplitGood
    <3>2. Range(blocks') = (Range(blocks) \ {b}) \cup {first, second}
      BY <1>1, <1>2, <1>3, <2>1, SplitRange
    <3>3. first.addr = b.addr /\ first.free = FALSE /\ first.size = n /\ second.free = TRUE
      BY <1>1, <1>3, <2>1, HalvesTyped
    <3>4. canaries' = (canaries \ (second.addr .. second.addr + 11)) \cup {CanaryOf(second)}
      BY <1>2, <2>1 DEF HeaderWritten
    <3>5. first.size >= n
      BY <1>1, <3>3
    <3>6. mine = first /\ extra = {second}
      BY <2>1
    <3> HIDE DEF second, first, mine, extra
    <3> QED
      BY <3>1, <3>2, <3>3, <3>4, <3>5, <3>6
  <2>2. CASE ~ WorthSplitting(b, n)
    <3>1. GoodList(blocks')
      BY <1>1, <1>2, <1>3, <2>2, WholeList
    <3>2. /\ Range(blocks') = (Range(blocks) \ {b}) \cup {Marked(i)}
          /\ Marked(i).addr = b.addr /\ Marked(i).size = b.size /\ Marked(i).free = FALSE
      BY <1>1, <1>2, <1>3, <2>2, WholeRange
    <3>3. canaries' = canaries
      BY <1>2, <2>2
    <3>4. mine = Marked(i) /\ extra = {}
      BY <2>2
    <3>5. mine.size >= n
      BY <1>3, <3>2, <3>4
    <3> HIDE DEF mine, extra
    <3> QED
      BY <3>1, <3>2, <3>3, <3>4, <3>5
  <2> QED
    BY <2>1, <2>2
<1> HIDE DEF mine, extra
<1>6. DataOf(mine) = DataOf(b) /\ CanaryOf(mine) = CanaryOf(b)
  BY <1>5 DEF DataOf, CanaryOf
<1>7. GoodList(blocks)
  BY <1>3, GoodBlocks
<1>8. /\ mine \in Range(blocks') /\ \A e \in extra : e \in Range(blocks')
      /\ \A c \in Range(blocks) : c # b => c \in Range(blocks')
      /\ \A d \in Range(blocks') : d = mine \/ d \in extra \/ (d \in Range(blocks) /\ d # b)
  BY <1>5
<1> HIDE DEF b
<1>9. DOMAIN live' = DOMAIN live \cup {DataOf(b)}
  BY <1>2 DEF b
<1>10. \A p \in DOMAIN live' : live'[p] = IF p = DataOf(b) THEN size ELSE live[p]
  BY <1>2, <1>9 DEF b
<1>11. Used(blocks) = DOMAIN live
  BY SetsNow DEF IInv, AsSets
<1>12. ListInv'
  <2>1. \A e \in extra : CanaryOf(e) \in Pointers
    BY <1>5, <1>8, BlocksApart
  <2>2. canaries' \subseteq Pointers
    BY <1>3, <1>5, <2>1 DEF ListInv, TypeOK
  <2>3. DataOf(b) \in Offsets
    BY <1>3, <1>7, BlocksApart
  <2>4. DOMAIN live' \subseteq Offsets /\ \A p \in DOMAIN live' : live'[p] \in Requests
    BY <1>3, <1>9, <1>10, <2>3 DEF ListInv, TypeOK
  <2>5. curr' \in 0 .. Len(blocks') + 1
    <3>1. Len(blocks') \in Nat
      BY <1>5 DEF GoodList
    <3> QED
      BY <1>2, <3>1
  <2> QED
    BY <1>5, <2>2, <2>4, <2>5, StepTyped
<1>13. UsedIsOwned'
  <2>1. \A c \in Range(blocks) : ~ c.free => c \in Range(blocks')
    BY <1>3, <1>8
  <2>2. Used(blocks') = Used(blocks) \cup {DataOf(b)}
    BY <1>5, <1>6, <1>8, <2>1 DEF Used
  <2> QED
    BY <1>9, <1>11, <2>2, SetsNext DEF AsSets
<1>15. LinksSafe'
  <2>1. SUFFICES ASSUME NEW c \in canaries', NEW d \in Range(blocks')
                 PROVE  c \notin d.addr .. d.addr + 11
    BY SetsNext DEF AsSets
  <2>2. ASSUME NEW e \in extra, c = CanaryOf(e)
        PROVE  c \notin d.addr .. d.addr + 11
    BY <1>5, <1>8, <2>2, BlocksApart
  <2>3. CASE c \in canaries
    <3>1. \A f \in Range(blocks) : c \notin f.addr .. f.addr + 11
      BY <2>3, SetsNow DEF IInv, AsSets
    <3>2. d \in extra => c \notin d.addr .. d.addr + 11 \/ c = CanaryOf(d)
      BY <1>5, <2>3
    <3> QED
      BY <1>3, <1>5, <1>8, <2>2, <3>1, <3>2
  <2> QED
    BY <1>5, <2>2, <2>3
<1>16. MergedSoFar'
  BY <1>2, NothingPassed
<1>17. ASSUME HonestRequests, HonestInv PROVE HeadersIntact'
  <2>1. strayed' = strayed
    BY <1>2
  <2>2. SUFFICES ASSUME ~ strayed, NEW d \in Range(blocks')
                 PROVE  CanaryOf(d) \in canaries'
    BY <2>1, SetsNext DEF AsSets
  <2>3. \A c \in Range(blocks) : CanaryOf(c) \in canaries
    BY <1>17, <2>2, SetsNow DEF HonestInv, AsSets
  <2>4. d \in extra => CanaryOf(d) \in canaries'
    BY <1>5
  <2>5. d \notin extra => CanaryOf(d) \in canaries
    BY <1>3, <1>6, <1>8, <2>3
  <2>6. \A e \in extra : CanaryOf(d) \notin e.addr .. e.addr + 11
    BY <1>5, <1>8, BlocksApart
  <2> QED
    BY <1>5, <2>4, <2>5, <2>6
<1>18. ASSUME HonestRequests, HonestInv PROVE EnoughBytes'
  <2>1. SUFFICES ASSUME NEW d \in Range(blocks'), DataOf(d) \in DOMAIN live'
                 PROVE  d.size >= live'[DataOf(d)]
    BY SetsNext DEF AsSets
  <2>2. CASE d = mine
    <3>1. size \in Nat /\ size <= WORD - 4 /\ WORD \in Nat
      BY <1>18, Numbers DEF HonestRequests
    <3>2. n >= size
      BY <3>1, AlignRounds DEF n
    <3>3. mine.size \in Nat
      BY <1>5, <1>8, BlocksApart
    <3>4. live'[DataOf(d)] = size
      BY <1>6, <1>10, <2>1, <2>2
    <3> QED
      BY <1>1, <1>5, <2>2, <3>1, <3>2, <3>3, <3>4
  <2>3. CASE d \in Range(blocks) /\ d # b
    <3>1. DataOf(d) # DataOf(b)
      BY <1>3, <1>7, <2>3, BlocksApart
    <3>2. DataOf(d) \in DOMAIN live /\ live'[DataOf(d)] = live[DataOf(d)]
      BY <1>9, <1>10, <2>1, <3>1
    <3> QED
      BY <1>18, <2>3, <3>2, SetsNow DEF HonestInv, AsSets
  <2>4. CASE d \in extra
    <3>1. d.free /\ d # mine
      BY <1>5, <2>4
    <3>2. DataOf(d) # DataOf(b)
      BY <1>5, <1>6, <1>8, <3>1, BlocksApart
    <3>3. DataOf(d) \in Used(blocks)
      BY <1>9, <1>11, <2>1, <3>2
    <3>4. PICK c \in Range(blocks) : ~ c.free /\ DataOf(c) = DataOf(d)
      BY <3>3 DEF Used
    <3>5. c \in Range(blocks')
      BY <1>3, <1>8, <3>4
    <3>6. c = d
      BY <1>5, <3>4, <3>5, BlocksApart
    <3> QED
      BY <3>1, <3>4, <3>6
  <2> QED
    BY <1>8, <2>2, <2>3, <2>4
<1> QED
  BY <1>12, <1>13, <1>15, <1>16, <1>17, <1>18 DEF IInv, HonestInv, ListInv

\* Filling clears words of its block only.
LEMMA FillKeeps ==
  ASSUME IInv, NEW p \in DOMAIN live, Fill(p)
  PROVE  /\ IInv'
         /\ HonestInv => HonestInv'
<1>1. /\ blocks' = blocks /\ live' = live /\ curr' = curr /\ curr = 0
      /\ strayed' = strayed
      /\ canaries' = canaries \ (p .. p + live[p] - 1)
  BY DEF Fill
<1>2. GoodList(blocks) /\ GoodList(blocks')
  BY <1>1, GoodBlocks DEF IInv
<1>3. Used(blocks) = DOMAIN live
  BY SetsNow DEF IInv, AsSets
<1>4. ListInv'
  BY <1>1, <1>2, StepTyped DEF IInv, ListInv, TypeOK
<1>5. UsedIsOwned' /\ LinksSafe'
  BY <1>1, SetsNow, SetsNext DEF IInv, AsSets
<1>6. MergedSoFar'
  BY <1>1, NothingPassed
<1>7. ASSUME HonestInv PROVE EnoughBytes'
  BY <1>1, <1>7, SetsNow, SetsNext DEF HonestInv, AsSets
<1>8. ASSUME HonestInv PROVE HeadersIntact'
  <2>1. SUFFICES ASSUME ~ strayed, NEW d \in Range(blocks)
                 PROVE  CanaryOf(d) \in canaries'
    BY <1>1, SetsNext DEF AsSets
  <2>2. CanaryOf(d) \in canaries
    BY <1>8, <2>1, SetsNow DEF HonestInv, AsSets
  <2>3. PICK b \in Range(blocks) : ~ b.free /\ DataOf(b) = p
    BY <1>3 DEF Used
  <2>4. b.size >= live[p]
    BY <1>8, <2>3, SetsNow DEF HonestInv, AsSets
  <2>5. live[p] \in Nat
    BY Numbers DEF IInv, ListInv, TypeOK
  <2>6. /\ CanaryOf(d) = d.addr + 12 /\ d.addr \in Nat /\ d.size \in Nat
        /\ p = b.addr + 16 /\ b.addr \in Nat /\ b.size \in Nat
        /\ d # b => d.addr >= b.addr + 16 + b.size \/ b.addr >= d.addr + 16 + d.size
    BY <1>2, <2>3, BlocksApart
  <2>7. CanaryOf(d) \notin p .. p + live[p] - 1
    <3>1. CASE d = b
      BY <2>5, <2>6, <3>1
    <3>2. CASE d.addr >= b.addr + 16 + b.size
      BY <2>4, <2>5, <2>6, <3>2
    <3>3. CASE b.addr >= d.addr + 16 + d.size
      BY <2>5, <2>6, <3>3
    <3> QED
      BY <2>6, <3>1, <3>2, <3>3
  <2> QED
    BY <1>1, <2>2, <2>7
<1> QED
  BY <1>4, <1>5, <1>6, <1>7, <1>8 DEF IInv, HonestInv, ListInv

\* The word that kfree writes is the flag of a header, or is in nobody's
\* header at all.
LEMMA FreeKeeps ==
  ASSUME IInv, NEW p \in Pointers, Free(p)
  PROVE  /\ IInv'
         /\ HonestInv => HonestInv'
<1>1. /\ blocks' = Released(p) /\ curr' = curr /\ curr = 0
      /\ canaries' = canaries \ {p - 8}
      /\ live' = [q \in DOMAIN live \ {p} |-> live[q]]
      /\ strayed' = (strayed \/ \A i \in DOMAIN blocks : DataOf(blocks[i]) # p)
  BY DEF Free, FlagOf
<1>2. GoodList(blocks)
  BY GoodBlocks DEF IInv
<1>3. GoodList(blocks') /\ Len(blocks') = Len(blocks)
  BY <1>1, ReleasedList DEF IInv
<1>4. /\ \A b \in Range(blocks') : \E c \in Range(blocks) :
           /\ b.addr = c.addr /\ b.size = c.size /\ DataOf(b) = DataOf(c)
           /\ CanaryOf(b) = CanaryOf(c) /\ b.free = (c.free \/ DataOf(c) = p)
      /\ \A c \in Range(blocks) : \E b \in Range(blocks') :
           /\ b.addr = c.addr /\ DataOf(b) = DataOf(c) /\ CanaryOf(b) = CanaryOf(c)
           /\ b.free = (c.free \/ DataOf(c) = p)
  BY <1>1, ReleasedRange DEF IInv
<1>5. Used(blocks) = DOMAIN live
  BY SetsNow DEF IInv, AsSets
<1>6. DOMAIN live' = DOMAIN live \ {p} /\ \A q \in DOMAIN live' : live'[q] = live[q]
  BY <1>1
<1>7. ListInv'
  <2>1. curr' \in 0 .. Len(blocks') + 1
    BY <1>1, <1>3 DEF IInv, ListInv, TypeOK
  <2> QED
    BY <1>1, <1>3, <1>6, <2>1, StepTyped DEF IInv, ListInv, TypeOK
<1>8. UsedIsOwned'
  <2>1. Used(blocks') = Used(blocks) \ {p}
    <3>1. ASSUME NEW q \in Used(blocks') PROVE q \in Used(blocks) \ {p}
      <4>1. PICK b \in Range(blocks') : ~ b.free /\ q = DataOf(b)
        BY DEF Used
      <4>2. PICK c \in Range(blocks) : DataOf(b) = DataOf(c) /\ b.free = (c.free \/ DataOf(c) = p)
        BY <1>4
      <4> QED
        BY <4>1, <4>2, Zenon DEF Used
    <3>2. ASSUME NEW q \in Used(blocks), q # p PROVE q \in Used(blocks')
      <4>1. PICK c \in Range(blocks) : ~ c.free /\ q = DataOf(c)
        BY DEF Used
      <4>2. PICK b \in Range(blocks') : DataOf(b) = DataOf(c) /\ b.free = (c.free \/ DataOf(c) = p)
        BY <1>4
      <4> QED
        BY <3>2, <4>1, <4>2, Zenon DEF Used
    <3> QED
      BY <3>1, <3>2
  <2> QED
    BY <1>5, <1>6, <2>1, SetsNext DEF AsSets
<1>10. LinksSafe'
  <2>1. ASSUME NEW c \in canaries', NEW d \in Range(blocks')
        PROVE  c \notin d.addr .. d.addr + 11
    <3>1. PICK e \in Range(blocks) : e.addr = d.addr
      BY <1>4
    <3>2. c \notin e.addr .. e.addr + 11
      BY <1>1, SetsNow DEF IInv, AsSets
    <3> QED
      BY <3>1, <3>2
  <2> QED
    BY <2>1, SetsNext DEF AsSets
<1>11. MergedSoFar'
  BY <1>1, NothingPassed
<1>12. ASSUME HonestInv PROVE EnoughBytes'
  <2>1. ASSUME NEW d \in Range(blocks'), DataOf(d) \in DOMAIN live'
        PROVE  d.size >= live'[DataOf(d)]
    <3>1. PICK c \in Range(blocks) : d.size = c.size /\ DataOf(d) = DataOf(c)
      BY <1>4
    <3>2. DataOf(c) \in DOMAIN live => c.size >= live[DataOf(c)]
      BY <1>12, SetsNow DEF HonestInv, AsSets
    <3> QED
      BY <1>6, <2>1, <3>1, <3>2
  <2> QED
    BY <2>1, SetsNext DEF AsSets
<1>13. ASSUME HonestInv PROVE HeadersIntact'
  <2>1. ASSUME ~ strayed', NEW d \in Range(blocks')
        PROVE  CanaryOf(d) \in canaries'
    <3>1. ~ strayed /\ \E i \in DOMAIN blocks : DataOf(blocks[i]) = p
      BY <1>1, <2>1, Zenon
    <3>2. PICK b \in Range(blocks) : DataOf(b) = p
      BY <3>1, Zenon DEF Range
    <3>3. PICK c \in Range(blocks) : CanaryOf(d) = CanaryOf(c)
      BY <1>4
    <3>4. CanaryOf(c) \in canaries
      BY <1>13, <3>1, SetsNow DEF HonestInv, AsSets
    <3>5. CanaryOf(c) \notin b.addr .. b.addr + 11 /\ b.addr \in Nat /\ DataOf(b) = b.addr + 16
      BY <1>2, BlocksApart
    <3>6. CanaryOf(c) # p - 8
      BY <3>2, <3>5
    <3> QED
      BY <1>1, <3>3, <3>4, <3>6
  <2> QED
    BY <2>1, SetsNext DEF AsSets
<1> QED
  BY <1>7, <1>8, <1>10, <1>11, <1>12, <1>13 DEF IInv, HonestInv, ListInv

LEMMA RebootKeeps ==
  ASSUME IInv, Reboot
  PROVE  /\ IInv'
         /\ HonestInv'
<1>1. /\ blocks' = << Genesis >> /\ curr' = 0
      /\ canaries' = HeaderWritten(Genesis)
      /\ live' = <<>> /\ strayed' = FALSE
  BY DEF Reboot
<1>2. /\ GoodList(blocks') /\ Genesis.addr = 0 /\ Genesis.free = TRUE /\ CanaryOf(Genesis) = 12
  BY <1>1, GenesisGood
<1>3. Range(blocks') = {Genesis} /\ Len(blocks') = 1
  BY <1>1 DEF Range
<1>4. canaries' = (canaries \ (0 .. 11)) \cup {12}
  BY <1>1, <1>2 DEF HeaderWritten
<1>5. DOMAIN live' = {}
  BY <1>1
<1>6. ListInv'
  <2>1. 12 \in Pointers
    BY <1>2, <1>3, BlocksApart
  <2>2. canaries' \subseteq Pointers
    BY <1>4, <2>1 DEF IInv, ListInv, TypeOK
  <2> QED
    BY <1>1, <1>2, <1>3, <1>5, <2>2, StepTyped
<1>7. UsedIsOwned'
  BY <1>2, <1>3, <1>5, SetsNext DEF Used, AsSets
<1>9. LinksSafe'
  <2>1. \A c \in canaries' : c \notin 0 .. 0 + 11
    BY <1>4
  <2> QED
    BY <1>2, <1>3, <2>1, SetsNext DEF AsSets
<1>10. MergedSoFar'
  BY <1>1, NothingPassed
<1>11. EnoughBytes' /\ HeadersIntact'
  BY <1>2, <1>3, <1>4, <1>5, SetsNext DEF AsSets
<1> QED
  BY <1>6, <1>7, <1>9, <1>10, <1>11 DEF IInv, HonestInv, ListInv

\* A merge takes nothing from the users: both blocks are free, and the first
\* grows.
LEMMA MergeKeeps ==
  ASSUME IInv, Merge
  PROVE  /\ IInv'
         /\ HonestInv => HonestInv'
<1>1. /\ curr \in 1 .. Len(blocks) - 1 /\ BothFree(curr)
      /\ blocks' = Merged(curr) /\ curr' = curr
      /\ canaries' = canaries /\ live' = live /\ strayed' = strayed
  BY DEF Merge, AfterMerge
<1> DEFINE b == blocks[curr]
           c == blocks[curr + 1]
           g == Grown(curr)
<1>2. GoodList(blocks) /\ GoodList(blocks')
  BY <1>1, GoodBlocks, MergedGood DEF IInv
<1>3. Range(blocks') = (Range(blocks) \ {b, c}) \cup {g}
  BY <1>1, MergedRange DEF IInv
<1>4. /\ Len(blocks) \in Nat /\ DOMAIN blocks = 1 .. Len(blocks)
      /\ curr \in 1 .. Len(blocks) /\ curr + 1 \in 1 .. Len(blocks)
  BY <1>1, BlocksTyped DEF IInv
<1>5. b \in Range(blocks) /\ c \in Range(blocks)
  BY <1>4, Zenon DEF Range
<1>6. b.free /\ c.free
  BY <1>1 DEF BothFree
<1>7. /\ g.addr = b.addr /\ g.free = b.free /\ g.size = b.size + c.size + 16
  BY <1>1, GrownTyped DEF IInv
<1>8. /\ Len(blocks') = Len(blocks) - 1
      /\ \A k \in 1 .. Len(blocks) - 1 :
           blocks'[k] = IF k < curr THEN blocks[k] ELSE IF k = curr THEN g ELSE blocks[k + 1]
  BY <1>1, MergedList DEF IInv
<1>9. MergedSoFar'
  <2>1. SUFFICES ASSUME NEW i \in 1 .. curr - 1
                 PROVE  ~ (blocks'[i].free /\ blocks'[i + 1].free)
    BY <1>1 DEF MergedSoFar, BothFree
  <2>2. ~ (blocks[i].free /\ blocks[i + 1].free)
    <3>1. i < Len(blocks)
      BY <1>4
    <3> QED
      BY <3>1 DEF IInv, MergedSoFar, BothFree
  <2>3. blocks'[i] = blocks[i]
    BY <1>1, <1>4, <1>8
  <2>4. blocks'[i + 1].free = blocks[i + 1].free
    <3>1. CASE i + 1 < curr
      <4>1. i + 1 \in 1 .. Len(blocks) - 1
        BY <1>1, <1>4
      <4> QED
        BY <1>8, <3>1, <4>1
    <3>2. CASE i + 1 = curr
      <4>1. blocks'[curr] = g
        BY <1>1, <1>4, <1>8
      <4> QED
        BY <1>7, <3>2, <4>1
    <3> QED
      BY <1>4, <3>1, <3>2
  <2> QED
    BY <2>2, <2>3, <2>4
<1>10. ListInv'
  <2>1. curr' \in 0 .. Len(blocks') + 1
    BY <1>1, <1>4, <1>8
  <2> QED
    BY <1>1, <1>2, <2>1, StepTyped DEF IInv, ListInv, TypeOK
<1> HIDE DEF b, c, g
<1>11. DataOf(g) = DataOf(b) /\ CanaryOf(g) = CanaryOf(b)
  BY <1>7 DEF DataOf, CanaryOf
<1>12. UsedIsOwned'
  <2>1. Used(blocks') = Used(blocks)
    BY <1>3, <1>5, <1>6, <1>7 DEF Used
  <2> QED
    BY <1>1, <2>1, SetsNow, SetsNext DEF IInv, AsSets
<1>14. LinksSafe'
  BY <1>1, <1>3, <1>5, <1>7, SetsNow, SetsNext DEF IInv, AsSets
<1>15. ASSUME HonestInv PROVE HeadersIntact'
  BY <1>1, <1>3, <1>5, <1>11, <1>15, SetsNow, SetsNext DEF HonestInv, AsSets
<1>16. ASSUME HonestInv PROVE EnoughBytes'
  <2>1. SUFFICES ASSUME NEW d \in Range(blocks'), DataOf(d) \in DOMAIN live
                 PROVE  d.size >= live[DataOf(d)]
    BY <1>1, SetsNext DEF AsSets
  <2>2. \A e \in Range(blocks) : DataOf(e) \in DOMAIN live => e.size >= live[DataOf(e)]
    BY <1>16, SetsNow DEF HonestInv, AsSets
  <2>3. CASE d = g
    <3>1. b.size >= live[DataOf(d)]
      BY <1>5, <1>11, <2>1, <2>2, <2>3
    <3>2. b.size \in Nat /\ c.size \in Nat
      BY <1>2, <1>5, BlocksApart
    <3>3. live[DataOf(d)] \in Nat
      BY <2>1, Numbers DEF IInv, ListInv, TypeOK
    <3> QED
      BY <1>7, <2>3, <3>1, <3>2, <3>3
  <2>4. CASE d # g
    BY <1>3, <2>1, <2>2, <2>4
  <2> QED
    BY <2>3, <2>4
<1> QED
  BY <1>9, <1>10, <1>12, <1>14, <1>15, <1>16 DEF IInv, HonestInv, ListInv

\* The steps of kheap_defrag that change no block.
LEMMA WalkKeeps ==
  ASSUME IInv, Defrag \/ Advance \/ DefragEnds \/ UNCHANGED hvars
  PROVE  /\ IInv'
         /\ HonestInv => HonestInv'
<1>1. /\ blocks' = blocks /\ canaries' = canaries /\ live' = live
      /\ strayed' = strayed
  BY DEF Defrag, Advance, DefragEnds, hvars
<1>2. Len(blocks) \in Nat /\ Len(blocks) >= 1 /\ curr \in 0 .. Len(blocks) + 1
  BY BlocksTyped DEF IInv, ListInv, TypeOK
<1>3. curr' \in 0 .. Len(blocks) + 1 /\ MergedSoFar'
  <2>1. CASE Defrag
    BY <1>1, <1>2, <2>1 DEF Defrag, MergedSoFar
  <2>2. CASE DefragEnds
    BY <1>1, <1>2, <2>2 DEF DefragEnds, MergedSoFar
  <2>3. CASE UNCHANGED hvars
    BY <1>1, <1>2, <2>3 DEF hvars, IInv, MergedSoFar, BothFree
  <2>4. CASE Advance
    <3>1. curr \in 1 .. Len(blocks) - 1 /\ ~ BothFree(curr) /\ curr' = curr + 1
      BY <2>4 DEF Advance
    <3>2. \A i \in 1 .. curr - 1 : i < Len(blocks) => ~ BothFree(i)
      BY DEF IInv, MergedSoFar
    <3>3. \A i \in 1 .. curr : i = curr \/ i \in 1 .. curr - 1
      BY <3>1
    <3>4. \A i \in 1 .. curr' - 1 : i < Len(blocks) => ~ BothFree(i)
      <4>1. curr' - 1 = curr
        BY <1>2, <3>1
      <4> QED
        BY <3>1, <3>2, <3>3, <4>1
    <3> QED
      BY <1>1, <1>2, <3>1, <3>4 DEF MergedSoFar, BothFree
  <2> QED
    BY <2>1, <2>2, <2>3, <2>4
<1>4. GoodList(blocks')
  BY <1>1, GoodBlocks DEF IInv
<1>5. ListInv'
  BY <1>1, <1>3, <1>4, StepTyped DEF IInv, ListInv, TypeOK
<1>6. UsedIsOwned' /\ LinksSafe'
  BY <1>1 DEF IInv, UsedIsOwned, LinksSafe
<1>7. HonestInv => HonestInv'
  BY <1>1 DEF HonestInv, EnoughBytes, HeadersIntact
<1> QED
  BY <1>3, <1>5, <1>6, <1>7 DEF IInv, ListInv

-----------------------------------------------------------------------------
(* The theorems                                                            *)

LEMMA InitIInv == Init => IInv /\ HonestInv
<1> SUFFICES ASSUME Init PROVE IInv /\ HonestInv
  OBVIOUS
<1>1. /\ blocks = << Genesis >> /\ curr = 0 /\ canaries = {12}
      /\ live = <<>> /\ strayed = FALSE
  BY GenesisGood DEF Init
<1>2. /\ GoodList(blocks) /\ Genesis.addr = 0 /\ Genesis.free = TRUE /\ CanaryOf(Genesis) = 12
  BY <1>1, GenesisGood
<1>3. Range(blocks) = {Genesis} /\ Len(blocks) = 1 /\ DOMAIN live = {}
  BY <1>1 DEF Range
<1>4. 12 \in Pointers
  BY <1>2, <1>3, BlocksApart
<1>5. ListInv
  BY <1>1, <1>2, <1>3, <1>4, GoodBlocks DEF ListInv, TypeOK
<1>6. UsedIsOwned
  BY <1>2, <1>3, SetsNow DEF Used, AsSets
<1>7. HeadersIntact /\ EnoughBytes
  BY <1>1, <1>2, <1>3, SetsNow DEF AsSets
<1>8. LinksSafe
  <2>1. 12 \notin 0 .. 0 + 11
    OBVIOUS
  <2> QED
    BY <1>1, <1>2, <1>3, <2>1, SetsNow DEF AsSets
<1>9. MergedSoFar
  BY <1>1 DEF MergedSoFar
<1> QED
  BY <1>5, <1>6, <1>7, <1>8, <1>9 DEF IInv, HonestInv

LEMMA NextIInv ==
  IInv /\ [Next]_hvars => /\ IInv'
                          /\ HonestRequests /\ HonestInv => HonestInv'
<1> SUFFICES ASSUME IInv, [Next]_hvars
             PROVE  IInv' /\ (HonestRequests /\ HonestInv => HonestInv')
  OBVIOUS
<1>1. CASE \E size \in Requests : Malloc(size)
  BY <1>1, MallocKeeps
<1>2. CASE \E p \in DOMAIN live : Fill(p)
  BY <1>2, FillKeeps
<1>3. CASE \E p \in Pointers : Free(p)
  BY <1>3, FreeKeeps
<1>4. CASE Merge
  BY <1>4, MergeKeeps
<1>5. CASE Reboot
  BY <1>5, RebootKeeps
<1>6. CASE Defrag \/ Advance \/ DefragEnds \/ UNCHANGED hvars
  BY <1>6, WalkKeeps
<1> QED
  BY <1>1, <1>2, <1>3, <1>4, <1>5, <1>6 DEF Next

THEOREM HeapInvariant == Spec => []IInv
<1>1. Init => IInv
  BY InitIInv
<1>2. IInv /\ [Next]_hvars => IInv'
  BY NextIInv
<1> QED
  BY <1>1, <1>2, PTL DEF Spec

\* The types, and that every pointer handed out is on a word boundary.
THEOREM HeapTypeCorrect == Spec => []TypeOK
<1>1. IInv => TypeOK
  BY DEF IInv, ListInv
<1> QED
  BY <1>1, HeapInvariant, PTL

\* However often blocks are split and merged, and whoever frees what, the list
\* covers the heap without gap or overlap.
THEOREM HeapTiled == Spec => []Tiling
<1>1. IInv => Tiling
  BY DEF IInv, ListInv
<1> QED
  BY <1>1, HeapInvariant, PTL

\* The blocks in use are those their users hold: nothing is handed out twice,
\* and nothing is lost to a user who did not free it.
THEOREM UsedBlocksOwned == Spec => []UsedIsOwned
<1>1. IInv => UsedIsOwned
  BY DEF IInv
<1> QED
  BY <1>1, HeapInvariant, PTL

\* Whatever words hold the magic number after merges and reboots, the flag that
\* kfree stores in front of a pointer never hits the size or the link of a block.
THEOREM LinksNeverHitHolds == Spec => []LinksNeverHit
<1>1. IInv => LinksNeverHit
  <2> SUFFICES ASSUME IInv, NEW p \in Pointers, Accepted(p), NEW i \in DOMAIN blocks
               PROVE  FlagOf(p) \notin blocks[i].addr .. blocks[i].addr + 7
    BY DEF LinksNeverHit
  <2>1. p - 4 \notin blocks[i].addr .. blocks[i].addr + 11
    BY DEF IInv, LinksSafe, Accepted
  <2>2. blocks[i].addr \in Nat /\ p \in Int
    BY BlocksTyped, Numbers DEF IInv, Pointers
  <2> QED
    BY <2>1, <2>2 DEF FlagOf
<1> QED
  BY <1>1, HeapInvariant, PTL

\* After kheap_defrag no two neighbours are both free.
THEOREM DefragMerges == Spec => FullyMerged
<1>1. IInv /\ [Next]_hvars
      => [DefragEnds => \A i \in 1 .. Len(blocks) - 1 : ~ BothFree(i)]_hvars
  <2> SUFFICES ASSUME IInv, DefragEnds, NEW i \in 1 .. Len(blocks) - 1
               PROVE  ~ BothFree(i)
    OBVIOUS
  <2>1. curr >= Len(blocks) /\ Len(blocks) \in Nat /\ curr \in Nat
    BY BlocksTyped DEF DefragEnds, IInv, ListInv, TypeOK
  <2>2. i \in 1 .. curr - 1 /\ i < Len(blocks)
    BY <2>1
  <2> QED
    BY <2>2 DEF IInv, MergedSoFar
<1> QED
  BY <1>1, HeapInvariant, PTL DEF Spec, FullyMerged

LEMMA HonestAlways ==
  ASSUME HonestRequests
  PROVE  Spec => [](IInv /\ HonestInv)
<1>1. Init => IInv /\ HonestInv
  BY InitIInv
<1>2. IInv /\ HonestInv /\ [Next]_hvars => (IInv /\ HonestInv)'
  BY NextIInv
<1> QED
  BY <1>1, <1>2, PTL DEF Spec

\* When no request wraps around in the rounding, the block behind every pointer
\* is as large as its user asked for.
THEOREM BlocksLargeEnough ==
  ASSUME HonestRequests
  PROVE  Spec => []EnoughBytes
<1>1. IInv /\ HonestInv => EnoughBytes
  BY DEF HonestInv
<1> QED
  BY <1>1, HonestAlways, PTL

\* And as long as no kfree has gone through a header that has left the list,
\* whatever the users write into their bytes and whoever frees the blocks of the
\* list how often, kfree accepts every pointer from its owner.
THEOREM OwnersCanFree ==
  ASSUME HonestRequests
  PROVE  Spec => []OwnerCanFree
<1>1. IInv /\ HonestInv => OwnerCanFree
  <2> SUFFICES ASSUME IInv, HonestInv, ~ strayed, NEW p \in DOMAIN live
               PROVE  p - 4 \in canaries
    BY DEF OwnerCanFree, Accepted
  <2>1. Used(blocks) = DOMAIN live
    BY SetsNow DEF IInv, AsSets
  <2>2. PICK b \in Range(blocks) : DataOf(b) = p
    BY <2>1 DEF Used
  <2>3. CanaryOf(b) \in canaries
    BY SetsNow DEF HonestInv, AsSets
  <2>4. GoodList(blocks)
    BY GoodBlocks DEF IInv
  <2>5. CanaryOf(b) = b.addr + 12 /\ DataOf(b) = b.addr + 16 /\ b.addr \in Nat
    BY <2>4, BlocksApart
  <2> QED
    BY <2>2, <2>3, <2>5
<1> QED
  BY <1>1, HonestAlways, PTL
=============================================================================
