---------------------------- MODULE DriverProof ----------------------------
(***************************************************************************)
(* The allocator and the trace checker, for every memory, every set of     *)
(* indices and every set of sizes.  The first part says what the routines  *)
(* of mm.c do to a heap that is in order: they leave one that is in order, *)
(* change the blocks they should and keep the others.  The second part is  *)
(* the trace checker on such a heap: what eval_mm_valid, eval_mm_util and  *)
(* eval_mm_speed keep true of the heap and of the driver's own books.      *)
(***************************************************************************)
EXTENDS Driver, ListLemmas, FiniteSetTheorems

Tags   == [size : Addr, alloc : BOOLEAN]
Levels == 0 .. N_SEGLIST - 1

(* What every heap is, in order or not.                                    *)
IsHeap(h) ==
  /\ h = [brk |-> h.brk, wrapped |-> h.wrapped, hdr |-> h.hdr, ftr |-> h.ftr,
          data |-> h.data, lists |-> h.lists]
  /\ h.brk \in Addr /\ h.wrapped \in BOOLEAN
  /\ h.hdr \in [Addr -> Tags] /\ h.ftr \in [Addr -> Tags]
  /\ h.data = [a \in -1 .. MAX_HEAP |-> h.data[a]]
  /\ h.lists \in [Levels -> Seq(Addr)]

(* The blocks, and where one starts or the last one ends.                  *)
Blk(h)  == {p \in Addr : blk_start <= p /\ p < h.brk /\ h.hdr[p] # NoTag}
Edge(h) == Blk(h) \cup {h.brk}
Free(h) == {p \in Blk(h) : ~IsAlloc(h, p)}
Used(h) == {p \in Blk(h) : IsAlloc(h, p)}

(* What lies around the blocks.                                            *)
Framed(h) ==
  /\ blk_start <= h.brk /\ h.hdr[h.brk] = Epilogue
  /\ h.hdr[blk_start - 1] = PACK(1, TRUE) /\ h.ftr[blk_start] = PACK(1, TRUE)
  /\ \A a \in Addr : a < blk_start - 1 \/ a > h.brk => h.hdr[a] = NoTag

(* A block with its footer, up to the next one.                            *)
Block(h, p) ==
  /\ SizeOf(h, p) >= MIN_BLK_SIZE
  /\ p + SizeOf(h, p) \in Edge(h)
  /\ h.ftr[p + SizeOf(h, p)] = h.hdr[p]
  /\ \A a \in Addr : p < a /\ a < p + SizeOf(h, p) => h.hdr[a] = NoTag

(* One block follows another from blk_start to the break.                  *)
Tiling(h) ==
  /\ Framed(h)
  /\ blk_start \in Edge(h)
  /\ \A p \in Blk(h) : Block(h, p)
  /\ \A q \in Edge(h) : q # blk_start => \E p \in Blk(h) : q = p + SizeOf(h, p)

(* The list l of level i holds the blocks of F that belong there, each     *)
(* once and in ascending order.                                            *)
InList(h, l, i, F) ==
  /\ \A j, k \in DOMAIN l : j < k => l[j] # l[k] /\ SizeOf(h, l[j]) <= SizeOf(h, l[k])
  /\ \A k \in DOMAIN l : l[k] \in F /\ get_seg_level(SizeOf(h, l[k])) = i
  /\ \A p \in F : get_seg_level(SizeOf(h, p)) = i => \E k \in DOMAIN l : l[k] = p

Holds(h, F) == \A i \in Levels : InList(h, h.lists[i], i, F)

(* A heap in order.                                                        *)
Sound(h) == Tiling(h) /\ Holds(h, Free(h))

-----------------------------------------------------------------------------
(* The tags and what is written between them.                              *)

(* PACK makes a tag.                                                       *)
LEMMA PackIsTag ==
    ASSUME NEW size, NEW alloc
    PROVE  /\ PACK(size, alloc).size = size /\ PACK(size, alloc).alloc = alloc
           /\ size \in Addr /\ alloc \in BOOLEAN => PACK(size, alloc) \in Tags
           /\ size # 0 => PACK(size, alloc) # NoTag
BY DEF PACK, Tags, NoTag

(* A tag has a size and a bit.                                             *)
LEMMA TagFields ==
    ASSUME NEW h, IsHeap(h), NEW p \in Addr
    PROVE  /\ h.hdr[p] \in Tags /\ h.ftr[p] \in Tags
           /\ SizeOf(h, p) \in Addr /\ IsAlloc(h, p) \in BOOLEAN
           /\ h.ftr[p].size \in Addr /\ h.ftr[p].alloc \in BOOLEAN
BY DEF IsHeap, Tags, SizeOf, IsAlloc

(* PutTags writes the two tags, clears what they enclose and two double    *)
(* words of data, and nothing else.                                        *)
LEMMA PutTagsFields ==
    ASSUME NEW h, IsHeap(h), NEW s \in Addr, NEW n \in Addr, NEW alloc \in BOOLEAN,
           s + n \in Addr,
           NEW g, g = PutTags(h, s, n, alloc)
    PROVE  /\ IsHeap(g)
           /\ g.brk = h.brk /\ g.wrapped = h.wrapped /\ g.lists = h.lists
           /\ g.hdr[s] = PACK(n, alloc)
           /\ n # 0 => g.ftr[s + n] = PACK(n, alloc)
           /\ \A a \in Addr : s < a /\ a < s + n => g.hdr[a] = NoTag
           /\ \A a \in Addr : a < s \/ (a > s /\ a >= s + n) => g.hdr[a] = h.hdr[a]
           /\ \A a \in Addr : (a <= s /\ a # s + n) \/ a > s + n => g.ftr[a] = h.ftr[a]
           /\ \A a \in -1 .. MAX_HEAP : a # s - 1 /\ a # s + n - 1 => g.data[a] = h.data[a]
<1> DEFINE hdr == PutTag(h.hdr, s, PACK(n, alloc), s, s + n)
           ftr == PutTag(h.ftr, s + n, PACK(n, alloc), s, s + n)
           data == [[h.data EXCEPT ![s - 1] = Junk] EXCEPT ![s + n - 1] = Junk]
<1>1. g = [brk |-> h.brk, wrapped |-> h.wrapped, hdr |-> hdr, ftr |-> ftr,
           data |-> data, lists |-> h.lists]
  BY DEF PutTags, IsHeap
<1>2. PACK(n, alloc) \in Tags /\ NoTag \in Tags
  BY HeapAssumption DEF PACK, Tags, NoTag, Addr
<1>3. hdr \in [Addr -> Tags] /\ ftr \in [Addr -> Tags]
  BY <1>2 DEF IsHeap, PutTag
<1>4. data = [a \in -1 .. MAX_HEAP |-> data[a]]
  BY DEF IsHeap
<1>5. IsHeap(g)
  BY <1>1, <1>3, <1>4 DEF IsHeap
<1>6. \A a \in -1 .. MAX_HEAP : a # s - 1 /\ a # s + n - 1 => data[a] = h.data[a]
  BY DEF IsHeap
<1>7. s \in Int /\ n \in Int /\ \A a \in Addr : a \in Int
  BY HeapAssumption DEF Addr
<1>8. \A a \in Addr : hdr[a] = IF a = s THEN PACK(n, alloc)
                                ELSE IF s < a /\ a < s + n THEN NoTag ELSE h.hdr[a]
  BY DEF PutTag
<1>9. \A a \in Addr : ftr[a] = IF a = s + n THEN PACK(n, alloc)
                                ELSE IF s < a /\ a < s + n THEN NoTag ELSE h.ftr[a]
  BY DEF PutTag
<1>10. g.hdr = hdr /\ g.ftr = ftr /\ g.data = data /\ g.brk = h.brk
       /\ g.wrapped = h.wrapped /\ g.lists = h.lists
  BY <1>1
<1> HIDE DEF hdr, ftr, data
<1> QED BY <1>5, <1>6, <1>7, <1>8, <1>9, <1>10

(* The block from s to e and its tags written over the heap h.             *)
Tagged(h, g, s, e, alloc) ==
  /\ IsHeap(g)
  /\ g.brk = h.brk /\ g.wrapped = h.wrapped /\ g.lists = h.lists
  /\ g.hdr[s] = PACK(e - s, alloc) /\ g.ftr[e] = PACK(e - s, alloc)
  /\ \A a \in Addr : s < a /\ a < e => g.hdr[a] = NoTag
  /\ \A a \in Addr : a < s \/ a >= e => g.hdr[a] = h.hdr[a]
  /\ \A a \in Addr : a <= s \/ a > e => g.ftr[a] = h.ftr[a]
  /\ \A a \in -1 .. MAX_HEAP : a # s - 1 /\ a # e - 1 => g.data[a] = h.data[a]

(* Tagging the span from s to e writes its header and its footer only.     *)
LEMMA PutTagsSpan ==
    ASSUME NEW h, IsHeap(h), NEW s \in Addr, NEW e \in Addr, s < e, NEW alloc \in BOOLEAN
    PROVE  Tagged(h, PutTags(h, s, e - s, alloc), s, e, alloc)
<1> DEFINE n == e - s
<1>1. s \in Int /\ e \in Int /\ n \in Addr /\ s + n = e /\ n # 0 /\ s + n \in Addr
  BY HeapAssumption DEF Addr
<1> HIDE DEF n
<1>2. PICK g : g = PutTags(h, s, n, alloc)
  OBVIOUS
<1>3. /\ IsHeap(g)
      /\ g.brk = h.brk /\ g.wrapped = h.wrapped /\ g.lists = h.lists
      /\ g.hdr[s] = PACK(n, alloc) /\ g.ftr[s + n] = PACK(n, alloc)
      /\ \A a \in Addr : s < a /\ a < s + n => g.hdr[a] = NoTag
      /\ \A a \in Addr : a < s \/ (a > s /\ a >= s + n) => g.hdr[a] = h.hdr[a]
      /\ \A a \in Addr : (a <= s /\ a # s + n) \/ a > s + n => g.ftr[a] = h.ftr[a]
      /\ \A a \in -1 .. MAX_HEAP : a # s - 1 /\ a # s + n - 1 => g.data[a] = h.data[a]
  BY <1>1, <1>2, PutTagsFields
<1>4. \A a \in Addr : a \in Int /\ (a >= e => a > s) /\ (a <= s => a # e)
  BY <1>1, HeapAssumption DEF Addr
<1>5. Tagged(h, g, s, e, alloc)
  <2>1. g.hdr[s] = PACK(e - s, alloc) /\ g.ftr[e] = PACK(e - s, alloc)
    BY <1>1, <1>3, Zenon DEF n
  <2>2. /\ \A a \in Addr : s < a /\ a < e => g.hdr[a] = NoTag
        /\ \A a \in Addr : a < s \/ (a > s /\ a >= e) => g.hdr[a] = h.hdr[a]
        /\ \A a \in Addr : (a <= s /\ a # e) \/ a > e => g.ftr[a] = h.ftr[a]
        /\ \A a \in -1 .. MAX_HEAP : a # s - 1 /\ a # e - 1 => g.data[a] = h.data[a]
    <3>1. s + n = e
      BY <1>1
    <3>2. n \in Int
      BY <1>1, HeapAssumption DEF Addr
    <3> QED BY <1>1, <1>3, <3>1, <3>2
  <2>3. \A a \in Addr : a < s \/ a >= e => g.hdr[a] = h.hdr[a]
    BY <1>4, <2>2
  <2>4. \A a \in Addr : a <= s \/ a > e => g.ftr[a] = h.ftr[a]
    BY <1>4, <2>2
  <2> QED BY <1>3, <2>1, <2>2, <2>3, <2>4, Zenon DEF Tagged
<1> QED BY <1>2, <1>5 DEF n

-----------------------------------------------------------------------------
(* The tiling.                                                             *)

(* Addresses and sizes are numbers.                                        *)
LEMMA Numbers ==
    /\ \A a \in Addr : a \in Int /\ 0 <= a /\ a <= MAX_HEAP
    /\ MAX_HEAP \in Int /\ blk_start \in Int /\ blk_start - 1 \in Addr /\ blk_start \in Addr
    /\ 1 < blk_start /\ blk_start <= MAX_HEAP /\ MIN_BLK_SIZE = 2
BY HeapAssumption DEF Addr, blk_start, N_SEGLIST, MIN_BLK_SIZE

(* A block has two double words at least and ends at another block or at   *)
(* the break; its footer repeats its header.                               *)
LEMMA BlockFacts ==
    ASSUME NEW h, IsHeap(h), Tiling(h), NEW p \in Blk(h)
    PROVE  /\ p \in Addr /\ p \in Int /\ blk_start <= p /\ p < h.brk
           /\ h.hdr[p] \in Tags
           /\ SizeOf(h, p) \in Addr /\ SizeOf(h, p) \in Int /\ SizeOf(h, p) >= 2
           /\ h.hdr[p] # NoTag /\ IsAlloc(h, p) \in BOOLEAN
           /\ NEXT_BLKP(h, p) = p + SizeOf(h, p)
           /\ p + SizeOf(h, p) \in Edge(h) /\ p + SizeOf(h, p) \in Addr
           /\ FTRP(h, p) = h.hdr[p] /\ h.ftr[p + SizeOf(h, p)] = h.hdr[p]
           /\ \A a \in Addr : p < a /\ a < p + SizeOf(h, p) => h.hdr[a] = NoTag
<1>1. p \in Addr /\ blk_start <= p /\ p < h.brk /\ h.hdr[p] # NoTag
  BY DEF Blk
<1>2. h.hdr[p] \in Tags /\ SizeOf(h, p) \in Addr /\ IsAlloc(h, p) \in BOOLEAN
  BY <1>1, TagFields
<1>3. Block(h, p)
  BY DEF Tiling
<1>4. Edge(h) \subseteq Addr
  BY DEF Edge, Blk, IsHeap
<1> QED BY <1>1, <1>2, <1>3, <1>4, Numbers DEF Block, NEXT_BLKP, FTRP, SizeOf

(* An edge is an address with a header.                                    *)
LEMMA EdgeFacts ==
    ASSUME NEW h, IsHeap(h), Tiling(h), NEW q \in Edge(h)
    PROVE  /\ q \in Addr /\ q \in Int /\ blk_start <= q /\ q <= h.brk /\ h.hdr[q] # NoTag
           /\ q < h.brk => q \in Blk(h)
           /\ q = h.brk => h.hdr[q] = Epilogue /\ IsAlloc(h, q) /\ q \notin Blk(h)
<1>1. h.brk \in Addr /\ h.brk \in Int
  BY Numbers DEF IsHeap
<1>2. blk_start <= h.brk /\ h.hdr[h.brk] = Epilogue
  BY DEF Tiling, Framed
<1>3. Epilogue # NoTag /\ Epilogue.alloc = TRUE
  BY DEF Epilogue, NoTag, PACK
<1>4. \A p \in Blk(h) : p \in Addr /\ blk_start <= p /\ p < h.brk /\ h.hdr[p] # NoTag
  BY DEF Blk
<1>5. q \in Int
  BY <1>1, <1>4, Numbers DEF Edge
<1>6. CASE q = h.brk
  BY <1>1, <1>2, <1>3, <1>4, <1>6 DEF IsAlloc
<1>7. CASE q # h.brk
  BY <1>1, <1>4, <1>5, <1>7 DEF Edge
<1> QED BY <1>6, <1>7

(* No block starts inside another.                                         *)
LEMMA Apart ==
    ASSUME NEW h, IsHeap(h), Tiling(h), NEW p \in Blk(h), NEW q \in Edge(h), p < q
    PROVE  p + SizeOf(h, p) <= q
<1>1. q \in Addr /\ q \in Int /\ h.hdr[q] # NoTag
  BY EdgeFacts
<1>2. \A a \in Addr : p < a /\ a < p + SizeOf(h, p) => h.hdr[a] = NoTag
  BY BlockFacts
<1>3. p \in Int /\ SizeOf(h, p) \in Int
  BY BlockFacts
<1> QED BY <1>1, <1>2, <1>3

(* The footer before an edge leads to the block that ends there; before    *)
(* the first block it leads to the prologue, which is allocated.           *)
LEMMA PrevBlock ==
    ASSUME NEW h, IsHeap(h), Tiling(h), NEW q \in Edge(h)
    PROVE  /\ q = blk_start => /\ PREV_BLKP(h, q) = blk_start - 1
                               /\ IsAlloc(h, PREV_BLKP(h, q))
                               /\ FTRP(h, PREV_BLKP(h, q)).alloc
           /\ q # blk_start => /\ PREV_BLKP(h, q) \in Blk(h)
                               /\ PREV_BLKP(h, q) + SizeOf(h, PREV_BLKP(h, q)) = q
                               /\ PREV_BLKP(h, q) < q
                               /\ FTRP(h, PREV_BLKP(h, q)).alloc = IsAlloc(h, PREV_BLKP(h, q))
<1>1. CASE q = blk_start
  <2>1. h.hdr[blk_start - 1] = PACK(1, TRUE) /\ h.ftr[blk_start] = PACK(1, TRUE)
    BY DEF Tiling, Framed
  <2>2. PACK(1, TRUE).size = 1 /\ PACK(1, TRUE).alloc = TRUE
    BY DEF PACK
  <2>3. PREV_BLKP(h, q) = blk_start - 1
    BY <1>1, <2>1, <2>2, Numbers DEF PREV_BLKP
  <2>4. FTRP(h, blk_start - 1) = h.ftr[blk_start]
    <3>1. h.hdr[blk_start - 1].size = 1
      BY <2>1, <2>2
    <3>2. (blk_start - 1) + 1 = blk_start
      BY Numbers
    <3> QED BY <3>1, <3>2 DEF FTRP
  <2> QED BY <1>1, <2>1, <2>2, <2>3, <2>4 DEF IsAlloc
<1>2. CASE q # blk_start
  <2>1. PICK p \in Blk(h) : q = p + SizeOf(h, p)
    BY <1>2 DEF Tiling
  <2>2. /\ p \in Int /\ SizeOf(h, p) \in Int /\ SizeOf(h, p) >= 2
        /\ FTRP(h, p) = h.hdr[p] /\ h.ftr[p + SizeOf(h, p)] = h.hdr[p]
    BY BlockFacts
  <2>3. h.ftr[q].size = SizeOf(h, p)
    BY <2>1, <2>2 DEF SizeOf
  <2>4. PREV_BLKP(h, q) = p
    BY <2>1, <2>2, <2>3 DEF PREV_BLKP
  <2> QED BY <1>2, <2>1, <2>2, <2>4 DEF IsAlloc
<1> QED BY <1>1, <1>2

(* The tags of g between two edges of h are tags of whole blocks.          *)
Refill(h, g, s, e, M) ==
  /\ g.brk = h.brk
  /\ \A a \in Addr : a < s \/ a >= e => g.hdr[a] = h.hdr[a]
  /\ \A a \in Addr : a <= s \/ a > e => g.ftr[a] = h.ftr[a]
  /\ \A a \in M : a \in Addr /\ s < a /\ a < e
  /\ \A a \in Addr : s < a /\ a < e /\ a \notin M => g.hdr[a] = NoTag
  /\ \A p \in M \cup {s} : /\ g.hdr[p] # NoTag
                           /\ SizeOf(g, p) >= MIN_BLK_SIZE
                           /\ p + SizeOf(g, p) \in M \cup {e}
                           /\ g.ftr[p + SizeOf(g, p)] = g.hdr[p]
                           /\ \A a \in Addr : p < a /\ a < p + SizeOf(g, p) => g.hdr[a] = NoTag
  /\ \A q \in M \cup {e} : \E p \in M \cup {s} : q = p + SizeOf(g, p)

(* Two edges are addresses, the lower one a block.                         *)
LEMMA Span ==
    ASSUME NEW h, IsHeap(h), Tiling(h),
           NEW s \in Edge(h), NEW e \in Edge(h), s < e
    PROVE  /\ s \in Addr /\ s \in Int /\ e \in Addr /\ e \in Int
           /\ blk_start <= s /\ e <= h.brk /\ s < h.brk /\ s \in Blk(h)
           /\ h.brk \in Addr /\ h.brk \in Int /\ blk_start \in Int /\ blk_start \in Addr
           /\ blk_start - 1 \in Addr
<1>1. s \in Addr /\ s \in Int /\ blk_start <= s /\ (s < h.brk => s \in Blk(h))
  BY EdgeFacts
<1>2. e \in Addr /\ e \in Int /\ e <= h.brk
  BY EdgeFacts
<1>3. h.brk \in Addr /\ h.brk \in Int
  BY Numbers DEF IsHeap
<1>4. s < h.brk
  BY <1>1, <1>2, <1>3
<1> QED BY <1>1, <1>2, <1>3, <1>4, Numbers

(* Then its blocks are those of h outside and the new ones inside.         *)
LEMMA RefillBlocks ==
    ASSUME NEW h, IsHeap(h), Tiling(h), NEW g, IsHeap(g),
           NEW s \in Edge(h), NEW e \in Edge(h), s < e,
           NEW M, Refill(h, g, s, e, M)
    PROVE  /\ \A a \in Addr : a \in Blk(g) <=> \/ a \in Blk(h) /\ (a < s \/ a >= e)
                                               \/ a \in M \/ a = s
           /\ \A a \in Addr : a \in Edge(g) <=> \/ a \in Edge(h) /\ (a < s \/ a >= e)
                                                \/ a \in M \/ a = s
<1>1. /\ s \in Addr /\ s \in Int /\ e \in Addr /\ e \in Int
      /\ blk_start <= s /\ e <= h.brk /\ s < h.brk
      /\ h.brk \in Addr /\ h.brk \in Int /\ blk_start \in Int
  BY Span
<1>2. \A a \in Addr : a \in Int
  BY Numbers
<1>3. /\ g.brk = h.brk
      /\ \A a \in Addr : a < s \/ a >= e => g.hdr[a] = h.hdr[a]
      /\ \A a \in M : a \in Addr /\ s < a /\ a < e
      /\ \A a \in Addr : s < a /\ a < e /\ a \notin M => g.hdr[a] = NoTag
      /\ \A p \in M \cup {s} : g.hdr[p] # NoTag
  BY DEF Refill
<1>4. \A a \in Addr : a \in Blk(g) <=> \/ a \in Blk(h) /\ (a < s \/ a >= e)
                                       \/ a \in M \/ a = s
  <2> TAKE a \in Addr
  <2>1. CASE a < s \/ a >= e
    <3>1. a \notin M /\ a # s
      BY <1>1, <1>2, <1>3, <2>1
    <3> QED BY <1>3, <2>1, <3>1 DEF Blk
  <2>2. CASE a = s
    BY <1>1, <1>3, <2>2 DEF Blk
  <2>3. CASE s < a /\ a < e
    <3>1. blk_start <= a /\ a < h.brk /\ ~ (a < s \/ a >= e) /\ a # s
      BY <1>1, <1>2, <2>3
    <3> QED BY <1>3, <2>3, <3>1 DEF Blk
  <2> QED BY <1>1, <1>2, <2>1, <2>2, <2>3
<1>5. h.brk >= e /\ ~ (h.brk < s)
  BY <1>1
<1> QED BY <1>3, <1>4, <1>5 DEF Edge

(* And they tile it.                                                       *)
LEMMA RefillTiles ==
    ASSUME NEW h, IsHeap(h), Tiling(h), NEW g, IsHeap(g),
           NEW s \in Edge(h), NEW e \in Edge(h), s < e,
           NEW M, Refill(h, g, s, e, M)
    PROVE  Tiling(g)
<1>1. /\ s \in Addr /\ s \in Int /\ e \in Addr /\ e \in Int
      /\ blk_start <= s /\ e <= h.brk /\ s < h.brk
      /\ h.brk \in Addr /\ h.brk \in Int /\ blk_start \in Int /\ blk_start \in Addr
      /\ blk_start - 1 \in Addr
  BY Span
<1>2. \A a \in Addr : a \in Int
  BY Numbers
<1>3. /\ g.brk = h.brk
      /\ \A a \in Addr : a < s \/ a >= e => g.hdr[a] = h.hdr[a]
      /\ \A a \in Addr : a <= s \/ a > e => g.ftr[a] = h.ftr[a]
      /\ \A a \in M : a \in Addr /\ s < a /\ a < e
  BY DEF Refill
<1>4. \A a \in Addr : a \in Blk(g) <=> \/ a \in Blk(h) /\ (a < s \/ a >= e)
                                       \/ a \in M \/ a = s
  BY RefillBlocks
<1>5. \A a \in Addr : a \in Edge(g) <=> \/ a \in Edge(h) /\ (a < s \/ a >= e)
                                        \/ a \in M \/ a = s
  BY RefillBlocks
<1>6. Framed(g)
  <2>1. Framed(h)
    BY DEF Tiling
  <2>2. g.hdr[h.brk] = h.hdr[h.brk]
    BY <1>1, <1>3
  <2>3. g.hdr[blk_start - 1] = h.hdr[blk_start - 1] /\ g.ftr[blk_start] = h.ftr[blk_start]
    BY <1>1, <1>3
  <2>4. \A a \in Addr : a < blk_start - 1 \/ a > h.brk => g.hdr[a] = h.hdr[a]
    <3> TAKE a \in Addr
    <3>1. a < blk_start - 1 \/ a > h.brk => a < s \/ a >= e
      BY <1>1, <1>2
    <3> QED BY <1>3, <3>1
  <2> QED BY <1>3, <2>1, <2>2, <2>3, <2>4 DEF Framed
<1>7. blk_start \in Edge(g)
  <2>1. blk_start \in Edge(h)
    BY DEF Tiling
  <2> QED BY <1>1, <1>5, <2>1
<1>8. ASSUME NEW p \in Blk(g)
      PROVE  Block(g, p)
  <2>1. p \in Addr /\ p \in Int
    BY <1>2 DEF Blk
  <2>2. CASE p \in M \cup {s}
    <3>1. /\ SizeOf(g, p) >= MIN_BLK_SIZE
          /\ p + SizeOf(g, p) \in M \cup {e}
          /\ g.ftr[p + SizeOf(g, p)] = g.hdr[p]
          /\ \A a \in Addr : p < a /\ a < p + SizeOf(g, p) => g.hdr[a] = NoTag
      BY <2>2 DEF Refill
    <3>2. M \cup {e} \subseteq Edge(g)
      <4>1. \A a \in M : a \in Addr /\ a \in Edge(g)
        BY <1>3, <1>5
      <4>2. e \in Edge(g)
        <5>1. e >= e
          BY <1>1
        <5> QED BY <1>1, <1>5, <5>1
      <4> QED BY <4>1, <4>2, Zenon
    <3> QED BY <3>1, <3>2 DEF Block
  <2>3. CASE p \notin M \cup {s}
    <3>1. p \in Blk(h) /\ (p < s \/ p >= e)
      BY <1>4, <2>1, <2>3
    <3>2. /\ SizeOf(h, p) \in Int /\ SizeOf(h, p) >= 2
          /\ p + SizeOf(h, p) \in Edge(h) /\ p + SizeOf(h, p) \in Addr
          /\ h.ftr[p + SizeOf(h, p)] = h.hdr[p]
          /\ \A a \in Addr : p < a /\ a < p + SizeOf(h, p) => h.hdr[a] = NoTag
      BY <3>1, BlockFacts
    <3>3. g.hdr[p] = h.hdr[p] /\ SizeOf(g, p) = SizeOf(h, p)
      BY <1>3, <2>1, <3>1 DEF SizeOf
    <3>4. p < s => p + SizeOf(h, p) <= s
      BY <3>1, Apart
    <3> DEFINE q == p + SizeOf(h, p)
    <3>5. q \in Int /\ q \in Addr /\ (q <= s \/ q > e) /\ p < q
      BY <1>1, <2>1, <3>1, <3>2, <3>4
    <3>6. q \in Edge(g) /\ g.ftr[q] = h.ftr[q]
      BY <1>1, <1>3, <1>5, <3>2, <3>5
    <3>7. ASSUME NEW a \in Addr, p < a, a < q
          PROVE  g.hdr[a] = NoTag
      <4>1. h.hdr[a] = NoTag
        BY <3>2, <3>7
      <4>2. a < s \/ a >= e
        BY <1>1, <1>2, <2>1, <3>1, <3>4, <3>5, <3>7
      <4> QED BY <1>3, <4>1, <4>2
    <3> QED BY <3>2, <3>3, <3>6, <3>7, Numbers DEF Block
  <2> QED BY <2>2, <2>3
<1>9. ASSUME NEW q \in Edge(g), q # blk_start
      PROVE  \E p \in Blk(g) : q = p + SizeOf(g, p)
  <2>1. q \in Addr /\ q \in Int
    BY <1>1, <1>2, <1>3 DEF Edge, Blk
  <2>2. CASE q \in M \cup {e}
    <3>1. PICK p \in M \cup {s} : q = p + SizeOf(g, p)
      BY <2>2 DEF Refill
    <3>2. p \in Blk(g)
      BY <1>1, <1>3, <1>4, <3>1
    <3> QED BY <3>1, <3>2
  <2>3. CASE q \notin M \cup {e}
    <3>1. q \in Edge(h) /\ (q <= s \/ q > e)
      BY <1>1, <1>5, <2>1, <2>3
    <3>2. PICK p \in Blk(h) : q = p + SizeOf(h, p)
      BY <1>9, <3>1 DEF Tiling
    <3>3. p \in Addr /\ p \in Int /\ SizeOf(h, p) \in Int /\ SizeOf(h, p) >= 2
      BY BlockFacts
    <3>4. p < e => q <= e
      BY <3>2, Apart
    <3>5. p < s \/ p >= e
      BY <1>1, <2>1, <3>1, <3>2, <3>3, <3>4
    <3>6. p \in Blk(g) /\ SizeOf(g, p) = SizeOf(h, p)
      BY <1>3, <1>4, <3>3, <3>5 DEF SizeOf
    <3> QED BY <3>2, <3>6
  <2> QED BY <2>2, <2>3
<1> QED BY <1>6, <1>7, <1>8, <1>9 DEF Tiling

(* The blocks of S keep their headers and payloads from h to g.            *)
Keeps(h, g, S) ==
  \A p \in S : /\ g.hdr[p] = h.hdr[p]
               /\ \A a \in Addr : p <= a /\ a <= p + SizeOf(h, p) - 2 => g.data[a] = h.data[a]

(* A payload word lies just before no edge.                                *)
LEMMA PayloadInside ==
    ASSUME NEW h, IsHeap(h), Tiling(h), NEW p \in Blk(h), NEW q \in Edge(h),
           NEW a \in Addr, p <= a, a <= p + SizeOf(h, p) - 2
    PROVE  a # q - 1 /\ (a = q => p = q)
<1>1. p \in Int /\ SizeOf(h, p) \in Int
  BY BlockFacts
<1>2. q \in Int /\ a \in Int
  BY EdgeFacts, Numbers
<1>3. p < q => p + SizeOf(h, p) <= q
  BY Apart
<1> QED BY <1>1, <1>2, <1>3

(* What one new block in place of those between two edges makes of a heap. *)
Retiled(h, g, s, e, alloc) ==
  /\ IsHeap(g) /\ Tiling(g)
  /\ g.brk = h.brk /\ g.wrapped = h.wrapped /\ g.lists = h.lists
  /\ g.hdr[s] = PACK(e - s, alloc)
  /\ \A a \in Addr : a < s \/ a >= e => g.hdr[a] = h.hdr[a]
  /\ \A a \in Addr : a \in Used(g) <=> (a \in Used(h) /\ (a < s \/ a >= e)) \/ (a = s /\ alloc)
  /\ \A a \in Addr : a \in Free(g) <=> (a \in Free(h) /\ (a < s \/ a >= e)) \/ (a = s /\ ~alloc)
  /\ Keeps(h, g, {p \in Blk(h) : p < s \/ p >= e})

(* Tagging a span between two edges makes it one block.                    *)
LEMMA Retile ==
    ASSUME NEW h, IsHeap(h), Tiling(h), NEW s \in Edge(h), NEW e \in Edge(h),
           s + 2 <= e, NEW alloc \in BOOLEAN
    PROVE  Retiled(h, PutTags(h, s, e - s, alloc), s, e, alloc)
<1> DEFINE g == PutTags(h, s, e - s, alloc)
<1>1. s \in Addr /\ s \in Int /\ e \in Addr /\ e \in Int
  BY EdgeFacts
<1>2. e - s \in Addr /\ s + (e - s) = e /\ e - s # 0 /\ s < e
  BY <1>1, HeapAssumption DEF Addr
<1>3. \A a \in Addr : a \in Int
  BY Numbers
<1>4. /\ IsHeap(g)
      /\ g.brk = h.brk /\ g.wrapped = h.wrapped /\ g.lists = h.lists
      /\ g.hdr[s] = PACK(e - s, alloc)
      /\ g.ftr[e] = PACK(e - s, alloc)
      /\ \A a \in Addr : s < a /\ a < e => g.hdr[a] = NoTag
      /\ \A a \in Addr : a < s \/ a >= e => g.hdr[a] = h.hdr[a]
      /\ \A a \in Addr : a <= s \/ a > e => g.ftr[a] = h.ftr[a]
      /\ \A a \in -1 .. MAX_HEAP : a # s - 1 /\ a # e - 1 => g.data[a] = h.data[a]
  <2>1. Tagged(h, g, s, e, alloc)
    BY <1>1, <1>2, PutTagsSpan
  <2> QED BY <2>1 DEF Tagged
<1> HIDE DEF g
<1>5. /\ g.hdr[s] # NoTag /\ SizeOf(g, s) = e - s /\ IsAlloc(g, s) = alloc
  BY <1>2, <1>4, PackIsTag DEF SizeOf, IsAlloc
<1>6. Refill(h, g, s, e, {})
  <2>1. s + SizeOf(g, s) = e /\ SizeOf(g, s) >= MIN_BLK_SIZE /\ g.ftr[e] = g.hdr[s]
    BY <1>1, <1>2, <1>4, <1>5, Numbers
  <2> QED BY <1>4, <1>5, <2>1 DEF Refill
<1>7. Tiling(g)
  BY <1>2, <1>4, <1>6, RefillTiles
<1>8. \A a \in Addr : a \in Blk(g) <=> (a \in Blk(h) /\ (a < s \/ a >= e)) \/ a = s
  BY <1>2, <1>4, <1>6, RefillBlocks
<1>9. \A a \in Addr : (a < s \/ a >= e) => g.hdr[a] = h.hdr[a] /\ a # s
  BY <1>1, <1>2, <1>3, <1>4
<1>10. \A a \in Addr : /\ a \in Used(g) <=> (a \in Used(h) /\ (a < s \/ a >= e)) \/ (a = s /\ alloc)
                       /\ a \in Free(g) <=> (a \in Free(h) /\ (a < s \/ a >= e)) \/ (a = s /\ ~alloc)
  BY <1>5, <1>8, <1>9 DEF Used, Free, IsAlloc
<1>11. Keeps(h, g, {p \in Blk(h) : p < s \/ p >= e})
  <2> SUFFICES ASSUME NEW p \in Blk(h), p < s \/ p >= e
               PROVE  /\ g.hdr[p] = h.hdr[p]
                      /\ \A a \in Addr : p <= a /\ a <= p + SizeOf(h, p) - 2 => g.data[a] = h.data[a]
    BY DEF Keeps
  <2>1. p \in Addr
    BY BlockFacts
  <2>2. ASSUME NEW a \in Addr, p <= a, a <= p + SizeOf(h, p) - 2
        PROVE  g.data[a] = h.data[a]
    <3>1. a # s - 1 /\ a # e - 1
      BY <2>2, PayloadInside
    <3>2. a \in -1 .. MAX_HEAP
      BY HeapAssumption DEF Addr
    <3> QED BY <1>4, <3>1, <3>2
  <2> QED BY <1>9, <2>1, <2>2
<1> QED BY <1>4, <1>7, <1>9, <1>10, <1>11 DEF Retiled, g

(* What an allocated block and a free one behind it make of a heap.        *)
Parted(h, g, s, m, e) ==
  /\ IsHeap(g) /\ Tiling(g)
  /\ g.brk = h.brk /\ g.wrapped = h.wrapped /\ g.lists = h.lists
  /\ g.hdr[s] = PACK(m - s, TRUE) /\ g.hdr[m] = PACK(e - m, FALSE)
  /\ \A a \in Addr : a < s \/ a >= e => g.hdr[a] = h.hdr[a]
  /\ \A a \in Addr : a \in Used(g) <=> (a \in Used(h) /\ (a < s \/ a >= e)) \/ a = s
  /\ \A a \in Addr : a \in Free(g) <=> (a \in Free(h) /\ (a < s \/ a >= e)) \/ a = m
  /\ Keeps(h, g, {p \in Blk(h) : p < s \/ p >= e})
  /\ \A a \in -1 .. MAX_HEAP : a # s - 1 /\ a # m - 1 /\ a # e - 1 => g.data[a] = h.data[a]

(* Tagging it in two at m makes a used block and a free one.               *)
LEMMA Part ==
    ASSUME NEW h, IsHeap(h), Tiling(h), NEW s \in Edge(h), NEW e \in Edge(h),
           NEW m \in Int, s + 2 <= m, m + 2 <= e
    PROVE  Parted(h, PutTags(PutTags(h, s, m - s, TRUE), m, e - m, FALSE), s, m, e)
<1>1. s \in Addr /\ s \in Int /\ e \in Addr /\ e \in Int
  BY EdgeFacts
<1>2. m \in Addr /\ m - s # 0 /\ s < m /\ e - m # 0 /\ m < e /\ s < e
  BY <1>1, HeapAssumption DEF Addr
<1>3. \A a \in Addr : a \in Int
  BY Numbers
<1>a. PICK f : f = PutTags(h, s, m - s, TRUE)
  OBVIOUS
<1>b. PICK g : g = PutTags(f, m, e - m, FALSE)
  OBVIOUS
<1>c. Tagged(h, f, s, m, TRUE)
  BY <1>1, <1>2, <1>a, PutTagsSpan
<1>d. IsHeap(f)
  BY <1>c DEF Tagged
<1>e. Tagged(f, g, m, e, FALSE)
  BY <1>1, <1>2, <1>b, <1>d, PutTagsSpan
<1>4. /\ IsHeap(f)
      /\ f.brk = h.brk /\ f.wrapped = h.wrapped /\ f.lists = h.lists
      /\ f.hdr[s] = PACK(m - s, TRUE) /\ f.ftr[m] = PACK(m - s, TRUE)
      /\ \A a \in Addr : s < a /\ a < m => f.hdr[a] = NoTag
      /\ \A a \in Addr : a < s \/ a >= m => f.hdr[a] = h.hdr[a]
      /\ \A a \in Addr : a <= s \/ a > m => f.ftr[a] = h.ftr[a]
      /\ \A a \in -1 .. MAX_HEAP : a # s - 1 /\ a # m - 1 => f.data[a] = h.data[a]
  BY <1>c DEF Tagged
<1>5. /\ IsHeap(g)
      /\ g.brk = f.brk /\ g.wrapped = f.wrapped /\ g.lists = f.lists
      /\ g.hdr[m] = PACK(e - m, FALSE) /\ g.ftr[e] = PACK(e - m, FALSE)
      /\ \A a \in Addr : m < a /\ a < e => g.hdr[a] = NoTag
      /\ \A a \in Addr : a < m \/ a >= e => g.hdr[a] = f.hdr[a]
      /\ \A a \in Addr : a <= m \/ a > e => g.ftr[a] = f.ftr[a]
      /\ \A a \in -1 .. MAX_HEAP : a # m - 1 /\ a # e - 1 => g.data[a] = f.data[a]
  BY <1>e DEF Tagged
<1>6. /\ g.hdr[s] = PACK(m - s, TRUE) /\ g.ftr[m] = PACK(m - s, TRUE)
      /\ \A a \in Addr : s < a /\ a < e /\ a # m => g.hdr[a] = NoTag
      /\ \A a \in Addr : a < s \/ a >= e => g.hdr[a] = h.hdr[a]
      /\ \A a \in Addr : a <= s \/ a > e => g.ftr[a] = h.ftr[a]
      /\ \A a \in -1 .. MAX_HEAP :
           a # s - 1 /\ a # m - 1 /\ a # e - 1 => g.data[a] = h.data[a]
  <2>1. g.hdr[s] = PACK(m - s, TRUE) /\ g.ftr[m] = PACK(m - s, TRUE)
    <3>1. g.hdr[s] = f.hdr[s] /\ g.ftr[m] = f.ftr[m]
      BY <1>1, <1>2, <1>3, <1>5
    <3> QED BY <1>4, <3>1, Zenon
  <2>2. \A a \in Addr : s < a /\ a < e /\ a # m => g.hdr[a] = NoTag
    BY <1>1, <1>2, <1>3, <1>4, <1>5
  <2>3. \A a \in Addr : a < s \/ a >= e => g.hdr[a] = h.hdr[a]
    <3> SUFFICES ASSUME NEW a \in Addr, a < s \/ a >= e
                 PROVE  g.hdr[a] = h.hdr[a]
      OBVIOUS
    <3>1. (a < s /\ a < m) \/ (a >= m /\ a >= e)
      BY <1>1, <1>2, <1>3
    <3>2. g.hdr[a] = f.hdr[a]
      BY <1>5, <3>1
    <3>3. f.hdr[a] = h.hdr[a]
      BY <1>4, <3>1
    <3> QED BY <3>2, <3>3
  <2>4. \A a \in Addr : a <= s \/ a > e => g.ftr[a] = h.ftr[a]
    <3> SUFFICES ASSUME NEW a \in Addr, a <= s \/ a > e
                 PROVE  g.ftr[a] = h.ftr[a]
      OBVIOUS
    <3>1. (a <= s /\ a <= m) \/ (a > m /\ a > e)
      BY <1>1, <1>2, <1>3
    <3>2. g.ftr[a] = f.ftr[a]
      BY <1>5, <3>1
    <3>3. f.ftr[a] = h.ftr[a]
      BY <1>4, <3>1
    <3> QED BY <3>2, <3>3
  <2>5. \A a \in -1 .. MAX_HEAP :
           a # s - 1 /\ a # m - 1 /\ a # e - 1 => g.data[a] = h.data[a]
    BY <1>4, <1>5
  <2> QED BY <2>1, <2>2, <2>3, <2>4, <2>5
<1>7. /\ g.hdr[s] # NoTag /\ SizeOf(g, s) = m - s /\ IsAlloc(g, s) = TRUE
      /\ g.hdr[m] # NoTag /\ SizeOf(g, m) = e - m /\ IsAlloc(g, m) = FALSE
  <2>1. /\ PACK(m - s, TRUE).size = m - s /\ PACK(m - s, TRUE).alloc = TRUE
        /\ PACK(m - s, TRUE) # NoTag
    BY <1>2, PackIsTag
  <2>2. /\ PACK(e - m, FALSE).size = e - m /\ PACK(e - m, FALSE).alloc = FALSE
        /\ PACK(e - m, FALSE) # NoTag
    BY <1>2, PackIsTag
  <2>3. g.hdr[s] = PACK(m - s, TRUE) /\ g.hdr[m] = PACK(e - m, FALSE)
    BY <1>5, <1>6
  <2> QED BY <2>1, <2>2, <2>3, Zenon DEF SizeOf, IsAlloc
<1>8. Refill(h, g, s, e, {m})
  <2>1. s + SizeOf(g, s) = m /\ SizeOf(g, s) >= MIN_BLK_SIZE /\ g.ftr[m] = g.hdr[s]
    BY <1>1, <1>2, <1>6, <1>7, Numbers
  <2>2. m + SizeOf(g, m) = e /\ SizeOf(g, m) >= MIN_BLK_SIZE /\ g.ftr[e] = g.hdr[m]
    BY <1>1, <1>2, <1>5, <1>7, Numbers
  <2>3. \A a \in Addr : s < a /\ a < m => g.hdr[a] = NoTag
    BY <1>1, <1>2, <1>3, <1>6
  <2> QED BY <1>2, <1>4, <1>5, <1>6, <1>7, <2>1, <2>2, <2>3, ZenonT(40) DEF Refill
<1>9. Tiling(g)
  BY <1>2, <1>5, <1>8, RefillTiles
<1>10. \A a \in Addr : a \in Blk(g) <=> (a \in Blk(h) /\ (a < s \/ a >= e)) \/ a = m \/ a = s
  <2>1. IsHeap(g) /\ s < e
    BY <1>2, <1>5
  <2>2. \A a \in Addr : a \in Blk(g) <=> \/ a \in Blk(h) /\ (a < s \/ a >= e)
                                         \/ a \in {m} \/ a = s
    BY <1>8, <2>1, RefillBlocks, Zenon
  <2> QED BY <2>2, Zenon
<1>11. \A a \in Addr : (a < s \/ a >= e) => g.hdr[a] = h.hdr[a] /\ a # s /\ a # m
  BY <1>1, <1>2, <1>3, <1>6
<1>12. \A a \in Addr : /\ a \in Used(g) <=> (a \in Used(h) /\ (a < s \/ a >= e)) \/ a = s
                       /\ a \in Free(g) <=> (a \in Free(h) /\ (a < s \/ a >= e)) \/ a = m
  BY <1>1, <1>2, <1>7, <1>10, <1>11 DEF Used, Free, IsAlloc
<1>13. Keeps(h, g, {p \in Blk(h) : p < s \/ p >= e})
  <2> SUFFICES ASSUME NEW p \in Blk(h), p < s \/ p >= e
               PROVE  /\ g.hdr[p] = h.hdr[p]
                      /\ \A a \in Addr : p <= a /\ a <= p + SizeOf(h, p) - 2 => g.data[a] = h.data[a]
    BY DEF Keeps
  <2>1. p \in Addr /\ p \in Int /\ SizeOf(h, p) \in Int
    BY BlockFacts
  <2>2. ASSUME NEW a \in Addr, p <= a, a <= p + SizeOf(h, p) - 2
        PROVE  g.data[a] = h.data[a]
    <3>1. a # s - 1 /\ a # e - 1
      BY <2>2, PayloadInside
    <3>2. a \in -1 .. MAX_HEAP
      BY HeapAssumption DEF Addr
    <3>3. p < s => p + SizeOf(h, p) <= s
      BY Apart
    <3>4. a # m - 1
      BY <1>1, <1>2, <1>3, <2>1, <2>2, <3>3
    <3> QED BY <1>6, <3>1, <3>2, <3>4
  <2> QED BY <1>11, <2>1, <2>2
<1> QED BY <1>a, <1>b, <1>4, <1>5, <1>6, <1>9, <1>12, <1>13 DEF Parted

-----------------------------------------------------------------------------
(* The segregated lists.                                                   *)

(* Every size has a level, a larger one none that is lower.                *)
LEMMA LevelOf ==
    ASSUME NEW size \in Int
    PROVE  /\ get_seg_level(size) \in Levels
           /\ \A larger \in Int : size <= larger => get_seg_level(size) <= get_seg_level(larger)
<1> DEFINE Below(n) == {i \in 1 .. 10 : n > LIMITS[i]}
<1>1. DOMAIN LIMITS = 1 .. 10
  BY DEF LIMITS
<1>2. \A n : get_seg_level(n) = Cardinality(Below(n))
  BY <1>1 DEF get_seg_level
<1>3. IsFiniteSet(1 .. 10) /\ Cardinality(1 .. 10) = 10
  <2>1. /\ IsFiniteSet(1 .. 10)
        /\ Cardinality(1 .. 10) = IF 1 > 10 THEN 0 ELSE 10 - 1 + 1
    <3>1. 1 \in Int /\ 10 \in Int
      OBVIOUS
    <3> QED BY <3>1, FS_Interval, Zenon
  <2> QED BY <2>1
<1>4. \A n : /\ IsFiniteSet(Below(n))
             /\ Cardinality(Below(n)) \in Nat /\ Cardinality(Below(n)) <= 10
  <2> TAKE n
  <2>1. Below(n) \in SUBSET (1 .. 10)
    OBVIOUS
  <2> HIDE DEF Below
  <2>2. IsFiniteSet(Below(n)) /\ Cardinality(Below(n)) <= Cardinality(1 .. 10)
    BY <1>3, <2>1, FS_Subset
  <2> QED BY <1>3, <2>2, FS_CardinalityType
<1>5. ASSUME NEW larger \in Int, size <= larger
      PROVE  Cardinality(Below(size)) <= Cardinality(Below(larger))
  <2>1. \A i \in 1 .. 10 : LIMITS[i] \in Int
    BY DEF LIMITS
  <2>2. Below(size) \in SUBSET Below(larger)
    BY <1>5, <2>1
  <2> HIDE DEF Below
  <2> QED BY <1>4, <2>2, FS_Subset
<1> HIDE DEF Below
<1> QED BY <1>2, <1>4, <1>5 DEF Levels, N_SEGLIST

(* Removing b from a list that holds F leaves one that holds F without b.  *)
LEMMA ListWithout ==
    ASSUME NEW h, NEW l \in Seq(Addr), NEW i, NEW F, InList(h, l, i, F), NEW b
    PROVE  RemoveFirst(l, b) \in Seq(Addr) /\ InList(h, RemoveFirst(l, b), i, F \ {b})
<1>1. /\ \A j, k \in DOMAIN l : j < k => l[j] # l[k] /\ SizeOf(h, l[j]) <= SizeOf(h, l[k])
      /\ \A k \in DOMAIN l : l[k] \in F /\ get_seg_level(SizeOf(h, l[k])) = i
      /\ \A p \in F : get_seg_level(SizeOf(h, p)) = i => \E k \in DOMAIN l : l[k] = p
  BY DEF InList
<1>2. CASE ~ \E k \in 1 .. Len(l) : l[k] = b
  <2>1. RemoveFirst(l, b) = l
    BY <1>2, Zenon DEF RemoveFirst
  <2>2. \A k \in DOMAIN l : l[k] # b
    BY <1>2
  <2> QED BY <1>1, <2>1, <2>2 DEF InList
<1>3. CASE \E k \in 1 .. Len(l) : l[k] = b
  <2> DEFINE I == {k \in 1 .. Len(l) : l[k] = b}
             at == IF I # {} THEN Min(I) ELSE 0
  <2>1. RemoveFirst(l, b) = RemoveAt(l, at)
    BY <1>3, Zenon DEF RemoveFirst, SelectInSeq
  <2>2. I # {} /\ I \in SUBSET (1 .. Len(l)) /\ Len(l) \in Nat
    BY <1>3
  <2> HIDE DEF I
  <2>3. at \in I /\ at \in 1 .. Len(l)
    BY <2>2, FirstPlace
  <2>4. at \in 1 .. Len(l) /\ l[at] = b
    BY <2>3 DEF I
  <2> HIDE DEF at
  <2> DEFINE r == RemoveAt(l, at)
             old(k) == IF k < at THEN k ELSE k + 1
  <2>5. /\ r \in Seq(Addr) /\ Len(r) = Len(l) - 1
        /\ \A k \in 1 .. Len(l) - 1 : r[k] = IF k < at THEN l[k] ELSE l[k + 1]
    BY <2>4, Removed
  <2> HIDE DEF r
  <2>6. DOMAIN r = 1 .. Len(l) - 1 /\ DOMAIN l = 1 .. Len(l)
    BY <2>5
  <2>7. \A k \in DOMAIN r : old(k) \in DOMAIN l /\ old(k) # at /\ r[k] = l[old(k)]
    BY <2>4, <2>5, <2>6
  <2>8. \A j, k \in DOMAIN r : j < k => old(j) < old(k)
    BY <2>4, <2>6
  <2>9. \A k \in DOMAIN l : k # at => \E j \in DOMAIN r : k = old(j)
    <3> TAKE k \in DOMAIN l
    <3>1. CASE k < at
      BY <2>4, <2>6, <3>1
    <3>2. CASE k > at
      <4>1. k - 1 \in DOMAIN r /\ k = old(k - 1)
        BY <2>4, <2>6, <3>2
      <4> QED BY <4>1
    <3> QED BY <2>4, <2>6, <3>1, <3>2
  <2>10. \A k \in DOMAIN l : k # at => l[k] # b
    BY <1>1, <2>4, <2>6
  <2> HIDE DEF old
  <2>11. \A j, k \in DOMAIN r : j < k => r[j] # r[k] /\ SizeOf(h, r[j]) <= SizeOf(h, r[k])
    BY <1>1, <2>7, <2>8
  <2>12. \A k \in DOMAIN r : r[k] \in F \ {b} /\ get_seg_level(SizeOf(h, r[k])) = i
    BY <1>1, <2>7, <2>10
  <2>13. \A p \in F \ {b} : get_seg_level(SizeOf(h, p)) = i => \E k \in DOMAIN r : r[k] = p
    <3> SUFFICES ASSUME NEW p \in F, p # b, get_seg_level(SizeOf(h, p)) = i
                 PROVE  \E k \in DOMAIN r : r[k] = p
      OBVIOUS
    <3>1. PICK k \in DOMAIN l : l[k] = p
      BY <1>1
    <3>2. k # at
      BY <2>4, <3>1
    <3>3. PICK j \in DOMAIN r : k = old(j)
      BY <2>9, <3>2
    <3> QED BY <2>7, <3>1, <3>3
  <2>14. InList(h, r, i, F \ {b})
    BY <2>11, <2>12, <2>13 DEF InList
  <2> QED BY <2>1, <2>5, <2>14 DEF r
<1> QED BY <1>2, <1>3

(* The search of a list stops at the first block that is not smaller.      *)
Stops(h, l, size, at) ==
  /\ at \in 0 .. Len(l)
  /\ at = 0 => \A k \in 1 .. Len(l) : SizeOf(h, l[k]) < size
  /\ at # 0 => SizeOf(h, l[at]) >= size
  /\ \A k \in 1 .. Len(l) : k < at => SizeOf(h, l[k]) < size

(* A search of a list stops at the first block that is large enough.       *)
LEMMA SearchStops ==
    ASSUME NEW h, NEW i, NEW l \in Seq(Addr), l = h.lists[i], NEW size \in Int,
           \A k \in 1 .. Len(l) : SizeOf(h, l[k]) \in Int
    PROVE  Stops(h, l, size, FirstNotSmaller(h, i, size))
<1> DEFINE I == {k \in 1 .. Len(l) : SizeOf(h, l[k]) >= size}
           at == IF I # {} THEN Min(I) ELSE 0
<1>1. FirstNotSmaller(h, i, size) = at
  BY Zenon DEF FirstNotSmaller, SelectInSeq
<1>2. I \in SUBSET (1 .. Len(l)) /\ Len(l) \in Nat
  OBVIOUS
<1>3. \A k \in 1 .. Len(l) : k \in I <=> SizeOf(h, l[k]) >= size
  OBVIOUS
<1> HIDE DEF I
<1>4. /\ at \in 0 .. Len(l) /\ (at = 0 <=> I = {})
      /\ (at # 0 => at \in I /\ at \in 1 .. Len(l)) /\ \A k \in I : at <= k
  BY <1>2, FirstPlace
<1> HIDE DEF at
<1>5. \A k \in 1 .. Len(l) : k \notin I => SizeOf(h, l[k]) < size
  BY <1>3
<1>6. \A k \in 1 .. Len(l) : k < at => k \notin I
  BY <1>2, <1>4
<1> QED BY <1>1, <1>3, <1>4, <1>5, <1>6 DEF Stops

(* A block put there joins the blocks of its list.                         *)
LEMMA ListWith ==
    ASSUME NEW h, NEW l \in Seq(Addr), NEW i, NEW F, InList(h, l, i, F),
           NEW b \in Addr, b \notin F, get_seg_level(SizeOf(h, b)) = i,
           SizeOf(h, b) \in Int, \A k \in DOMAIN l : SizeOf(h, l[k]) \in Int,
           NEW at, Stops(h, l, SizeOf(h, b), at),
           NEW r, r = Put(l, at, b)
    PROVE  r \in Seq(Addr) /\ InList(h, r, i, F \cup {b})
<1>1. /\ \A j, k \in DOMAIN l : j < k => l[j] # l[k] /\ SizeOf(h, l[j]) <= SizeOf(h, l[k])
      /\ \A k \in DOMAIN l : l[k] \in F /\ get_seg_level(SizeOf(h, l[k])) = i
      /\ \A p \in F : get_seg_level(SizeOf(h, p)) = i => \E k \in DOMAIN l : l[k] = p
  BY DEF InList
<1>2. DOMAIN l = 1 .. Len(l) /\ Len(l) \in Nat
  OBVIOUS
<1>3. /\ at \in 0 .. Len(l)
      /\ at = 0 => \A k \in 1 .. Len(l) : SizeOf(h, l[k]) < SizeOf(h, b)
      /\ at # 0 => SizeOf(h, l[at]) >= SizeOf(h, b)
      /\ \A k \in 1 .. Len(l) : k < at => SizeOf(h, l[k]) < SizeOf(h, b)
  BY DEF Stops
(* Where b comes to stand.                                                 *)
<1> DEFINE new == PutPlace(l, at)
           old(k) == IF k < new THEN k ELSE k - 1
<1>4. /\ r \in Seq(Addr) /\ Len(r) = Len(l) + 1 /\ new \in 1 .. Len(l) + 1
      /\ r[new] = b
      /\ \A k \in 1 .. Len(l) : k < new => r[k] = l[k]
      /\ \A k \in 1 .. Len(l) : k >= new => r[k + 1] = l[k]
  <2>1. at \in 0 .. Len(l)
    BY <1>3
  <2>2. IsPlaced(Addr, l, b, new, r)
    BY <2>1, Placed, Zenon
  <2> HIDE DEF new
  <2> QED BY <2>2 DEF IsPlaced
<1>5. \A k \in 1 .. Len(l) : k < new => SizeOf(h, l[k]) <= SizeOf(h, b)
  BY <1>2, <1>3 DEF PutPlace
<1>6. \A k \in 1 .. Len(l) : k >= new => SizeOf(h, b) <= SizeOf(h, l[k])
  <2> SUFFICES ASSUME NEW k \in 1 .. Len(l), k >= new
               PROVE  SizeOf(h, b) <= SizeOf(h, l[k])
    OBVIOUS
  <2>1. at # 0 /\ at \in 1 .. Len(l) /\ at <= k
    BY <1>3 DEF PutPlace
  <2>2. SizeOf(h, b) <= SizeOf(h, l[at])
    BY <1>3, <2>1
  <2>3. at < k => SizeOf(h, l[at]) <= SizeOf(h, l[k])
    BY <1>1, <1>2, <2>1
  <2>4. SizeOf(h, l[at]) \in Int /\ SizeOf(h, l[k]) \in Int
    BY <1>2, <2>1
  <2> QED BY <2>1, <2>2, <2>3, <2>4
<1>7. new \in 1 .. Len(l) + 1 /\ DOMAIN r = 1 .. Len(l) + 1
  BY <1>4
<1> HIDE DEF new
<1>8. \A k \in DOMAIN r : k # new => old(k) \in DOMAIN l /\ r[k] = l[old(k)]
  <2> SUFFICES ASSUME NEW k \in DOMAIN r, k # new
               PROVE  old(k) \in DOMAIN l /\ r[k] = l[old(k)]
    OBVIOUS
  <2>1. CASE k < new
    <3>1. k \in 1 .. Len(l) /\ old(k) = k
      BY <1>2, <1>7, <2>1
    <3> QED BY <1>2, <1>4, <2>1, <3>1
  <2>2. CASE k > new
    <3>1. k - 1 \in 1 .. Len(l) /\ k - 1 >= new /\ old(k) = k - 1 /\ (k - 1) + 1 = k
      BY <1>2, <1>7, <2>2
    <3> HIDE DEF old
    <3>2. r[(k - 1) + 1] = l[k - 1]
      BY <1>4, <3>1
    <3> QED BY <1>2, <3>1, <3>2
  <2> QED BY <1>2, <1>7, <2>1, <2>2
<1>9. \A j, k \in DOMAIN r : j < k /\ j # new /\ k # new => old(j) < old(k)
  BY <1>2, <1>7
<1>10. ASSUME NEW j \in DOMAIN r, NEW k \in DOMAIN r, j < k
       PROVE  r[j] # r[k] /\ SizeOf(h, r[j]) <= SizeOf(h, r[k])
  <2>1. CASE j # new /\ k # new
    <3>1. old(j) \in DOMAIN l /\ old(k) \in DOMAIN l /\ r[j] = l[old(j)] /\ r[k] = l[old(k)]
      BY <1>8, <2>1
    <3>2. old(j) < old(k)
      BY <1>9, <1>10, <2>1
    <3> HIDE DEF old
    <3> QED BY <1>1, <3>1, <3>2
  <2>2. CASE j = new
    <3>1. k # new /\ k \in Int /\ new \in Int /\ ~ (k < new)
      BY <1>7, <1>10, <2>2
    <3>2. old(k) \in DOMAIN l /\ r[k] = l[old(k)] /\ old(k) = k - 1
      BY <1>8, <3>1
    <3>3. old(k) \in 1 .. Len(l) /\ old(k) >= new
      BY <1>2, <1>10, <2>2, <3>1, <3>2
    <3> HIDE DEF old
    <3>4. SizeOf(h, b) <= SizeOf(h, l[old(k)]) /\ l[old(k)] \in F
      BY <1>1, <1>6, <3>2, <3>3
    <3> QED BY <1>4, <2>2, <3>2, <3>4
  <2>3. CASE k = new
    <3>1. j # new /\ j \in Int /\ new \in Int /\ j < new
      BY <1>7, <1>10, <2>3
    <3>2. old(j) \in DOMAIN l /\ r[j] = l[old(j)] /\ old(j) = j
      BY <1>8, <3>1
    <3> HIDE DEF old
    <3>3. SizeOf(h, l[old(j)]) <= SizeOf(h, b) /\ l[old(j)] \in F
      BY <1>1, <1>2, <1>5, <3>1, <3>2
    <3> QED BY <1>4, <2>3, <3>2, <3>3
  <2> QED BY <2>1, <2>2, <2>3
<1>11. \A k \in DOMAIN r : r[k] \in F \cup {b} /\ get_seg_level(SizeOf(h, r[k])) = i
  <2> TAKE k \in DOMAIN r
  <2>1. CASE k = new
    BY <1>4, <2>1
  <2>2. CASE k # new
    <3>1. old(k) \in DOMAIN l /\ r[k] = l[old(k)]
      BY <1>8, <2>2
    <3> HIDE DEF old
    <3> QED BY <1>1, <3>1
  <2> QED BY <2>1, <2>2
<1>12. ASSUME NEW p \in F \cup {b}, get_seg_level(SizeOf(h, p)) = i
       PROVE  \E k \in DOMAIN r : r[k] = p
  <2>1. CASE p = b
    BY <1>4, <1>7, <2>1
  <2>2. CASE p \in F
    <3>1. PICK k \in DOMAIN l : l[k] = p
      BY <1>1, <1>12, <2>2
    <3>2. CASE k < new
      <4>1. k \in DOMAIN r /\ k # new /\ old(k) = k
        BY <1>2, <1>7, <3>2
      <4> QED BY <1>8, <3>1, <4>1
    <3>3. CASE k >= new
      <4>1. k + 1 \in DOMAIN r /\ k + 1 # new /\ old(k + 1) = k
        BY <1>2, <1>7, <3>3
      <4> QED BY <1>8, <3>1, <4>1
    <3> QED BY <1>2, <1>7, <3>2, <3>3
  <2> QED BY <2>1, <2>2
<1> QED BY <1>4, <1>10, <1>11, <1>12 DEF InList

(* Two heaps with the same blocks.                                         *)
SameTags(h, g) == /\ g.brk = h.brk /\ g.wrapped = h.wrapped
                  /\ g.hdr = h.hdr /\ g.ftr = h.ftr

(* The same tags: the same blocks, edges, free and used.                   *)
LEMMA SameBlocks ==
    ASSUME NEW h, NEW g, SameTags(h, g)
    PROVE  /\ Blk(g) = Blk(h) /\ Edge(g) = Edge(h) /\ Free(g) = Free(h) /\ Used(g) = Used(h)
           /\ Tiling(h) => Tiling(g)
           /\ \A p : SizeOf(g, p) = SizeOf(h, p)
<1>1. Blk(g) = Blk(h)
  BY DEF SameTags, Blk
<1>2. Edge(g) = Edge(h) /\ Free(g) = Free(h) /\ Used(g) = Used(h)
  BY <1>1 DEF SameTags, Edge, Free, Used, IsAlloc
<1>3. \A p : SizeOf(g, p) = SizeOf(h, p) /\ (Block(h, p) => Block(g, p))
  BY <1>2 DEF SameTags, SizeOf, Block
<1>4. Framed(h) => Framed(g)
  BY DEF SameTags, Framed
<1> QED BY <1>1, <1>2, <1>3, <1>4 DEF Tiling

(* Lists keep what they hold when its headers stay.                        *)
SameFree(h, g, F) == g.lists = h.lists /\ \A p \in F : g.hdr[p] = h.hdr[p]

(* The lists hold the same free blocks while their headers stay.           *)
LEMMA HoldsOn ==
    ASSUME NEW h, NEW g, NEW F, Holds(h, F), SameFree(h, g, F)
    PROVE  Holds(g, F)
<1>0. g.lists = h.lists /\ \A p \in F : g.hdr[p] = h.hdr[p]
  BY DEF SameFree
<1> SUFFICES ASSUME NEW i \in Levels
             PROVE  InList(g, g.lists[i], i, F)
  BY DEF Holds
<1>1. InList(h, h.lists[i], i, F)
  BY DEF Holds
<1> DEFINE l == h.lists[i]
<1>2. g.lists[i] = l
  BY <1>0
<1>3. \A p \in F : SizeOf(g, p) = SizeOf(h, p)
  BY <1>0 DEF SizeOf
<1> HIDE DEF l
<1>4. InList(g, l, i, F)
  <2>1. InList(h, l, i, F)
    BY <1>1 DEF l
  <2> QED BY <1>3, <2>1 DEF InList
<1> QED BY <1>2, <1>4

(* delete_free_block takes a block from its list and does nothing else.    *)
LEMMA Delete ==
    ASSUME NEW h, IsHeap(h), NEW F, Holds(h, F), NEW b
    PROVE  /\ IsHeap(delete_free_block(h, b)) /\ SameTags(h, delete_free_block(h, b))
           /\ delete_free_block(h, b).data = h.data
           /\ Holds(delete_free_block(h, b), F \ {b})
<1> DEFINE lists == [i \in Levels |-> RemoveFirst(h.lists[i], b)]
<1>1. PICK g : g = delete_free_block(h, b)
  OBVIOUS
<1>2. DOMAIN h.lists = Levels
  BY DEF IsHeap
<1>3. h = [brk |-> h.brk, wrapped |-> h.wrapped, hdr |-> h.hdr, ftr |-> h.ftr,
           data |-> h.data, lists |-> h.lists]
  BY DEF IsHeap
<1>4. g = [h EXCEPT !.lists = lists]
  BY <1>1, <1>2, Zenon DEF delete_free_block
<1>5. \A i \in Levels : InList(h, h.lists[i], i, F) /\ h.lists[i] \in Seq(Addr)
  BY DEF Holds, IsHeap
<1>6. \A i \in Levels : lists[i] \in Seq(Addr) /\ InList(h, lists[i], i, F \ {b})
  BY <1>5, ListWithout
<1>7. lists \in [Levels -> Seq(Addr)]
  BY <1>6
<1> HIDE DEF lists
<1>8. g = [brk |-> h.brk, wrapped |-> h.wrapped, hdr |-> h.hdr, ftr |-> h.ftr,
           data |-> h.data, lists |-> lists]
  BY <1>3, <1>4
<1>9. /\ g.brk = h.brk /\ g.wrapped = h.wrapped /\ g.hdr = h.hdr /\ g.ftr = h.ftr
      /\ g.data = h.data /\ g.lists = lists
  BY <1>8
<1>10. IsHeap(g)
  BY <1>7, <1>8, <1>9 DEF IsHeap
<1>11. SameTags(h, g)
  BY <1>9 DEF SameTags
<1>12. \A i \in Levels : InList(g, lists[i], i, F \ {b})
  BY <1>6, <1>9 DEF InList, SizeOf
<1> QED BY <1>1, <1>9, <1>10, <1>11, <1>12 DEF Holds

(* insert_free_block lists a block and overwrites the first double word of *)
(* its payload.                                                            *)
LEMMA Insert ==
    ASSUME NEW h, IsHeap(h), NEW F \in SUBSET Addr, Holds(h, F), NEW b \in Addr, b \notin F
    PROVE  /\ IsHeap(insert_free_block(h, b)) /\ SameTags(h, insert_free_block(h, b))
           /\ \A a \in -1 .. MAX_HEAP : a # b => insert_free_block(h, b).data[a] = h.data[a]
           /\ Holds(insert_free_block(h, b), F \cup {b})
<1> DEFINE size == SizeOf(h, b)
           level == get_seg_level(size)
           l == h.lists[level]
           at == FirstNotSmaller(h, level, size)
           lists == [h.lists EXCEPT ![level] = Put(l, at, b)]
           data == [h.data EXCEPT ![b] = Junk]
<1>1. PICK g : g = insert_free_block(h, b)
  OBVIOUS
<1>2. h = [brk |-> h.brk, wrapped |-> h.wrapped, hdr |-> h.hdr, ftr |-> h.ftr,
           data |-> h.data, lists |-> h.lists]
  BY DEF IsHeap
<1>3. g = [h EXCEPT !.lists = lists, !.data = data]
  BY <1>1, <1>2 DEF insert_free_block, Put
<1>4. \A p \in Addr : SizeOf(h, p) \in Int
  BY TagFields, Numbers
<1>5. level \in Levels
  BY <1>4, LevelOf
<1>6. \A i \in Levels : InList(h, h.lists[i], i, F) /\ h.lists[i] \in Seq(Addr)
  BY DEF Holds, IsHeap
<1>7. \A k \in 1 .. Len(l) : l[k] \in Addr /\ SizeOf(h, l[k]) \in Int
  BY <1>4, <1>5, <1>6
<1>8. Stops(h, l, size, at)
  BY <1>4, <1>5, <1>6, <1>7, SearchStops
<1>9. Put(l, at, b) \in Seq(Addr) /\ InList(h, Put(l, at, b), level, F \cup {b})
  BY <1>4, <1>5, <1>6, <1>7, <1>8, ListWith
<1>10. DOMAIN h.lists = Levels
  BY DEF IsHeap
<1>11. \A i \in Levels : lists[i] = IF i = level THEN Put(l, at, b) ELSE h.lists[i]
  BY <1>10
<1>12. \A i \in Levels : lists[i] \in Seq(Addr) /\ InList(h, lists[i], i, F \cup {b})
  <2> SUFFICES ASSUME NEW i \in Levels
               PROVE  lists[i] \in Seq(Addr) /\ InList(h, lists[i], i, F \cup {b})
    OBVIOUS
  <2>1. CASE i = level
    BY <1>9, <1>11, <2>1
  <2>2. CASE i # level
    <3>1. lists[i] = h.lists[i] /\ InList(h, h.lists[i], i, F) /\ h.lists[i] \in Seq(Addr)
      BY <1>6, <1>11, <2>2
    <3>2. get_seg_level(SizeOf(h, b)) # i
      BY <2>2
    <3> HIDE DEF lists
    <3> QED BY <3>1, <3>2 DEF InList
  <2> QED BY <2>1, <2>2
<1>13. lists \in [Levels -> Seq(Addr)]
  BY <1>10, <1>12 DEF IsHeap
<1>14. /\ data = [a \in -1 .. MAX_HEAP |-> data[a]]
       /\ \A a \in -1 .. MAX_HEAP : a # b => data[a] = h.data[a]
  BY DEF IsHeap
<1> HIDE DEF lists, data
<1>15. g = [brk |-> h.brk, wrapped |-> h.wrapped, hdr |-> h.hdr, ftr |-> h.ftr,
            data |-> data, lists |-> lists]
  BY <1>2, <1>3
<1>16. /\ g.brk = h.brk /\ g.wrapped = h.wrapped /\ g.hdr = h.hdr /\ g.ftr = h.ftr
       /\ g.data = data /\ g.lists = lists
  BY <1>15
<1>17. IsHeap(g)
  BY <1>13, <1>14, <1>15, <1>16 DEF IsHeap
<1>18. SameTags(h, g)
  BY <1>16 DEF SameTags
<1>19. \A i \in Levels : InList(g, lists[i], i, F \cup {b})
  BY <1>12, <1>16 DEF InList, SizeOf
<1> QED BY <1>1, <1>14, <1>16, <1>17, <1>18, <1>19 DEF Holds

-----------------------------------------------------------------------------
(* What the routines make of a heap in order.                              *)

(* The heap g, in order, has the allocated blocks of h but for those of    *)
(* gone, and new ones; the others keep their size and their payload.       *)
Becomes(h, g, gone, new) ==
  /\ IsHeap(g) /\ Sound(g) /\ g.brk >= h.brk /\ g.wrapped = h.wrapped
  /\ Used(g) = (Used(h) \ gone) \cup new
  /\ Keeps(h, g, Used(h) \ gone)

(* A block that keeps its header and payload does so in two steps as well. *)
LEMMA KeepsOn ==
    ASSUME NEW h, NEW f, NEW g, NEW S, Keeps(h, f, S), Keeps(f, g, S)
    PROVE  Keeps(h, g, S)
BY DEF Keeps, SizeOf

(* Steps that follow each other.                                           *)
LEMMA BecomesOn ==
    ASSUME NEW h, IsHeap(h), NEW f, NEW g, NEW gone, NEW new, NEW gone2, NEW new2,
           Becomes(h, f, gone, new), Becomes(f, g, gone2, new2)
    PROVE  /\ IsHeap(g) /\ Sound(g) /\ g.brk >= h.brk /\ g.wrapped = h.wrapped
           /\ Used(g) = (((Used(h) \ gone) \cup new) \ gone2) \cup new2
           /\ Keeps(h, g, (Used(h) \ gone) \ gone2)
<1>1. /\ IsHeap(f) /\ IsHeap(g) /\ Sound(g) /\ f.brk >= h.brk /\ g.brk >= f.brk
      /\ f.wrapped = h.wrapped /\ g.wrapped = f.wrapped
      /\ Used(f) = (Used(h) \ gone) \cup new
      /\ Used(g) = (Used(f) \ gone2) \cup new2
      /\ Keeps(h, f, Used(h) \ gone) /\ Keeps(f, g, Used(f) \ gone2)
  BY DEF Becomes
<1>2. h.brk \in Int /\ f.brk \in Int /\ g.brk \in Int
  BY <1>1, Numbers DEF IsHeap
<1>3. Keeps(h, f, (Used(h) \ gone) \ gone2) /\ Keeps(f, g, (Used(h) \ gone) \ gone2)
  BY <1>1 DEF Keeps
<1> QED BY <1>1, <1>2, <1>3, KeepsOn

(* A step that changes no allocated block may follow.                      *)
LEMMA BecomesThrough ==
    ASSUME NEW h, IsHeap(h), NEW f, NEW g, NEW gone, NEW new,
           Becomes(h, f, gone, new), Becomes(f, g, {}, {})
    PROVE  Becomes(h, g, gone, new)
<1>1. /\ IsHeap(g) /\ Sound(g) /\ g.brk >= h.brk /\ g.wrapped = h.wrapped
      /\ Used(g) = (((Used(h) \ gone) \cup new) \ {}) \cup {}
      /\ Keeps(h, g, (Used(h) \ gone) \ {})
  BY BecomesOn, Zenon
<1>2. Used(g) = (Used(h) \ gone) \cup new /\ (Used(h) \ gone) \ {} = Used(h) \ gone
  BY <1>1
<1>3. Keeps(h, g, Used(h) \ gone)
  BY <1>1, <1>2, Zenon
<1> QED BY <1>1, <1>2, <1>3, Zenon DEF Becomes

(* Or come first.                                                          *)
LEMMA BecomesAfter ==
    ASSUME NEW h, IsHeap(h), NEW f, NEW g, NEW gone, NEW new,
           Becomes(h, f, {}, {}), Becomes(f, g, gone, new)
    PROVE  Becomes(h, g, gone, new)
<1>1. /\ IsHeap(g) /\ Sound(g) /\ g.brk >= h.brk /\ g.wrapped = h.wrapped
      /\ Used(g) = (((Used(h) \ {}) \cup {}) \ gone) \cup new
      /\ Keeps(h, g, (Used(h) \ {}) \ gone)
  BY BecomesOn, Zenon
<1>2. Used(g) = (Used(h) \ gone) \cup new /\ (Used(h) \ {}) \ gone = Used(h) \ gone
  BY <1>1
<1>3. Keeps(h, g, Used(h) \ gone)
  BY <1>1, <1>2, Zenon
<1> QED BY <1>1, <1>2, <1>3, Zenon DEF Becomes

(* The addresses from s up to e.                                           *)
Within(s, e) == {p \in Addr : s <= p /\ p < e}

(* Two free blocks side by side: one of them is in S.                      *)
Alone(h, S) ==
  \A p \in Free(h) : p + SizeOf(h, p) \in Free(h) => p \in S \/ p + SizeOf(h, p) \in S

(* No two free blocks lie side by side, unless some did before.            *)
StaysCoalesced(h, g) == Alone(h, {}) => Alone(g, {})

(* The tags decide.                                                        *)
LEMMA SameAlone ==
    ASSUME NEW h, NEW g, SameTags(h, g), NEW S
    PROVE  Alone(h, S) <=> Alone(g, S)
<1>1. Free(g) = Free(h) /\ \A p : SizeOf(g, p) = SizeOf(h, p)
  BY SameBlocks
<1> QED BY <1>1 DEF Alone

(* Fewer blocks need an excuse.                                            *)
LEMMA AloneMore ==
    ASSUME NEW h, NEW S, NEW T, Alone(h, S), S \subseteq T
    PROVE  Alone(h, T)
BY DEF Alone

(* The free blocks in N take the place of those from s to e.               *)
Replaced(h, g, s, e, N) ==
  /\ \A a \in Addr : a \in Free(g) <=> (a \in Free(h) /\ (a < s \/ a >= e)) \/ a \in N
  /\ \A a \in Addr : a < s \/ a >= e => g.hdr[a] = h.hdr[a]

(* Only they may lie beside others now.                                    *)
LEMMA AloneSpan ==
    ASSUME NEW h, NEW g, NEW s \in Int, NEW e \in Int, NEW N, Replaced(h, g, s, e, N)
    PROVE  Alone(h, Within(s, e)) => Alone(g, N)
<1> SUFFICES ASSUME Alone(h, Within(s, e)), NEW p \in Free(g), p \notin N,
                    NEW q, q = p + SizeOf(g, p), q \in Free(g), q \notin N
             PROVE  FALSE
  BY DEF Alone
<1>1. p \in Addr /\ p \in Int /\ q \in Addr /\ q \in Int
  BY Numbers DEF Free, Blk
<1>2. p \in Free(h) /\ (p < s \/ p >= e) /\ q \in Free(h) /\ (q < s \/ q >= e)
  BY <1>1 DEF Replaced
<1>3. q = p + SizeOf(h, p)
  BY <1>1, <1>2 DEF SizeOf, Replaced
<1>4. p \in Within(s, e) \/ q \in Within(s, e)
  BY <1>2, <1>3 DEF Alone
<1> QED BY <1>1, <1>2, <1>4 DEF Within

(* The free blocks from s to e have become one.                            *)
Merged(h, g, s, e) ==
  /\ g.brk = h.brk /\ s \in Free(g) /\ SizeOf(g, s) = e - s
  /\ \A a \in Addr : a < s \/ a >= e => g.hdr[a] = h.hdr[a]
  /\ \A a \in Addr : a \in Free(g) <=> (a \in Free(h) /\ (a < s \/ a >= e)) \/ a = s
  /\ Alone(h, Within(s, e)) => Alone(g, {s})

(* One free block takes the place of the blocks from s to e.               *)
LEMMA NewFree ==
    ASSUME NEW h, IsHeap(h), Tiling(h), NEW s \in Edge(h), NEW e \in Edge(h), s + 2 <= e,
           NEW F, Holds(h, F), F \subseteq Free(h), \A p \in Free(h) : p \in F <=> p < s \/ p >= e,
           NEW g, g = insert_free_block(PutTags(h, s, e - s, FALSE), s)
    PROVE  Becomes(h, g, Within(s, e), {}) /\ Merged(h, g, s, e)
<1>1. PICK f : f = PutTags(h, s, e - s, FALSE)
  OBVIOUS
<1>2. Retiled(h, f, s, e, FALSE)
  BY <1>1, Retile
<1>3. s \in Addr /\ s \in Int /\ e \in Addr /\ e \in Int
  BY EdgeFacts
<1>4. \A p \in Blk(h) : p \in Addr /\ p \in Int
  BY Numbers DEF Blk
<1>5. /\ IsHeap(f) /\ Tiling(f) /\ f.brk = h.brk /\ f.wrapped = h.wrapped /\ f.lists = h.lists
      /\ f.hdr[s] = PACK(e - s, FALSE)
      /\ \A a \in Addr : a \in Used(f) <=> a \in Used(h) /\ (a < s \/ a >= e)
      /\ \A a \in Addr : a \in Free(f) <=> (a \in Free(h) /\ (a < s \/ a >= e)) \/ a = s
      /\ Keeps(h, f, {p \in Blk(h) : p < s \/ p >= e})
  BY <1>2 DEF Retiled
<1>6. /\ F \in SUBSET Addr /\ s \notin F
      /\ \A p \in F : p \in Blk(h) /\ (p < s \/ p >= e)
  BY <1>3, <1>4 DEF Free
<1>7. Holds(f, F)
  <2>1. \A p \in F : f.hdr[p] = h.hdr[p]
    BY <1>5, <1>6 DEF Keeps
  <2>2. f.lists = h.lists
    BY <1>5
  <2>3. SameFree(h, f, F)
    BY <2>1, <2>2, Zenon DEF SameFree
  <2> QED BY <2>3, HoldsOn, Zenon
<1>8. /\ IsHeap(g) /\ SameTags(f, g) /\ Holds(g, F \cup {s})
      /\ \A a \in -1 .. MAX_HEAP : a # s => g.data[a] = f.data[a]
  <2>1. g = insert_free_block(f, s)
    BY <1>1
  <2>2. IsHeap(f) /\ F \in SUBSET Addr /\ s \in Addr /\ s \notin F /\ Holds(f, F)
    BY <1>3, <1>5, <1>6, <1>7, Zenon
  <2>3. /\ IsHeap(insert_free_block(f, s)) /\ SameTags(f, insert_free_block(f, s))
        /\ \A a \in -1 .. MAX_HEAP : a # s => insert_free_block(f, s).data[a] = f.data[a]
        /\ Holds(insert_free_block(f, s), F \cup {s})
    BY <2>2, Insert
  <2> QED BY <2>1, <2>3
<1>9. Used(g) = Used(f) /\ Free(g) = Free(f) /\ Tiling(g)
  <2>1. Tiling(f) /\ SameTags(f, g)
    BY <1>5, <1>8
  <2> QED BY <2>1, SameBlocks
<1>10. Free(f) = F \cup {s}
  <2>1. Free(f) \subseteq Addr /\ Free(h) \subseteq Addr
    BY DEF Free, Blk
  <2>2. \A a \in Addr : a \in Free(f) <=> (a \in Free(h) /\ (a < s \/ a >= e)) \/ a = s
    BY <1>5
  <2> QED BY <1>3, <1>6, <2>1, <2>2
<1>11. Used(f) = Used(h) \ Within(s, e)
  <2>1. Used(f) \subseteq Addr /\ Used(h) \subseteq Addr
    BY DEF Used, Blk
  <2>2. \A p \in Addr : p < s \/ p >= e <=> ~ (s <= p /\ p < e)
    BY <1>3, Numbers
  <2>3. \A a \in Addr : a \in Used(f) <=> a \in Used(h) /\ (a < s \/ a >= e)
    BY <1>5
  <2> QED BY <2>1, <2>2, <2>3 DEF Within
<1>12. Keeps(h, g, Used(h) \ Within(s, e))
  <2> SUFFICES ASSUME NEW p \in Used(h), ~ (s <= p /\ p < e)
               PROVE  /\ g.hdr[p] = h.hdr[p]
                      /\ \A a \in Addr : p <= a /\ a <= p + SizeOf(h, p) - 2 => g.data[a] = h.data[a]
    <3>1. \A p \in Used(h) : p \in Addr
      BY DEF Used, Blk
    <3> QED BY <3>1 DEF Keeps, Within
  <2>1. p \in Blk(h) /\ p \in Int /\ (p < s \/ p >= e)
    BY <1>3, <1>4 DEF Used
  <2>2. /\ f.hdr[p] = h.hdr[p]
        /\ \A a \in Addr : p <= a /\ a <= p + SizeOf(h, p) - 2 => f.data[a] = h.data[a]
    BY <1>5, <2>1 DEF Keeps
  <2>3. g.hdr[p] = h.hdr[p]
    BY <1>8, <2>2 DEF SameTags
  <2>4. ASSUME NEW a \in Addr, p <= a, a <= p + SizeOf(h, p) - 2
        PROVE  g.data[a] = h.data[a]
    <3>1. a # s
      <4>1. a = s => p = s
        BY <2>1, <2>4, PayloadInside
      <4>2. p # s
        BY <1>3, <2>1
      <4> QED BY <4>1, <4>2
    <3>2. a \in -1 .. MAX_HEAP
      BY HeapAssumption DEF Addr
    <3> QED BY <1>8, <2>2, <2>4, <3>1, <3>2
  <2> QED BY <2>3, <2>4
<1>13. /\ g.brk = h.brk /\ g.wrapped = h.wrapped /\ g.hdr[s] = PACK(e - s, FALSE)
  BY <1>5, <1>8 DEF SameTags
<1>14. g.brk >= h.brk
  <2>1. h.brk \in Int
    BY Numbers DEF IsHeap
  <2>2. g.brk = h.brk
    BY <1>13
  <2>3. \A a \in Int : a >= a
    OBVIOUS
  <2>4. h.brk >= h.brk
    BY <2>1, <2>3, Zenon
  <2> QED BY <2>2, <2>4, Zenon
<1>15. s \in Free(g) /\ SizeOf(g, s) = e - s
  BY <1>9, <1>10, <1>13, PackIsTag, ZenonT(40) DEF SizeOf
<1>16. Sound(g)
  BY <1>8, <1>9, <1>10, Zenon DEF Sound
<1>17. Used(g) = (Used(h) \ Within(s, e)) \cup {}
  BY <1>9, <1>11
<1>18. Becomes(h, g, Within(s, e), {})
  BY <1>8, <1>12, <1>13, <1>14, <1>16, <1>17, Zenon DEF Becomes
<1>19. \A a \in Addr : a < s \/ a >= e => g.hdr[a] = h.hdr[a]
  <2>1. g.hdr = f.hdr
    BY <1>8 DEF SameTags
  <2>2. \A a \in Addr : a < s \/ a >= e => f.hdr[a] = h.hdr[a]
    BY <1>2 DEF Retiled
  <2> QED BY <2>1, <2>2
<1>20. \A a \in Addr : a \in Free(g) <=> (a \in Free(h) /\ (a < s \/ a >= e)) \/ a = s
  BY <1>5, <1>9
<1>21. Alone(h, Within(s, e)) => Alone(g, {s})
  <2>1. Replaced(h, g, s, e, {s})
    BY <1>19, <1>20 DEF Replaced
  <2> QED BY <1>3, <2>1, AloneSpan, Zenon
<1>22. Merged(h, g, s, e)
  BY <1>13, <1>15, <1>19, <1>20, <1>21, Zenon DEF Merged
<1> QED BY <1>18, <1>22

(* A step that starts from other lists or treats blocks that h lacks.      *)
LEMMA BecomesFrom ==
    ASSUME NEW h, NEW d, SameTags(h, d), d.data = h.data,
           NEW g, NEW gone, NEW other, NEW new, Becomes(d, g, other, new),
           \A p \in Used(h) : p \in other <=> p \in gone
    PROVE  Becomes(h, g, gone, new)
<1>1. /\ IsHeap(g) /\ Sound(g) /\ g.brk >= d.brk /\ g.wrapped = d.wrapped
      /\ Used(g) = (Used(d) \ other) \cup new
      /\ Keeps(d, g, Used(d) \ other)
  BY DEF Becomes
<1>2. Used(d) = Used(h) /\ d.brk = h.brk /\ d.wrapped = h.wrapped /\ d.hdr = h.hdr
  BY SameBlocks DEF SameTags
<1>3. Used(h) \ other = Used(h) \ gone
  OBVIOUS
<1>4. Keeps(h, g, Used(h) \ gone)
  BY <1>1, <1>2, <1>3 DEF Keeps, SizeOf
<1> QED BY <1>1, <1>2, <1>3, <1>4, Zenon DEF Becomes

(* d has the blocks and data of h and lists those of F.                    *)
Relisted(h, d, F) ==
  IsHeap(d) /\ SameTags(h, d) /\ d.data = h.data /\ Holds(d, F)

(* delete_free_block takes one block out of the lists.                     *)
LEMMA Unlist ==
    ASSUME NEW h, NEW d, NEW F, Relisted(h, d, F), NEW b
    PROVE  Relisted(h, delete_free_block(d, b), F \ {b})
<1>1. IsHeap(d) /\ SameTags(h, d) /\ d.data = h.data /\ Holds(d, F)
  BY DEF Relisted
<1>2. /\ IsHeap(delete_free_block(d, b)) /\ SameTags(d, delete_free_block(d, b))
      /\ delete_free_block(d, b).data = d.data
      /\ Holds(delete_free_block(d, b), F \ {b})
  BY <1>1, Delete
<1> QED BY <1>1, <1>2 DEF Relisted, SameTags

(* The span of free blocks that coalesce merges, and around bp.            *)
CoalesceStart(h, bp) == IF FTRP(h, PREV_BLKP(h, bp)).alloc THEN bp ELSE PREV_BLKP(h, bp)
CoalesceEnd(h, bp) ==
  LET next == NEXT_BLKP(h, bp)
  IN IF IsAlloc(h, next) THEN next ELSE next + SizeOf(h, next)

(* The free neighbours of a block are blocks.                              *)
LEMMA Neighbours ==
    ASSUME NEW h, IsHeap(h), Tiling(h), NEW bp \in Blk(h)
    PROVE  /\ NEXT_BLKP(h, bp) = bp + SizeOf(h, bp) /\ NEXT_BLKP(h, bp) \in Edge(h)
           /\ ~ IsAlloc(h, NEXT_BLKP(h, bp)) => NEXT_BLKP(h, bp) \in Free(h)
           /\ ~ FTRP(h, PREV_BLKP(h, bp)).alloc =>
                /\ PREV_BLKP(h, bp) \in Free(h)
                /\ PREV_BLKP(h, bp) + SizeOf(h, PREV_BLKP(h, bp)) = bp
           /\ ~ IsAlloc(h, PREV_BLKP(h, bp)) => ~ FTRP(h, PREV_BLKP(h, bp)).alloc
<1>1. bp \in Edge(h)
  BY DEF Edge
<1>2. NEXT_BLKP(h, bp) = bp + SizeOf(h, bp) /\ NEXT_BLKP(h, bp) \in Edge(h)
  BY BlockFacts
<1>3. ~ IsAlloc(h, NEXT_BLKP(h, bp)) => NEXT_BLKP(h, bp) \in Free(h)
  <2>1. NEXT_BLKP(h, bp) = h.brk => IsAlloc(h, NEXT_BLKP(h, bp))
    BY <1>2, EdgeFacts
  <2> QED BY <1>2, <2>1 DEF Edge, Free
<1>4. ~ FTRP(h, PREV_BLKP(h, bp)).alloc =>
        /\ PREV_BLKP(h, bp) \in Free(h)
        /\ PREV_BLKP(h, bp) + SizeOf(h, PREV_BLKP(h, bp)) = bp
  BY <1>1, PrevBlock DEF Free
<1>5. ~ IsAlloc(h, PREV_BLKP(h, bp)) => ~ FTRP(h, PREV_BLKP(h, bp)).alloc
  BY <1>1, PrevBlock
<1> QED BY <1>2, <1>3, <1>4, <1>5

(* coalesce merges bp with its free neighbours.                            *)
LEMMA CoalesceSpan ==
    ASSUME NEW h, IsHeap(h), Tiling(h), NEW bp \in Free(h),
           NEW prev, prev = PREV_BLKP(h, bp), NEW next, next = NEXT_BLKP(h, bp),
           NEW pa, pa = FTRP(h, prev).alloc, NEW na, na = IsAlloc(h, next),
           NEW s, s = CoalesceStart(h, bp), NEW e, e = CoalesceEnd(h, bp)
    PROVE  /\ s \in Edge(h) /\ e \in Edge(h) /\ s \in Int /\ e \in Int
           /\ s <= bp /\ bp + SizeOf(h, bp) <= e /\ s + 2 <= e
           /\ \A p \in Blk(h) : s <= p /\ p < e =>
                p = bp \/ (~pa /\ p = prev) \/ (~na /\ p = next)
           /\ bp \in Free(h) /\ s <= bp /\ bp < e
           /\ ~pa => prev \in Free(h) /\ s <= prev /\ prev < e
           /\ ~na => next \in Free(h) /\ s <= next /\ next < e
           /\ SizeOf(h, bp) + (IF pa THEN 0 ELSE SizeOf(h, prev))
                            + (IF na THEN 0 ELSE SizeOf(h, next)) = e - s
<1>0. bp \in Blk(h)
  BY DEF Free
<1>1. /\ next = bp + SizeOf(h, bp) /\ next \in Edge(h)
      /\ ~ na => next \in Free(h)
      /\ ~ pa => prev \in Free(h) /\ prev + SizeOf(h, prev) = bp
  BY <1>0, Neighbours
<1>2. s = IF pa THEN bp ELSE prev
  BY DEF CoalesceStart
<1>3. e = IF na THEN next ELSE next + SizeOf(h, next)
  BY DEF CoalesceEnd
<1>4. \A p \in Blk(h) : /\ p \in Int /\ SizeOf(h, p) \in Int /\ SizeOf(h, p) >= 2
                        /\ p + SizeOf(h, p) \in Edge(h) /\ p \in Edge(h)
  BY BlockFacts DEF Edge
<1>5. \A p \in Free(h) : p \in Blk(h)
  BY DEF Free
<1>6. \A p, q \in Blk(h) : p < q => p + SizeOf(h, p) <= q
  BY Apart DEF Edge
<1>7. s \in Edge(h) /\ e \in Edge(h)
  BY <1>0, <1>1, <1>2, <1>3, <1>4, <1>5
<1>8. CASE pa /\ na
  <2>1. s = bp /\ e = next
    BY <1>2, <1>3, <1>8
  <2> QED BY <1>0, <1>1, <1>4, <1>6, <1>7, <1>8, <2>1
<1>9. CASE pa /\ ~na
  <2>1. s = bp /\ e = next + SizeOf(h, next) /\ next \in Blk(h)
    BY <1>1, <1>2, <1>3, <1>5, <1>9
  <2> QED BY <1>0, <1>1, <1>4, <1>6, <1>7, <1>9, <2>1
<1>10. CASE ~pa /\ na
  <2>1. s = prev /\ e = next /\ prev \in Blk(h)
    BY <1>1, <1>2, <1>3, <1>5, <1>10
  <2> QED BY <1>0, <1>1, <1>4, <1>6, <1>7, <1>10, <2>1
<1>11. CASE ~pa /\ ~na
  <2>1. s = prev /\ e = next + SizeOf(h, next) /\ prev \in Blk(h) /\ next \in Blk(h)
    BY <1>1, <1>2, <1>3, <1>5, <1>11
  <2> QED BY <1>0, <1>1, <1>4, <1>6, <1>7, <1>11, <2>1
<1> QED BY <1>8, <1>9, <1>10, <1>11

(* A free block before another is what the footer before that one says.    *)
LEMMA FreeBefore ==
    ASSUME NEW h, IsHeap(h), Tiling(h), NEW p \in Free(h), NEW q, q = p + SizeOf(h, p)
    PROVE  PREV_BLKP(h, q) = p /\ ~ FTRP(h, PREV_BLKP(h, q)).alloc
<1>1. p \in Blk(h) /\ ~ IsAlloc(h, p)
  BY DEF Free
<1>2. /\ p \in Int /\ SizeOf(h, p) \in Int
      /\ FTRP(h, p) = h.hdr[p] /\ h.ftr[q] = h.hdr[p]
  BY <1>1, BlockFacts
<1>3. PREV_BLKP(h, q) = p
  BY <1>2 DEF PREV_BLKP, SizeOf
<1> QED BY <1>1, <1>2, <1>3 DEF IsAlloc

(* The lists do not matter to what has been merged.                        *)
LEMMA MergedFrom ==
    ASSUME NEW h, NEW d, SameTags(h, d), NEW g, NEW s, NEW e, Merged(d, g, s, e)
    PROVE  Merged(h, g, s, e)
<1>1. Free(d) = Free(h) /\ d.hdr = h.hdr /\ d.brk = h.brk
  BY SameBlocks DEF SameTags
<1>2. Alone(h, Within(s, e)) <=> Alone(d, Within(s, e))
  BY SameAlone
<1>3. /\ g.brk = d.brk /\ s \in Free(g) /\ SizeOf(g, s) = e - s
      /\ \A a \in Addr : a < s \/ a >= e => g.hdr[a] = d.hdr[a]
      /\ \A a \in Addr : a \in Free(g) <=> (a \in Free(d) /\ (a < s \/ a >= e)) \/ a = s
      /\ Alone(d, Within(s, e)) => Alone(g, {s})
  BY DEF Merged
<1> QED BY <1>1, <1>2, <1>3, Zenon DEF Merged

(* What coalesce leaves has no free block beside it: it took both.         *)
LEMMA CoalesceAlone ==
    ASSUME NEW h, IsHeap(h), Tiling(h), NEW bp \in Free(h), Alone(h, {bp}),
           NEW s, s = CoalesceStart(h, bp), NEW e, e = CoalesceEnd(h, bp),
           NEW g, IsHeap(g), Tiling(g), Merged(h, g, s, e)
    PROVE  Alone(g, {})
<1>1. PICK prev, next : prev = PREV_BLKP(h, bp) /\ next = NEXT_BLKP(h, bp)
  OBVIOUS
<1>2. PICK pa, na : pa = FTRP(h, prev).alloc /\ na = IsAlloc(h, next)
  OBVIOUS
<1>3. /\ s \in Edge(h) /\ e \in Edge(h) /\ s \in Int /\ e \in Int
      /\ s <= bp /\ bp < e /\ s + 2 <= e
      /\ ~pa => prev \in Free(h)
      /\ ~na => next \in Free(h)
  BY <1>1, <1>2, CoalesceSpan
<1>4. bp \in Blk(h) /\ bp \in Int /\ SizeOf(h, bp) \in Int /\ SizeOf(h, bp) >= 2
  BY BlockFacts DEF Free
<1>5. /\ next = bp + SizeOf(h, bp)
      /\ ~pa => prev + SizeOf(h, prev) = bp
  BY <1>1, <1>2, <1>4, Neighbours
<1>6. s = IF pa THEN bp ELSE prev
  BY <1>1, <1>2 DEF CoalesceStart
<1>7. e = IF na THEN next ELSE next + SizeOf(h, next)
  BY <1>1, <1>2 DEF CoalesceEnd
<1>8. \A p \in Free(h) : p \in Addr /\ p \in Int /\ SizeOf(h, p) \in Int /\ SizeOf(h, p) >= 2
  BY BlockFacts DEF Free
<1>9. \A p \in Free(g) : p \in Addr /\ p \in Int /\ SizeOf(g, p) \in Int /\ SizeOf(g, p) >= 2
  BY BlockFacts DEF Free
<1>10. Within(s, e) \in SUBSET Addr /\ {bp} \subseteq Within(s, e)
  BY <1>3, <1>8 DEF Within
<1>11. Alone(g, {s})
  <2>1. Alone(h, Within(s, e))
    BY <1>10, AloneMore
  <2> QED BY <2>1 DEF Merged
<1>12. /\ SizeOf(g, s) = e - s
       /\ \A a \in Addr : a < s \/ a >= e => g.hdr[a] = h.hdr[a]
       /\ \A a \in Addr : a \in Free(g) <=> (a \in Free(h) /\ (a < s \/ a >= e)) \/ a = s
  BY DEF Merged
<1>13. s + SizeOf(g, s) \notin Free(g)
  <2> SUFFICES ASSUME e \in Free(g)
               PROVE  FALSE
    BY <1>3, <1>12
  <2>1. e \in Free(h)
    BY <1>3, <1>9, <1>12
  <2>2. CASE na
    BY <1>2, <1>7, <2>1, <2>2 DEF Free
  <2>3. CASE ~na
    <3>1. next \in Free(h) /\ next + SizeOf(h, next) = e
      BY <1>3, <1>7, <2>3
    <3>2. next = bp \/ e = bp
      BY <2>1, <3>1 DEF Alone
    <3> QED BY <1>3, <1>4, <1>5, <3>2
  <2> QED BY <2>2, <2>3
<1>14. ASSUME NEW p \in Free(g), p + SizeOf(g, p) = s
       PROVE  FALSE
  <2>1. p < s /\ p \in Int /\ p \in Addr
    BY <1>3, <1>9, <1>14
  <2>2. p \in Free(h) /\ SizeOf(g, p) = SizeOf(h, p)
    BY <1>3, <1>12, <2>1 DEF SizeOf
  <2>3. p + SizeOf(h, p) = s
    BY <1>14, <2>2
  <2>4. CASE pa
    <3>1. s = bp
      BY <1>6, <2>4
    <3>2. ~ FTRP(h, PREV_BLKP(h, bp)).alloc
      BY <2>2, <2>3, <3>1, FreeBefore
    <3> QED BY <1>1, <1>2, <2>4, <3>2
  <2>5. CASE ~pa
    <3>1. s = prev /\ prev \in Free(h)
      BY <1>3, <1>6, <2>5
    <3>2. p = bp \/ s = bp
      BY <2>2, <2>3, <3>1 DEF Alone
    <3>3. s < bp
      BY <1>4, <1>5, <1>8, <2>5, <3>1
    <3> QED BY <1>4, <2>1, <1>3, <3>2, <3>3
  <2> QED BY <2>4, <2>5
<1> QED BY <1>11, <1>13, <1>14 DEF Alone

(* coalesce keeps the allocated blocks; bp is part of the free block it    *)
(* returns.                                                                *)
LEMMA Coalesce ==
    ASSUME NEW h, IsHeap(h), Sound(h), NEW bp \in Free(h),
           NEW g, g = coalesce(h, bp).heap, NEW ptr, ptr = coalesce(h, bp).ptr
    PROVE  /\ Becomes(h, g, {}, {}) /\ g.brk = h.brk
           /\ ptr \in Free(g) /\ ptr <= bp
           /\ bp + SizeOf(h, bp) <= ptr + SizeOf(g, ptr) /\ SizeOf(h, bp) <= SizeOf(g, ptr)
           /\ Alone(h, {bp}) => Alone(g, {})
<1> DEFINE prev == PREV_BLKP(h, bp)
           next == NEXT_BLKP(h, bp)
           pa == FTRP(h, prev).alloc
           na == IsAlloc(h, next)
           s == CoalesceStart(h, bp)
           e == CoalesceEnd(h, bp)
           size == SizeOf(h, bp) + (IF pa THEN 0 ELSE SizeOf(h, prev))
                                 + (IF na THEN 0 ELSE SizeOf(h, next))
           F1 == IF pa THEN Free(h) ELSE Free(h) \ {prev}
           F2 == IF na THEN F1 ELSE F1 \ {next}
           F == F2 \ {bp}
<1>1. Tiling(h) /\ Holds(h, Free(h))
  BY DEF Sound
<1>2. /\ s \in Edge(h) /\ e \in Edge(h) /\ s \in Int /\ e \in Int
      /\ s <= bp /\ bp + SizeOf(h, bp) <= e /\ s + 2 <= e
      /\ \A p \in Blk(h) : s <= p /\ p < e =>
           p = bp \/ (~pa /\ p = prev) \/ (~na /\ p = next)
      /\ bp \in Free(h) /\ s <= bp /\ bp < e
      /\ ~pa => prev \in Free(h) /\ s <= prev /\ prev < e
      /\ ~na => next \in Free(h) /\ s <= next /\ next < e
      /\ size = e - s
  BY <1>1, CoalesceSpan
<1>3. bp \in Blk(h) /\ bp \in Int /\ SizeOf(h, bp) \in Int /\ bp \in Addr
  BY <1>1, BlockFacts DEF Free
<1>4. Relisted(h, h, Free(h))
  BY <1>1 DEF Relisted, SameTags
<1>5. PICK d1 : d1 = IF pa THEN h ELSE delete_free_block(h, prev)
  OBVIOUS
<1>6. PICK d2 : d2 = IF na THEN d1 ELSE delete_free_block(d1, next)
  OBVIOUS
<1>7. PICK d : d = delete_free_block(d2, bp)
  OBVIOUS
<1>8. Relisted(h, d1, F1)
  BY <1>4, <1>5, Unlist
<1>9. Relisted(h, d2, F2)
  BY <1>6, <1>8, Unlist
<1>10. Relisted(h, d, F)
  BY <1>7, <1>9, Unlist
<1>11. \A p \in Free(h) : p \in F <=> ~ (p = bp \/ (~pa /\ p = prev) \/ (~na /\ p = next))
  OBVIOUS
<1>12. F \subseteq Free(h)
  OBVIOUS
<1>13. \A p \in Blk(h) : p \in Int
  BY Numbers DEF Blk
<1>14. CASE pa /\ na
  <2>1. g = h /\ ptr = bp
    BY <1>14 DEF coalesce
  <2>2. Becomes(h, h, {}, {})
    <3>1. h.brk >= h.brk
      BY Numbers DEF IsHeap
    <3>2. Keeps(h, h, Used(h) \ {})
      BY DEF Keeps
    <3> QED BY <3>1, <3>2 DEF Becomes
  <2>3. Alone(h, {bp}) => Alone(h, {})
    <3> SUFFICES ASSUME NEW p \in Free(h), p + SizeOf(h, p) \in Free(h),
                        p = bp \/ p + SizeOf(h, p) = bp
                 PROVE  FALSE
      BY DEF Alone
    <3>1. CASE p = bp
      BY <1>1, <1>3, <1>14, <3>1, Neighbours DEF Free
    <3>2. CASE p + SizeOf(h, p) = bp
      BY <1>1, <1>14, <3>2, FreeBefore
    <3> QED BY <3>1, <3>2
  <2> QED BY <1>3, <2>1, <2>2, <2>3
<1>15. CASE ~(pa /\ na)
  <2> HIDE DEF F
  <2>1. coalesce(h, bp) = [heap |-> insert_free_block(PutTags(d, s, size, FALSE), s), ptr |-> s]
    BY <1>5, <1>6, <1>7, <1>15 DEF coalesce, CoalesceStart
  <2>2. PICK k : k = insert_free_block(PutTags(d, s, e - s, FALSE), s)
    OBVIOUS
  <2>3. g = k /\ ptr = s
    <3>1. size = e - s
      BY <1>2
    <3>2. k = insert_free_block(PutTags(d, s, size, FALSE), s)
      BY <2>2, <3>1, Zenon
    <3> HIDE DEF s, size
    <3>3. coalesce(h, bp).heap = k /\ coalesce(h, bp).ptr = s
      BY <2>1, <3>2
    <3> QED BY <3>3
  <2>4. IsHeap(d) /\ SameTags(h, d) /\ d.data = h.data /\ Holds(d, F)
    BY <1>10 DEF Relisted
  <2>5. Free(d) = Free(h) /\ Edge(d) = Edge(h) /\ Tiling(d) /\ Used(d) = Used(h)
    BY <1>1, <2>4, SameBlocks
  <2>6. \A p \in Free(h) : p \in F <=> p < s \/ p >= e
    <3> SUFFICES ASSUME NEW p \in Free(h)
                 PROVE  p \in F <=> ~ (s <= p /\ p < e)
      BY <1>2, <1>13 DEF Free
    <3>1. p \in Blk(h)
      BY DEF Free
    <3>2. s <= p /\ p < e => p = bp \/ (~pa /\ p = prev) \/ (~na /\ p = next)
      BY <1>2, <3>1
    <3>3. p = bp \/ (~pa /\ p = prev) \/ (~na /\ p = next) => s <= p /\ p < e
      BY <1>2
    <3> QED BY <1>11, <3>2, <3>3
  <2>7. Becomes(d, k, Within(s, e), {}) /\ Merged(d, k, s, e)
    <3>1. F \subseteq Free(d) /\ s \in Edge(d) /\ e \in Edge(d)
          /\ \A p \in Free(d) : p \in F <=> p < s \/ p >= e
      BY <1>2, <1>12, <2>5, <2>6
    <3> QED BY <1>2, <2>2, <2>4, <2>5, <3>1, NewFree, Zenon
  <2>8. \A p \in Used(h) : p \in Within(s, e) <=> p \in {}
    <3> SUFFICES ASSUME NEW p \in Used(h), s <= p, p < e
                 PROVE  FALSE
      BY DEF Within
    <3>1. p \in Blk(h) /\ p \notin Free(h)
      BY DEF Used, Free
    <3> QED BY <1>2, <3>1
  <2>9. Becomes(h, k, {}, {})
    BY <2>4, <2>7, <2>8, BecomesFrom, Zenon
  <2>10. k.brk = d.brk /\ s \in Free(k) /\ SizeOf(k, s) = e - s /\ d.brk = h.brk
    BY <2>4, <2>7 DEF Merged, SameTags
  <2>11. SizeOf(h, bp) <= e - s /\ s + (e - s) = e
    BY <1>2, <1>3
  <2>12. ASSUME Alone(h, {bp})
         PROVE  Alone(k, {})
    <3>1. Merged(h, k, s, e)
      BY <2>4, <2>7, MergedFrom, Zenon
    <3>2. IsHeap(k) /\ Tiling(k)
      BY <2>9, Zenon DEF Becomes, Sound
    <3>3. PICK s1, e1 : s1 = CoalesceStart(h, bp) /\ e1 = CoalesceEnd(h, bp)
      OBVIOUS
    <3> QED BY <1>1, <2>12, <3>1, <3>2, <3>3, CoalesceAlone, Zenon
  <2> QED BY <1>2, <2>3, <2>9, <2>10, <2>11, <2>12
<1> QED BY <1>14, <1>15

(* More memory with a free block in place of the epilogue, not listed yet. *)
Extended(h, f, size) ==
  /\ IsHeap(f) /\ f.brk = h.brk + size /\ f.wrapped = h.wrapped /\ f.lists = h.lists
  /\ f.hdr[h.brk] = PACK(size, FALSE) /\ f.ftr[h.brk + size] = PACK(size, FALSE)
  /\ f.hdr[h.brk + size] = Epilogue
  /\ \A a \in Addr : h.brk < a /\ a # h.brk + size => f.hdr[a] = NoTag
  /\ \A a \in Addr : a < h.brk => f.hdr[a] = h.hdr[a]
  /\ \A a \in Addr : a <= h.brk => f.ftr[a] = h.ftr[a]
  /\ \A a \in Addr : a < h.brk - 1 => f.data[a] = h.data[a]

(* The new free block and the new epilogue of extend, field by field.      *)
LEMMA ExtendFields ==
    ASSUME NEW h, IsHeap(h), Tiling(h), NEW size \in Int, size >= 2, h.brk + size <= MAX_HEAP
    PROVE  Extended(h, [PutTags([h EXCEPT !.brk = @ + size], h.brk, size, FALSE)
                          EXCEPT !.hdr[h.brk + size] = Epilogue], size)
<1>1. PICK m : m = [h EXCEPT !.brk = @ + size]
  OBVIOUS
<1>2. PICK b : b = h.brk
  OBVIOUS
<1>3. PICK e : e = b + size
  OBVIOUS
<1>4. b \in Addr /\ b \in Int /\ 0 <= b
  BY <1>2, Numbers DEF IsHeap
<1>5. e \in Addr /\ e \in Int /\ b < e /\ e - b = size
  BY <1>2, <1>3, <1>4, Numbers DEF Addr
<1>6. /\ IsHeap(m) /\ m.brk = e /\ m.wrapped = h.wrapped /\ m.lists = h.lists
      /\ m.hdr = h.hdr /\ m.ftr = h.ftr /\ m.data = h.data
  <2>1. h = [brk |-> h.brk, wrapped |-> h.wrapped, hdr |-> h.hdr, ftr |-> h.ftr,
             data |-> h.data, lists |-> h.lists]
    BY DEF IsHeap
  <2>2. m = [brk |-> e, wrapped |-> h.wrapped, hdr |-> h.hdr, ftr |-> h.ftr,
             data |-> h.data, lists |-> h.lists]
    BY <1>1, <1>2, <1>3, <2>1
  <2> QED BY <1>5, <2>2 DEF IsHeap
<1>7. PICK f : f = PutTags(m, b, e - b, FALSE)
  OBVIOUS
<1>8. Tagged(m, f, b, e, FALSE)
  BY <1>4, <1>5, <1>6, <1>7, PutTagsSpan
<1>9. /\ IsHeap(f)
      /\ f.brk = m.brk /\ f.wrapped = m.wrapped /\ f.lists = m.lists
      /\ f.hdr[b] = PACK(e - b, FALSE) /\ f.ftr[e] = PACK(e - b, FALSE)
      /\ \A a \in Addr : b < a /\ a < e => f.hdr[a] = NoTag
      /\ \A a \in Addr : a < b \/ a >= e => f.hdr[a] = m.hdr[a]
      /\ \A a \in Addr : a <= b \/ a > e => f.ftr[a] = m.ftr[a]
      /\ \A a \in -1 .. MAX_HEAP : a # b - 1 /\ a # e - 1 => f.data[a] = m.data[a]
  BY <1>8 DEF Tagged
<1>10. PICK g : g = [f EXCEPT !.hdr[e] = Epilogue]
  OBVIOUS
<1>11. g = [PutTags([h EXCEPT !.brk = @ + size], h.brk, size, FALSE)
              EXCEPT !.hdr[h.brk + size] = Epilogue]
  <2>1. f = PutTags(m, b, size, FALSE)
    BY <1>5, <1>7, Zenon
  <2> QED BY <1>1, <1>2, <1>3, <1>10, <2>1, Zenon
<1>12. /\ g.hdr = [f.hdr EXCEPT ![e] = Epilogue]
       /\ g.brk = f.brk /\ g.wrapped = f.wrapped /\ g.lists = f.lists
       /\ g.ftr = f.ftr /\ g.data = f.data /\ IsHeap(g)
  <2>1. f = [brk |-> f.brk, wrapped |-> f.wrapped, hdr |-> f.hdr, ftr |-> f.ftr,
             data |-> f.data, lists |-> f.lists]
    BY <1>9 DEF IsHeap
  <2>2. g = [brk |-> f.brk, wrapped |-> f.wrapped, hdr |-> [f.hdr EXCEPT ![e] = Epilogue],
             ftr |-> f.ftr, data |-> f.data, lists |-> f.lists]
    BY <1>10, <2>1
  <2>3. Epilogue \in Tags
    BY Numbers, HeapAssumption DEF Epilogue, PACK, Tags, Addr
  <2>4. [f.hdr EXCEPT ![e] = Epilogue] \in [Addr -> Tags]
    BY <1>9, <2>3 DEF IsHeap
  <2>5. f.brk \in Addr /\ f.wrapped \in BOOLEAN /\ f.ftr \in [Addr -> Tags]
        /\ f.data = [a \in -1 .. MAX_HEAP |-> f.data[a]] /\ f.lists \in [Levels -> Seq(Addr)]
    BY <1>9 DEF IsHeap
  <2> HIDE DEF Epilogue
  <2>6. /\ g.hdr = [f.hdr EXCEPT ![e] = Epilogue]
        /\ g.brk = f.brk /\ g.wrapped = f.wrapped /\ g.lists = f.lists
        /\ g.ftr = f.ftr /\ g.data = f.data
    BY <2>2
  <2> QED BY <2>2, <2>4, <2>5, <2>6 DEF IsHeap
<1>13. f.hdr \in [Addr -> Tags]
  BY <1>9 DEF IsHeap
<1>14. g.hdr[e] = Epilogue /\ \A a \in Addr : a # e => g.hdr[a] = f.hdr[a]
  BY <1>5, <1>12, <1>13
<1>15. \A a \in Addr : a \in Int /\ a \in -1 .. MAX_HEAP
  BY Numbers, HeapAssumption DEF Addr
<1>16. \A a \in Addr : a > b => h.hdr[a] = NoTag
  BY <1>2 DEF Tiling, Framed
<1>17. \A a \in Addr : b < a /\ a # e => g.hdr[a] = NoTag
  <2> SUFFICES ASSUME NEW a \in Addr, b < a, a # e
               PROVE  g.hdr[a] = NoTag
    OBVIOUS
  <2>1. g.hdr[a] = f.hdr[a] /\ h.hdr[a] = NoTag
    BY <1>4, <1>14, <1>15, <1>16
  <2>2. a < e \/ a >= e
    BY <1>5, <1>15
  <2> QED BY <1>6, <1>9, <2>1, <2>2
<1>18. \A a \in Addr : a < b => g.hdr[a] = h.hdr[a]
  BY <1>4, <1>5, <1>6, <1>9, <1>14, <1>15
<1>19. \A a \in Addr : a <= b => g.ftr[a] = h.ftr[a]
  BY <1>6, <1>9, <1>12
<1>20. \A a \in Addr : a < b - 1 => g.data[a] = h.data[a]
  BY <1>4, <1>5, <1>6, <1>9, <1>12, <1>15
<1>21. g.hdr[b] = PACK(size, FALSE) /\ g.ftr[e] = PACK(size, FALSE)
  <2>1. g.hdr[b] = f.hdr[b]
    BY <1>4, <1>5, <1>14
  <2> QED BY <1>5, <1>9, <1>12, <2>1, Zenon
<1>22. g.brk = b + size /\ g.wrapped = h.wrapped /\ g.lists = h.lists
  BY <1>3, <1>6, <1>9, <1>12
<1>23. Extended(h, g, size)
  BY <1>2, <1>3, <1>12, <1>14, <1>17, <1>18, <1>19, <1>20, <1>21, <1>22, Zenon DEF Extended
<1> QED BY <1>11, <1>23, Zenon

(* The new block comes behind the others.                                  *)
LEMMA ExtendTiles ==
    ASSUME NEW h, IsHeap(h), Tiling(h), NEW f, NEW size \in Int, size >= 2, Extended(h, f, size)
    PROVE  /\ Tiling(f)
           /\ Used(f) = Used(h) /\ Free(f) = Free(h) \cup {h.brk}
           /\ Keeps(h, f, Blk(h)) /\ SizeOf(f, h.brk) = size /\ h.brk \notin Blk(h)
<1>1. /\ IsHeap(f) /\ f.brk = h.brk + size
      /\ f.hdr[h.brk] = PACK(size, FALSE) /\ f.ftr[h.brk + size] = PACK(size, FALSE)
      /\ f.hdr[h.brk + size] = Epilogue
      /\ \A a \in Addr : h.brk < a /\ a # h.brk + size => f.hdr[a] = NoTag
      /\ \A a \in Addr : a < h.brk => f.hdr[a] = h.hdr[a]
      /\ \A a \in Addr : a <= h.brk => f.ftr[a] = h.ftr[a]
      /\ \A a \in Addr : a < h.brk - 1 => f.data[a] = h.data[a]
  BY DEF Extended
<1>2. h.brk \in Addr /\ h.brk \in Int /\ f.brk \in Addr /\ f.brk \in Int /\ h.brk < f.brk
  <2>1. h.brk \in Addr /\ f.brk \in Addr
    BY <1>1 DEF IsHeap
  <2>2. h.brk \in Int /\ f.brk \in Int /\ f.brk = h.brk + size
    BY <1>1, <2>1, Numbers
  <2> QED BY <2>1, <2>2
<1>3. \A a \in Addr : a \in Int
  BY Numbers
<1>4. Framed(h) /\ blk_start <= h.brk /\ blk_start \in Edge(h)
  BY DEF Tiling, Framed
<1>5. f.hdr[h.brk] # NoTag /\ SizeOf(f, h.brk) = size /\ IsAlloc(f, h.brk) = FALSE
  <2>1. /\ PACK(size, FALSE).size = size /\ PACK(size, FALSE).alloc = FALSE
        /\ PACK(size, FALSE) # NoTag
    <3>1. size # 0
      OBVIOUS
    <3> QED BY <3>1, PackIsTag, Zenon
  <2> QED BY <1>1, <2>1, Zenon DEF SizeOf, IsAlloc
<1>6. \A a \in Addr : a \in Blk(f) <=> a \in Blk(h) \/ a = h.brk
  <2> TAKE a \in Addr
  <2>1. CASE a < h.brk
    BY <1>1, <1>2, <1>3, <2>1 DEF Blk
  <2>2. CASE a = h.brk
    BY <1>2, <1>4, <1>5, <2>2 DEF Blk
  <2>3. CASE a > h.brk
    <3>1. a \notin Blk(h)
      BY <1>2, <1>3, <2>3 DEF Blk
    <3>2. a < f.brk => f.hdr[a] = NoTag
      BY <1>1, <1>2, <1>3, <2>3
    <3> QED BY <1>2, <2>3, <3>1, <3>2 DEF Blk
  <2> QED BY <1>2, <1>3, <2>1, <2>2, <2>3
<1>7. /\ Blk(f) = Blk(h) \cup {h.brk} /\ Edge(f) = Edge(h) \cup {f.brk}
      /\ h.brk \notin Blk(h) /\ Blk(h) \subseteq Addr
  <2>1. Blk(f) \subseteq Addr /\ Blk(h) \subseteq Addr
    BY DEF Blk
  <2>2. h.brk \notin Blk(h)
    BY <1>2 DEF Blk
  <2> QED BY <1>2, <1>6, <2>1, <2>2 DEF Edge
<1>8. \A p \in Blk(h) : p \in Addr /\ p < h.brk /\ f.hdr[p] = h.hdr[p]
  BY <1>1 DEF Blk
<1>9. Framed(f)
  <2>1. \A a \in Addr : a < blk_start - 1 \/ a > f.brk => f.hdr[a] = NoTag
    <3> SUFFICES ASSUME NEW a \in Addr, a < blk_start - 1 \/ a > f.brk
                 PROVE  f.hdr[a] = NoTag
      OBVIOUS
    <3>1. CASE a < blk_start - 1
      <4>1. a < h.brk
        BY <1>2, <1>3, <1>4, <3>1, Numbers
      <4>2. h.hdr[a] = NoTag
        BY <1>4, <3>1 DEF Framed
      <4> QED BY <1>1, <4>1, <4>2
    <3>2. CASE a > f.brk
      <4>1. h.brk < a /\ a # h.brk + size
        BY <1>1, <1>2, <1>3, <3>2
      <4> QED BY <1>1, <4>1
    <3> QED BY <3>1, <3>2
  <2>2. f.hdr[blk_start - 1] = h.hdr[blk_start - 1] /\ f.ftr[blk_start] = h.ftr[blk_start]
    BY <1>1, <1>2, <1>4, Numbers
  <2>3. blk_start <= f.brk /\ f.hdr[f.brk] = Epilogue
    BY <1>1, <1>2, <1>4, Numbers
  <2>4. h.hdr[blk_start - 1] = PACK(1, TRUE) /\ h.ftr[blk_start] = PACK(1, TRUE)
    BY <1>4 DEF Framed
  <2> QED BY <2>1, <2>2, <2>3, <2>4, Zenon DEF Framed
<1>10. ASSUME NEW p \in Blk(f)
       PROVE  Block(f, p)
  <2>1. CASE p = h.brk
    <3>1. p + SizeOf(f, p) = f.brk /\ SizeOf(f, p) >= MIN_BLK_SIZE /\ f.ftr[f.brk] = f.hdr[p]
      BY <1>1, <1>5, <2>1, Numbers
    <3>2. \A a \in Addr : p < a /\ a < f.brk => f.hdr[a] = NoTag
      BY <1>1, <1>2, <1>3, <2>1
    <3> QED BY <1>7, <3>1, <3>2 DEF Block
  <2>2. CASE p # h.brk
    <3>1. p \in Blk(h)
      BY <1>7, <2>2
    <3>2. /\ SizeOf(h, p) \in Int /\ SizeOf(h, p) >= 2 /\ p \in Int
          /\ p + SizeOf(h, p) \in Edge(h) /\ p + SizeOf(h, p) \in Addr
          /\ h.ftr[p + SizeOf(h, p)] = h.hdr[p]
          /\ \A a \in Addr : p < a /\ a < p + SizeOf(h, p) => h.hdr[a] = NoTag
      BY <3>1, BlockFacts
    <3>3. f.hdr[p] = h.hdr[p] /\ SizeOf(f, p) = SizeOf(h, p)
      BY <1>8, <3>1 DEF SizeOf
    <3>4. p + SizeOf(h, p) <= h.brk
      BY <3>2, EdgeFacts
    <3>5. f.ftr[p + SizeOf(h, p)] = h.ftr[p + SizeOf(h, p)]
      BY <1>1, <3>2, <3>4
    <3>6. \A a \in Addr : p < a /\ a < p + SizeOf(h, p) => f.hdr[a] = NoTag
      <4> SUFFICES ASSUME NEW a \in Addr, p < a, a < p + SizeOf(h, p)
                   PROVE  f.hdr[a] = NoTag
        OBVIOUS
      <4>1. a < h.brk
        BY <1>2, <1>3, <3>2, <3>4
      <4> QED BY <1>1, <3>2, <4>1
    <3>7. p + SizeOf(h, p) \in Edge(f)
      BY <1>7, <3>2
    <3> QED BY <3>2, <3>3, <3>5, <3>6, <3>7, Numbers DEF Block
  <2> QED BY <2>1, <2>2
<1>11. ASSUME NEW q \in Edge(f), q # blk_start
       PROVE  \E p \in Blk(f) : q = p + SizeOf(f, p)
  <2>1. CASE q = f.brk
    <3>1. h.brk \in Blk(f) /\ q = h.brk + SizeOf(f, h.brk)
      BY <1>1, <1>5, <1>7, <2>1
    <3> QED BY <3>1
  <2>2. CASE q \in Edge(h)
    <3>1. PICK p \in Blk(h) : q = p + SizeOf(h, p)
      BY <1>11, <2>2 DEF Tiling
    <3>2. p \in Blk(f) /\ SizeOf(f, p) = SizeOf(h, p)
      BY <1>7, <1>8 DEF SizeOf
    <3> QED BY <3>1, <3>2
  <2> QED BY <1>7, <2>1, <2>2
<1>12. Tiling(f)
  BY <1>4, <1>7, <1>9, <1>10, <1>11 DEF Tiling
<1>13. Used(f) = Used(h) /\ Free(f) = Free(h) \cup {h.brk}
  BY <1>5, <1>7, <1>8 DEF Used, Free, IsAlloc
<1>14. Keeps(h, f, Blk(h))
  <2> SUFFICES ASSUME NEW p \in Blk(h), NEW a \in Addr, p <= a, a <= p + SizeOf(h, p) - 2
               PROVE  f.data[a] = h.data[a]
    BY <1>8 DEF Keeps
  <2>1. p \in Int /\ SizeOf(h, p) \in Int /\ p + SizeOf(h, p) \in Edge(h)
    BY BlockFacts
  <2>2. p + SizeOf(h, p) <= h.brk
    BY <2>1, EdgeFacts
  <2>3. a < h.brk - 1
    BY <1>2, <1>3, <2>1, <2>2
  <2> QED BY <1>1, <2>3
<1> QED BY <1>5, <1>7, <1>12, <1>13, <1>14

(* extend_heap: more memory in a free block, or nothing.                   *)
LEMMA Extend ==
    ASSUME NEW h, IsHeap(h), Sound(h), NEW size \in Int, size >= 2,
           NEW g, g = extend_heap(h, size).heap, NEW ptr, ptr = extend_heap(h, size).ptr
    PROVE  \/ h.brk + size > MAX_HEAP /\ g = h /\ ptr = NULL
           \/ /\ h.brk + size <= MAX_HEAP
              /\ Becomes(h, g, {}, {}) /\ g.brk = h.brk + size
              /\ ptr \in Free(g) /\ size <= SizeOf(g, ptr)
              /\ StaysCoalesced(h, g)
<1>1. h.brk \in Addr /\ h.brk \in Int /\ h.brk # -1
  BY Numbers, HeapAssumption DEF IsHeap
<1>2. CASE h.brk + size > MAX_HEAP
  BY <1>2 DEF extend_heap, mem_sbrk
<1>3. CASE h.brk + size <= MAX_HEAP
  <2>1. PICK f : f = [PutTags([h EXCEPT !.brk = @ + size], h.brk, size, FALSE)
                        EXCEPT !.hdr[h.brk + size] = Epilogue]
    OBVIOUS
  <2>2. PICK k : k = insert_free_block(f, h.brk)
    OBVIOUS
  <2>3. extend_heap(h, size) = coalesce(k, h.brk)
    <3>1. ~ (h.brk + size > MAX_HEAP)
      BY <1>1, <1>3, HeapAssumption
    <3>2. mem_sbrk(h, size) = [heap |-> [h EXCEPT !.brk = @ + size], ptr |-> h.brk]
      BY <3>1, Zenon DEF mem_sbrk
    <3>3. mem_sbrk(h, size).heap = [h EXCEPT !.brk = @ + size]
          /\ mem_sbrk(h, size).ptr = h.brk
      BY <3>2
    <3> QED BY <1>1, <2>1, <2>2, <3>3, Zenon DEF extend_heap
  <2>4. Tiling(h) /\ Holds(h, Free(h))
    BY DEF Sound
  <2>5. Extended(h, f, size)
    BY <1>3, <2>1, <2>4, ExtendFields, Zenon
  <2>6. /\ Tiling(f)
        /\ Used(f) = Used(h) /\ Free(f) = Free(h) \cup {h.brk}
        /\ Keeps(h, f, Blk(h)) /\ SizeOf(f, h.brk) = size /\ h.brk \notin Blk(h)
    BY <2>4, <2>5, ExtendTiles
  <2>7. IsHeap(f) /\ f.lists = h.lists /\ f.brk = h.brk + size /\ f.wrapped = h.wrapped
    BY <2>5 DEF Extended
  <2>8. Free(h) \in SUBSET Addr /\ h.brk \notin Free(h) /\ Free(h) \subseteq Blk(h)
        /\ Used(h) \subseteq Blk(h)
    BY <2>6 DEF Free, Used, Blk
  <2>9. Holds(f, Free(h))
    <3>1. \A p \in Free(h) : f.hdr[p] = h.hdr[p]
      BY <2>6, <2>8 DEF Keeps
    <3>2. SameFree(h, f, Free(h))
      BY <2>7, <3>1, Zenon DEF SameFree
    <3> QED BY <2>4, <3>2, HoldsOn, Zenon
  <2>10. /\ IsHeap(k) /\ SameTags(f, k)
         /\ \A a \in -1 .. MAX_HEAP : a # h.brk => k.data[a] = f.data[a]
         /\ Holds(k, Free(h) \cup {h.brk})
    <3>1. /\ IsHeap(insert_free_block(f, h.brk)) /\ SameTags(f, insert_free_block(f, h.brk))
          /\ \A a \in -1 .. MAX_HEAP : a # h.brk => insert_free_block(f, h.brk).data[a] = f.data[a]
          /\ Holds(insert_free_block(f, h.brk), Free(h) \cup {h.brk})
      BY <1>1, <2>7, <2>8, <2>9, Insert
    <3> QED BY <2>2, <3>1
  <2>11. Used(k) = Used(f) /\ Free(k) = Free(f) /\ Tiling(k) /\ SizeOf(k, h.brk) = SizeOf(f, h.brk)
    BY <2>6, <2>10, SameBlocks
  <2>12. k.brk = h.brk + size /\ k.wrapped = h.wrapped /\ k.hdr = f.hdr
    BY <2>7, <2>10 DEF SameTags
  <2>13. Keeps(h, k, Used(h) \ {})
    <3> SUFFICES ASSUME NEW p \in Blk(h)
                 PROVE  /\ k.hdr[p] = h.hdr[p]
                        /\ \A a \in Addr : p <= a /\ a <= p + SizeOf(h, p) - 2 => k.data[a] = h.data[a]
      BY <2>8 DEF Keeps
    <3>1. ASSUME NEW a \in Addr, p <= a, a <= p + SizeOf(h, p) - 2
          PROVE  k.data[a] = h.data[a]
      <4>1. h.brk \in Edge(h)
        BY DEF Edge
      <4>2. a # h.brk
        BY <2>4, <2>6, <3>1, <4>1, PayloadInside
      <4>3. a \in -1 .. MAX_HEAP
        BY HeapAssumption DEF Addr
      <4> QED BY <2>6, <2>10, <3>1, <4>2, <4>3 DEF Keeps
    <3> QED BY <2>6, <2>12, <3>1 DEF Keeps
  <2>14. Becomes(h, k, {}, {})
    <3>1. k.brk >= h.brk
      BY <1>1, <2>12
    <3>2. Sound(k)
      BY <2>6, <2>10, <2>11, Zenon DEF Sound
    <3>3. Used(k) = (Used(h) \ {}) \cup {}
      BY <2>6, <2>11
    <3> QED BY <2>10, <2>12, <2>13, <3>1, <3>2, <3>3, Zenon DEF Becomes
  <2>15. h.brk \in Free(k) /\ SizeOf(k, h.brk) = size
    BY <2>6, <2>11
  <2>16. /\ Becomes(k, g, {}, {}) /\ g.brk = k.brk
         /\ ptr \in Free(g) /\ SizeOf(k, h.brk) <= SizeOf(g, ptr)
         /\ Alone(k, {h.brk}) => Alone(g, {})
    <3>1. IsHeap(k) /\ Sound(k)
      BY <2>14 DEF Becomes
    <3>2. g = coalesce(k, h.brk).heap /\ ptr = coalesce(k, h.brk).ptr
      BY <2>3
    <3> QED BY <2>15, <3>1, <3>2, Coalesce, Zenon
  <2>17. Becomes(h, g, {}, {})
    BY <2>14, <2>16, BecomesThrough, Zenon
  <2>18. Alone(h, {}) => Alone(k, {h.brk})
    <3> SUFFICES ASSUME NEW p \in Free(k), p # h.brk, p + SizeOf(k, p) \in Free(k),
                        p + SizeOf(k, p) # h.brk
                 PROVE  p \in Free(h) /\ p + SizeOf(h, p) \in Free(h)
      BY DEF Alone
    <3>1. p \in Free(h) /\ p + SizeOf(k, p) \in Free(h)
      BY <2>6, <2>11
    <3>2. SizeOf(k, p) = SizeOf(h, p)
      BY <2>6, <2>8, <2>12, <3>1 DEF Keeps, SizeOf
    <3> QED BY <3>1, <3>2
  <2> QED BY <1>3, <2>12, <2>15, <2>16, <2>17, <2>18 DEF StaysCoalesced
<1> QED BY <1>1, <1>2, <1>3, HeapAssumption

(* The empty memory is a heap, if not one in order.                        *)
LEMMA ResetIsHeap ==
    /\ IsHeap(mem_reset_brk) /\ mem_reset_brk.wrapped = FALSE
    /\ mem_reset_brk.brk = 0
    /\ \A a \in Addr : mem_reset_brk.hdr[a] = NoTag
    /\ \A i \in Levels : mem_reset_brk.lists[i] = <<>>
<1> DEFINE hdr == [a \in Addr |-> NoTag]
           data == [a \in -1 .. MAX_HEAP |-> Junk]
           lists == [i \in Levels |-> <<>>]
<1>1. NoTag \in Tags /\ 0 \in Addr
  BY HeapAssumption DEF NoTag, PACK, Tags, Addr
<1>2. hdr \in [Addr -> Tags] /\ \A a \in Addr : hdr[a] = NoTag
  BY <1>1
<1>3. data = [a \in -1 .. MAX_HEAP |-> data[a]]
  OBVIOUS
<1>4. lists \in [Levels -> Seq(Addr)] /\ \A i \in Levels : lists[i] = <<>>
  OBVIOUS
<1>5. PICK m : m = mem_reset_brk
  OBVIOUS
<1>6. m = [brk |-> 0, wrapped |-> FALSE, hdr |-> hdr, ftr |-> hdr, data |-> data,
           lists |-> lists]
  BY <1>5, Zenon DEF mem_reset_brk, Levels
<1> HIDE DEF hdr, data, lists
<1>7. /\ m.brk = 0 /\ m.wrapped = FALSE /\ m.hdr = hdr /\ m.ftr = hdr /\ m.data = data
      /\ m.lists = lists
  BY <1>6
<1>8. IsHeap(m)
  BY <1>1, <1>2, <1>3, <1>4, <1>6, <1>7 DEF IsHeap
<1> QED BY <1>2, <1>4, <1>5, <1>7, <1>8

(* mm_init leaves a heap in order without an allocated block.              *)
LEMMA Initialized ==
    ASSUME NEW g, g = mm_init.heap
    PROVE  /\ IsHeap(g) /\ Sound(g) /\ g.wrapped = FALSE /\ Used(g) = {}
           /\ mm_init.ptr # NULL /\ Alone(g, {})
<1>1. PICK r : r = mem_reset_brk
  OBVIOUS
<1>2. /\ IsHeap(r) /\ r.wrapped = FALSE /\ r.brk = 0
      /\ \A a \in Addr : r.hdr[a] = NoTag
      /\ \A i \in Levels : r.lists[i] = <<>>
  BY <1>1, ResetIsHeap
<1>3. PICK m : m = [r EXCEPT !.brk = @ + blk_start]
  OBVIOUS
<1>4. PICK b : b = blk_start
  OBVIOUS
<1>5. b \in Addr /\ b \in Int /\ b - 1 \in Addr /\ b - 1 < b /\ b - (b - 1) = 1 /\ b = 0 + blk_start
      /\ 1 < b
  BY <1>4, Numbers
<1>6. /\ IsHeap(m) /\ m.brk = b /\ m.wrapped = FALSE /\ m.lists = r.lists /\ m.hdr = r.hdr
  <2>1. r = [brk |-> 0, wrapped |-> r.wrapped, hdr |-> r.hdr, ftr |-> r.ftr,
             data |-> r.data, lists |-> r.lists]
    BY <1>2 DEF IsHeap
  <2>2. m = [brk |-> b, wrapped |-> r.wrapped, hdr |-> r.hdr, ftr |-> r.ftr,
             data |-> r.data, lists |-> r.lists]
    BY <1>3, <1>5, <2>1
  <2> QED BY <1>2, <1>5, <2>2 DEF IsHeap
<1>7. mem_sbrk(r, blk_start) = [heap |-> m, ptr |-> 0]
  <2>1. ~ (r.brk + blk_start > MAX_HEAP)
    BY <1>2, Numbers
  <2> QED BY <1>2, <1>3, <2>1, Zenon DEF mem_sbrk
<1>8. PICK f : f = PutTags(m, b - 1, b - (b - 1), TRUE)
  OBVIOUS
<1>9. Tagged(m, f, b - 1, b, TRUE)
  BY <1>5, <1>6, <1>8, PutTagsSpan
<1>10. /\ IsHeap(f)
       /\ f.brk = m.brk /\ f.wrapped = m.wrapped /\ f.lists = m.lists
       /\ f.hdr[b - 1] = PACK(1, TRUE) /\ f.ftr[b] = PACK(1, TRUE)
       /\ \A a \in Addr : a < b - 1 \/ a >= b => f.hdr[a] = m.hdr[a]
  BY <1>5, <1>9 DEF Tagged
<1>11. PICK h : h = [f EXCEPT !.hdr[b] = Epilogue]
  OBVIOUS
<1>12. /\ h.hdr = [f.hdr EXCEPT ![b] = Epilogue]
       /\ h.brk = f.brk /\ h.wrapped = f.wrapped /\ h.lists = f.lists
       /\ h.ftr = f.ftr /\ IsHeap(h)
  <2>1. f = [brk |-> f.brk, wrapped |-> f.wrapped, hdr |-> f.hdr, ftr |-> f.ftr,
             data |-> f.data, lists |-> f.lists]
    BY <1>10 DEF IsHeap
  <2>2. h = [brk |-> f.brk, wrapped |-> f.wrapped, hdr |-> [f.hdr EXCEPT ![b] = Epilogue],
             ftr |-> f.ftr, data |-> f.data, lists |-> f.lists]
    BY <1>11, <2>1
  <2>3. Epilogue \in Tags
    BY Numbers, HeapAssumption DEF Epilogue, PACK, Tags, Addr
  <2>4. [f.hdr EXCEPT ![b] = Epilogue] \in [Addr -> Tags]
    BY <1>10, <2>3 DEF IsHeap
  <2>5. f.brk \in Addr /\ f.wrapped \in BOOLEAN /\ f.ftr \in [Addr -> Tags]
        /\ f.data = [a \in -1 .. MAX_HEAP |-> f.data[a]] /\ f.lists \in [Levels -> Seq(Addr)]
    BY <1>10 DEF IsHeap
  <2> HIDE DEF Epilogue
  <2>6. /\ h.hdr = [f.hdr EXCEPT ![b] = Epilogue]
        /\ h.brk = f.brk /\ h.wrapped = f.wrapped /\ h.lists = f.lists
        /\ h.ftr = f.ftr /\ h.data = f.data
    BY <2>2
  <2> QED BY <2>2, <2>4, <2>5, <2>6 DEF IsHeap
<1>13. h.hdr[b] = Epilogue /\ \A a \in Addr : a # b => h.hdr[a] = f.hdr[a]
  <2>1. f.hdr \in [Addr -> Tags]
    BY <1>10 DEF IsHeap
  <2> QED BY <1>5, <1>12, <2>1
<1>14. \A a \in Addr : a \in Int
  BY Numbers
<1>15. /\ h.brk = b /\ h.hdr[b - 1] = PACK(1, TRUE) /\ h.ftr[b] = PACK(1, TRUE)
       /\ \A a \in Addr : a # b /\ a # b - 1 => h.hdr[a] = NoTag
  <2>1. h.hdr[b - 1] = f.hdr[b - 1]
    BY <1>5, <1>13
  <2>2. h.hdr[b - 1] = PACK(1, TRUE) /\ h.ftr[b] = PACK(1, TRUE)
    BY <1>10, <1>12, <2>1, Zenon
  <2>3. ASSUME NEW a \in Addr, a # b, a # b - 1
        PROVE  h.hdr[a] = NoTag
    <3>1. a < b - 1 \/ a >= b
      BY <1>5, <1>14, <2>3
    <3> QED BY <1>2, <1>6, <1>10, <1>13, <2>3, <3>1
  <2> QED BY <1>6, <1>10, <1>12, <2>2, <2>3
<1>16. Blk(h) = {} /\ Edge(h) = {b} /\ Used(h) = {} /\ Free(h) = {}
  <2>1. Blk(h) = {}
    <3> SUFFICES ASSUME NEW p \in Addr, b <= p, p < b
                 PROVE  FALSE
      BY <1>4, <1>15 DEF Blk
    <3> QED BY <1>5, <1>14
  <2> QED BY <1>15, <2>1 DEF Edge, Used, Free
<1>17. Sound(h)
  <2>1. Framed(h)
    <3>1. h.brk = blk_start /\ h.hdr[h.brk] = Epilogue
      BY <1>4, <1>13, <1>15, Zenon
    <3>2. h.hdr[blk_start - 1] = PACK(1, TRUE) /\ h.ftr[blk_start] = PACK(1, TRUE)
      BY <1>4, <1>15, Zenon
    <3>3. \A a \in Addr : a < blk_start - 1 \/ a > h.brk => h.hdr[a] = NoTag
      BY <1>4, <1>5, <1>14, <1>15
    <3>4. blk_start <= h.brk
      <4>1. b <= b
        BY <1>5
      <4> QED BY <1>4, <3>1, <4>1, Zenon
    <3> QED BY <3>1, <3>2, <3>3, <3>4, Zenon DEF Framed
  <2>2. Tiling(h)
    BY <1>4, <1>16, <2>1, Zenon DEF Tiling
  <2>3. h.lists = r.lists
    BY <1>6, <1>10, <1>12
  <2>4. \A i \in Levels : InList(h, <<>>, i, {})
    BY DEF InList
  <2>5. Holds(h, {})
    BY <1>2, <2>3, <2>4 DEF Holds
  <2> QED BY <1>16, <2>2, <2>5 DEF Sound
<1>18. mm_init = extend_heap(h, CHUNKSIZE)
  <2>1. h = [PutTags(m, blk_start - 1, 1, TRUE) EXCEPT !.hdr[blk_start] = Epilogue]
    BY <1>4, <1>5, <1>8, <1>11, Zenon
  <2>2. mem_sbrk(mem_reset_brk, blk_start).heap = m /\ mem_sbrk(mem_reset_brk, blk_start).ptr = 0
    BY <1>1, <1>7
  <2>3. 0 # -1
    OBVIOUS
  <2> QED BY <2>1, <2>2, <2>3, Zenon DEF mm_init
<1>19. PICK ptr : ptr = mm_init.ptr
  OBVIOUS
<1>20. CHUNKSIZE \in Int /\ CHUNKSIZE >= 2 /\ ~ (h.brk + CHUNKSIZE > MAX_HEAP)
  <2>1. h.brk = blk_start
    BY <1>4, <1>15
  <2> QED BY <2>1, HeapAssumption, Numbers
<1>21. Becomes(h, g, {}, {}) /\ ptr \in Free(g) /\ Alone(g, {})
  <2>1. g = extend_heap(h, CHUNKSIZE).heap /\ ptr = extend_heap(h, CHUNKSIZE).ptr
    BY <1>18, <1>19
  <2>2. Alone(h, {})
    BY <1>16 DEF Alone
  <2>3. Becomes(h, g, {}, {}) /\ ptr \in Free(g) /\ StaysCoalesced(h, g)
    BY <1>12, <1>17, <1>20, <2>1, Extend, Zenon
  <2> QED BY <2>2, <2>3 DEF StaysCoalesced
<1>22. ptr # NULL
  BY <1>21, Numbers DEF Free, Blk, NULL
<1>23. g.wrapped = FALSE
  BY <1>6, <1>10, <1>12, <1>21 DEF Becomes
<1> QED BY <1>16, <1>19, <1>21, <1>22, <1>23 DEF Becomes

(* The blocks from s to e have become an allocated one from s to m; if m   *)
(* is below e, the rest is a free block.  Of the data only what lies       *)
(* before the edges and the first double word of the free block is lost.   *)
Taken(h, g, s, m, e) ==
  /\ g.brk = h.brk /\ SizeOf(g, s) = m - s
  /\ m < e => m \in Free(g)
  /\ Alone(h, Within(s, e)) => Alone(g, {m} \ {e})
  /\ \A a \in -1 .. MAX_HEAP :
       a # s - 1 /\ a # m - 1 /\ a # e - 1 /\ (a = m => m = e) => g.data[a] = h.data[a]

(* An allocated block takes the place of the blocks from s to e.           *)
LEMMA NewUsed ==
    ASSUME NEW h, IsHeap(h), Tiling(h), NEW s \in Edge(h), NEW e \in Edge(h), s + 2 <= e,
           NEW F, Holds(h, F), F \subseteq Free(h), \A p \in Free(h) : p \in F <=> p < s \/ p >= e,
           NEW g, g = PutTags(h, s, e - s, TRUE)
    PROVE  Becomes(h, g, Within(s, e), {s}) /\ Taken(h, g, s, e, e)
<1>1. Retiled(h, g, s, e, TRUE)
  BY Retile
<1>2. s \in Addr /\ s \in Int /\ e \in Addr /\ e \in Int
  BY EdgeFacts
<1>3. /\ IsHeap(g) /\ Tiling(g) /\ g.brk = h.brk /\ g.wrapped = h.wrapped /\ g.lists = h.lists
      /\ g.hdr[s] = PACK(e - s, TRUE)
      /\ \A a \in Addr : a \in Used(g) <=> (a \in Used(h) /\ (a < s \/ a >= e)) \/ a = s
      /\ \A a \in Addr : a \in Free(g) <=> a \in Free(h) /\ (a < s \/ a >= e)
      /\ Keeps(h, g, {p \in Blk(h) : p < s \/ p >= e})
  BY <1>1 DEF Retiled
<1>4. /\ Free(g) \subseteq Addr /\ Free(h) \subseteq Addr /\ Used(g) \subseteq Addr
      /\ Used(h) \subseteq Addr /\ Free(h) \subseteq Blk(h) /\ Used(h) \subseteq Blk(h)
  BY DEF Free, Used, Blk
<1>5. Free(g) = F
  <2>1. \A a \in Addr : a \in Free(g) <=> a \in Free(h) /\ (a < s \/ a >= e)
    BY <1>3
  <2> QED BY <1>4, <2>1
<1>6. Holds(g, F)
  <2>1. \A p \in F : g.hdr[p] = h.hdr[p]
    <3>1. \A p \in F : p \in {q \in Blk(h) : q < s \/ q >= e}
      BY <1>4
    <3> QED BY <1>3, <3>1 DEF Keeps
  <2>2. g.lists = h.lists
    BY <1>3
  <2>3. SameFree(h, g, F)
    BY <2>1, <2>2, Zenon DEF SameFree
  <2> QED BY <2>3, HoldsOn, Zenon
<1>7. \A p \in Addr : p \in Within(s, e) <=> ~ (p < s \/ p >= e)
  BY <1>2, Numbers DEF Within
<1>8. Used(g) = (Used(h) \ Within(s, e)) \cup {s}
  <2>1. \A a \in Addr : a \in Used(g) <=> (a \in Used(h) /\ (a < s \/ a >= e)) \/ a = s
    BY <1>3
  <2> QED BY <1>2, <1>4, <1>7, <2>1
<1>9. Keeps(h, g, Used(h) \ Within(s, e))
  <2>1. \A p \in Used(h) \ Within(s, e) : p \in {q \in Blk(h) : q < s \/ q >= e}
    BY <1>4, <1>7
  <2> QED BY <1>3, <2>1 DEF Keeps
<1>10. h.brk \in Int
  BY Numbers DEF IsHeap
<1>11. \A a \in Int : a >= a
  OBVIOUS
<1>12. Sound(g)
  BY <1>3, <1>5, <1>6, Zenon DEF Sound
<1>13. g.brk >= h.brk
  BY <1>3, <1>10, <1>11, Zenon
<1>14. Becomes(h, g, Within(s, e), {s})
  BY <1>3, <1>8, <1>9, <1>12, <1>13, Zenon DEF Becomes
<1>15. SizeOf(g, s) = e - s
  <2>1. g.hdr[s] = PACK(e - s, TRUE)
    BY <1>3, Zenon
  <2> QED BY <2>1, PackIsTag, Zenon DEF SizeOf
<1>16. s < e
  BY <1>2
<1>17. \A a \in -1 .. MAX_HEAP : a # s - 1 /\ a # e - 1 => g.data[a] = h.data[a]
  <2>1. Tagged(h, g, s, e, TRUE)
    BY <1>2, <1>16, PutTagsSpan
  <2> QED BY <2>1 DEF Tagged
<1>18. ~ (e < e)
  BY <1>2
<1>19. Alone(h, Within(s, e)) => Alone(g, {e} \ {e})
  <2>1. \A a \in Addr : a < s \/ a >= e => g.hdr[a] = h.hdr[a]
    BY <1>1 DEF Retiled
  <2>2. Replaced(h, g, s, e, {e} \ {e})
    BY <1>3, <2>1 DEF Replaced
  <2> QED BY <1>2, <2>2, AloneSpan, Zenon
<1>20. Taken(h, g, s, e, e)
  BY <1>3, <1>15, <1>17, <1>18, <1>19, Zenon DEF Taken
<1> QED BY <1>14, <1>20

(* And so does an allocated block with a free one behind it.               *)
LEMMA NewPart ==
    ASSUME NEW h, IsHeap(h), Tiling(h), NEW s \in Edge(h), NEW e \in Edge(h),
           NEW m \in Int, s + 2 <= m, m + 2 <= e,
           NEW F, Holds(h, F), F \subseteq Free(h), \A p \in Free(h) : p \in F <=> p < s \/ p >= e,
           NEW g, g = insert_free_block(PutTags(PutTags(h, s, m - s, TRUE), m, e - m, FALSE), m)
    PROVE  Becomes(h, g, Within(s, e), {s}) /\ Taken(h, g, s, m, e)
<1>1. PICK f : f = PutTags(PutTags(h, s, m - s, TRUE), m, e - m, FALSE)
  OBVIOUS
<1>2. s \in Addr /\ s \in Int /\ e \in Addr /\ e \in Int
  BY EdgeFacts
<1>3. m \in Addr /\ s < m /\ m < e
  BY <1>2, Numbers DEF Addr
<1>4. Parted(h, f, s, m, e)
  BY <1>1, Part
<1>5. /\ IsHeap(f) /\ Tiling(f) /\ f.brk = h.brk /\ f.wrapped = h.wrapped /\ f.lists = h.lists
      /\ f.hdr[s] = PACK(m - s, TRUE)
      /\ \A a \in Addr : a \in Used(f) <=> (a \in Used(h) /\ (a < s \/ a >= e)) \/ a = s
      /\ \A a \in Addr : a \in Free(f) <=> (a \in Free(h) /\ (a < s \/ a >= e)) \/ a = m
      /\ Keeps(h, f, {p \in Blk(h) : p < s \/ p >= e})
      /\ \A a \in -1 .. MAX_HEAP : a # s - 1 /\ a # m - 1 /\ a # e - 1 => f.data[a] = h.data[a]
  BY <1>4 DEF Parted
<1>6. /\ Free(f) \subseteq Addr /\ Free(h) \subseteq Addr /\ Used(f) \subseteq Addr
      /\ Used(h) \subseteq Addr /\ Free(h) \subseteq Blk(h) /\ Used(h) \subseteq Blk(h)
  BY DEF Free, Used, Blk
<1>7. m \notin F
  BY <1>2, <1>3
<1>8. Free(f) = F \cup {m}
  <2>1. \A a \in Addr : a \in Free(f) <=> (a \in Free(h) /\ (a < s \/ a >= e)) \/ a = m
    BY <1>5
  <2> QED BY <1>3, <1>6, <2>1
<1>9. Holds(f, F)
  <2>1. \A p \in F : f.hdr[p] = h.hdr[p]
    <3>1. \A p \in F : p \in {q \in Blk(h) : q < s \/ q >= e}
      BY <1>6
    <3> QED BY <1>5, <3>1 DEF Keeps
  <2>2. f.lists = h.lists
    BY <1>5
  <2>3. SameFree(h, f, F)
    BY <2>1, <2>2, Zenon DEF SameFree
  <2> QED BY <2>3, HoldsOn, Zenon
<1>10. /\ IsHeap(g) /\ SameTags(f, g) /\ Holds(g, F \cup {m})
       /\ \A a \in -1 .. MAX_HEAP : a # m => g.data[a] = f.data[a]
  <2>1. g = insert_free_block(f, m)
    BY <1>1
  <2>2. IsHeap(f) /\ F \in SUBSET Addr /\ m \in Addr /\ m \notin F /\ Holds(f, F)
    BY <1>3, <1>5, <1>6, <1>7, <1>9, Zenon
  <2>3. /\ IsHeap(insert_free_block(f, m)) /\ SameTags(f, insert_free_block(f, m))
        /\ \A a \in -1 .. MAX_HEAP : a # m => insert_free_block(f, m).data[a] = f.data[a]
        /\ Holds(insert_free_block(f, m), F \cup {m})
    BY <2>2, Insert
  <2> QED BY <2>1, <2>3
<1>11. Used(g) = Used(f) /\ Free(g) = Free(f) /\ Tiling(g)
  <2>1. Tiling(f) /\ SameTags(f, g)
    BY <1>5, <1>10
  <2> QED BY <2>1, SameBlocks
<1>12. \A p \in Addr : p \in Within(s, e) <=> ~ (p < s \/ p >= e)
  BY <1>2, Numbers DEF Within
<1>13. Used(g) = (Used(h) \ Within(s, e)) \cup {s}
  <2>1. \A a \in Addr : a \in Used(f) <=> (a \in Used(h) /\ (a < s \/ a >= e)) \/ a = s
    BY <1>5
  <2>2. Used(f) = (Used(h) \ Within(s, e)) \cup {s}
    BY <1>2, <1>6, <1>12, <2>1
  <2> QED BY <1>11, <2>2
<1>14. /\ g.brk = h.brk /\ g.wrapped = h.wrapped /\ g.hdr[s] = PACK(m - s, TRUE)
       /\ g.hdr = f.hdr
  BY <1>5, <1>10 DEF SameTags
<1>15. \A a \in -1 .. MAX_HEAP :
         a # s - 1 /\ a # m - 1 /\ a # e - 1 /\ (a = m => m = e) => g.data[a] = h.data[a]
  <2>1. m # e
    BY <1>2
  <2> QED BY <1>5, <1>10, <2>1
<1>16. Keeps(h, g, Used(h) \ Within(s, e))
  <2> SUFFICES ASSUME NEW p \in Blk(h), p < s \/ p >= e
               PROVE  /\ g.hdr[p] = h.hdr[p]
                      /\ \A a \in Addr : p <= a /\ a <= p + SizeOf(h, p) - 2 => g.data[a] = h.data[a]
    BY <1>6, <1>12 DEF Keeps
  <2>1. p \in Addr /\ p \in Int /\ SizeOf(h, p) \in Int
    BY BlockFacts
  <2>2. /\ f.hdr[p] = h.hdr[p]
        /\ \A a \in Addr : p <= a /\ a <= p + SizeOf(h, p) - 2 => f.data[a] = h.data[a]
    BY <1>5 DEF Keeps
  <2>3. ASSUME NEW a \in Addr, p <= a, a <= p + SizeOf(h, p) - 2
        PROVE  g.data[a] = h.data[a]
    <3>1. p < s => p + SizeOf(h, p) <= s
      BY Apart
    <3>2. a # m
      BY <1>2, <1>3, <2>1, <2>3, <3>1, Numbers
    <3>3. a \in -1 .. MAX_HEAP
      BY HeapAssumption DEF Addr
    <3> QED BY <1>10, <2>2, <2>3, <3>2, <3>3
  <2> QED BY <1>14, <2>2, <2>3
<1>17. h.brk \in Int
  BY Numbers DEF IsHeap
<1>18. \A a \in Int : a >= a
  OBVIOUS
<1>19. Sound(g)
  BY <1>8, <1>10, <1>11, Zenon DEF Sound
<1>20. g.brk >= h.brk
  BY <1>14, <1>17, <1>18, Zenon
<1>21. Becomes(h, g, Within(s, e), {s})
  BY <1>10, <1>13, <1>14, <1>16, <1>19, <1>20, Zenon DEF Becomes
<1>22. SizeOf(g, s) = m - s
  <2>1. PACK(m - s, TRUE).size = m - s
    BY PackIsTag
  <2> QED BY <1>14, <2>1, Zenon DEF SizeOf
<1>23. m \in Free(g)
  BY <1>8, <1>11
<1>24. Alone(h, Within(s, e)) => Alone(g, {m} \ {e})
  <2>1. \A a \in Addr : a < s \/ a >= e => g.hdr[a] = h.hdr[a]
    BY <1>4, <1>14 DEF Parted
  <2>2. \A a \in Addr : a \in Free(g) <=> (a \in Free(h) /\ (a < s \/ a >= e)) \/ a = m
    BY <1>5, <1>11
  <2>3. m # e
    BY <1>2
  <2>4. Replaced(h, g, s, e, {m} \ {e})
    BY <2>1, <2>2, <2>3 DEF Replaced
  <2> QED BY <1>2, <2>4, AloneSpan, Zenon
<1>25. Taken(h, g, s, m, e)
  BY <1>14, <1>15, <1>22, <1>23, <1>24, Zenon DEF Taken
<1> QED BY <1>21, <1>25

(* A difference of sizes that does not wrap.                               *)
LEMMA DifferenceOf ==
    ASSUME NEW a \in Int, NEW b \in Int, 0 <= b, b <= a, a <= MAX_HEAP
    PROVE  Difference(a, b) = a - b
<1>1. a - b \in Int /\ 0 <= a - b /\ a - b < 536870912
  BY HeapAssumption DEF SIZE_WRAP
<1> DEFINE d == a - b
<1>2. \A n \in Int : 0 <= n /\ n < 536870912 => n % 536870912 = n
  OBVIOUS
<1> QED BY <1>1, <1>2 DEF Difference, SIZE_WRAP

(* place makes an allocated block of a free one.                           *)
LEMMA Place ==
    ASSUME NEW h, IsHeap(h), Sound(h), NEW bp \in Free(h),
           NEW asize \in Int, 2 <= asize, asize <= SizeOf(h, bp),
           NEW g, g = place(h, bp, asize)
    PROVE  /\ Becomes(h, g, {}, {bp}) /\ g.brk = h.brk /\ asize <= SizeOf(g, bp)
           /\ StaysCoalesced(h, g)
<1>1. Tiling(h) /\ Holds(h, Free(h))
  BY DEF Sound
<1>2. bp \in Blk(h) /\ bp \in Edge(h) /\ ~ IsAlloc(h, bp)
  BY DEF Free, Edge
<1>3. PICK n : n = SizeOf(h, bp)
  OBVIOUS
<1>4. PICK e : e = bp + n
  OBVIOUS
<1>5. /\ bp \in Int /\ n \in Int /\ n >= 2 /\ e \in Edge(h) /\ e \in Int /\ e \in Addr /\ n <= MAX_HEAP
      /\ bp \in Addr
  BY <1>1, <1>2, <1>3, <1>4, BlockFacts, Numbers
<1>6. PICK d : d = delete_free_block(h, bp)
  OBVIOUS
<1>7. IsHeap(d) /\ SameTags(h, d) /\ d.data = h.data /\ Holds(d, Free(h) \ {bp})
  BY <1>1, <1>6, Delete
<1>8. /\ Free(d) = Free(h) /\ Used(d) = Used(h) /\ Edge(d) = Edge(h) /\ Blk(d) = Blk(h) /\ Tiling(d)
      /\ d.brk = h.brk
  BY <1>1, <1>7, SameBlocks DEF SameTags
<1>9. \A p \in Blk(h) : p \in Int /\ (p = bp <=> ~ (p < bp \/ p >= e))
  <2> SUFFICES ASSUME NEW p \in Blk(h)
               PROVE  p \in Int /\ (p = bp <=> ~ (p < bp \/ p >= e))
    OBVIOUS
  <2>1. p \in Int /\ p \in Edge(h)
    BY <1>1, BlockFacts DEF Edge
  <2>2. bp < p => bp + SizeOf(h, bp) <= p
    BY <1>1, <1>2, <2>1, Apart
  <2> QED BY <1>3, <1>4, <1>5, <2>1, <2>2
<1>10. PICK F : F = Free(h) \ {bp}
  OBVIOUS
<1>11. F \subseteq Free(d) /\ \A p \in Free(d) : p \in F <=> p < bp \/ p >= e
  <2>1. \A p \in Free(h) : p \in Blk(h)
    BY DEF Free
  <2> QED BY <1>8, <1>9, <1>10, <2>1
<1>12. \A p \in Used(h) : p \in Within(bp, e) <=> p \in {}
  <2> SUFFICES ASSUME NEW p \in Used(h), bp <= p, p < e
               PROVE  FALSE
    BY DEF Within
  <2>1. p \in Blk(h) /\ p # bp
    BY <1>2 DEF Used
  <2> QED BY <1>5, <1>9, <2>1
<1>18. Alone(h, {}) => Alone(d, Within(bp, e))
  <2>1. Alone(h, {}) => Alone(h, Within(bp, e))
    BY AloneMore
  <2> QED BY <1>7, <2>1, SameAlone
<1>13. PICK rest : rest = n - asize
  OBVIOUS
<1>14. Difference(n, asize) = rest /\ rest \in Int
  BY <1>3, <1>5, <1>13, DifferenceOf
<1>15. CASE rest < MIN_BLK_SIZE
  <2>1. g = PutTags(d, bp, n, TRUE)
    <3>1. ~ (rest >= MIN_BLK_SIZE)
      BY <1>14, <1>15, Numbers
    <3> QED BY <1>2, <1>3, <1>6, <1>14, <3>1, Zenon DEF place
  <2>2. n = e - bp /\ bp + 2 <= e
    BY <1>4, <1>5
  <2>3. Becomes(d, g, Within(bp, e), {bp}) /\ Taken(d, g, bp, e, e)
    <3>1. g = PutTags(d, bp, e - bp, TRUE)
      BY <2>1, <2>2, Zenon
    <3>2. bp \in Edge(d) /\ e \in Edge(d) /\ Holds(d, F)
      BY <1>2, <1>5, <1>7, <1>8, <1>10, Zenon
    <3> QED BY <1>7, <1>8, <1>11, <2>2, <3>1, <3>2, NewUsed, Zenon
  <2>4. Becomes(h, g, {}, {bp})
    BY <1>7, <1>12, <2>3, BecomesFrom, Zenon
  <2>5. g.brk = h.brk /\ SizeOf(g, bp) = e - bp
    BY <1>8, <2>3 DEF Taken
  <2>6. asize <= e - bp
    BY <1>3, <2>2
  <2>7. {e} \ {e} = {}
    OBVIOUS
  <2>8. Alone(h, {}) => Alone(g, {})
    BY <1>18, <2>3, <2>7, Zenon DEF Taken
  <2> QED BY <2>4, <2>5, <2>6, <2>8 DEF StaysCoalesced
<1>16. CASE rest >= MIN_BLK_SIZE
  <2>1. PICK m : m = bp + asize
    OBVIOUS
  <2>2. m \in Int /\ bp + 2 <= m /\ m + 2 <= e /\ asize = m - bp /\ rest = e - m /\ m < e
    BY <1>3, <1>4, <1>5, <1>13, <1>16, <2>1, Numbers
  <2>3. PICK k : k = insert_free_block(PutTags(PutTags(d, bp, m - bp, TRUE), m, e - m, FALSE), m)
    OBVIOUS
  <2>4. g = coalesce(k, m).heap
    <3>1. k = insert_free_block(PutTags(PutTags(d, bp, asize, TRUE), m, rest, FALSE), m)
      BY <2>2, <2>3, Zenon
    <3>2. g = coalesce(insert_free_block(
                PutTags(PutTags(d, bp, asize, TRUE), bp + asize, rest, FALSE),
                bp + asize), bp + asize).heap
      BY <1>2, <1>3, <1>6, <1>14, <1>16, Zenon DEF place
    <3> QED BY <2>1, <3>1, <3>2, Zenon
  <2>5. Becomes(d, k, Within(bp, e), {bp}) /\ Taken(d, k, bp, m, e)
    <3>1. bp \in Edge(d) /\ e \in Edge(d) /\ Holds(d, F)
      BY <1>2, <1>5, <1>7, <1>8, <1>10, Zenon
    <3> QED BY <1>7, <1>8, <1>11, <2>2, <2>3, <3>1, NewPart, Zenon
  <2>6. Becomes(h, k, {}, {bp})
    BY <1>7, <1>12, <2>5, BecomesFrom, Zenon
  <2>7. k.brk = h.brk /\ SizeOf(k, bp) = m - bp /\ m \in Free(k)
    BY <1>8, <2>2, <2>5 DEF Taken
  <2>8. Becomes(k, g, {}, {}) /\ g.brk = k.brk /\ (Alone(k, {m}) => Alone(g, {}))
    <3>1. IsHeap(k) /\ Sound(k)
      BY <2>6 DEF Becomes
    <3>2. PICK ptr : ptr = coalesce(k, m).ptr
      OBVIOUS
    <3> QED BY <2>4, <2>7, <3>1, <3>2, Coalesce, ZenonT(30)
  <2>9. Becomes(h, g, {}, {bp})
    BY <2>6, <2>8, BecomesThrough, Zenon
  <2>10. SizeOf(g, bp) = SizeOf(k, bp)
    <3>1. bp \in Used(k) \ {}
      BY <2>6 DEF Becomes
    <3>2. Keeps(k, g, Used(k) \ {})
      BY <2>8 DEF Becomes
    <3> QED BY <3>1, <3>2 DEF Keeps, SizeOf
  <2>11. asize <= m - bp
    BY <2>2
  <2>12. Alone(h, {}) => Alone(g, {})
    <3>1. {m} \ {e} \subseteq {m}
      OBVIOUS
    <3>2. Alone(k, {m} \ {e}) => Alone(k, {m})
      BY <3>1, AloneMore
    <3> QED BY <1>18, <2>5, <2>8, <3>2, Zenon DEF Taken
  <2> QED BY <2>7, <2>8, <2>9, <2>10, <2>11, <2>12 DEF StaysCoalesced
<1>17. rest < MIN_BLK_SIZE \/ rest >= MIN_BLK_SIZE
  BY <1>14, Numbers
<1> QED BY <1>15, <1>16, <1>17

(* find_fit is a best fit over all lists.                                  *)
LEMMA FindFit ==
    ASSUME NEW h, IsHeap(h), Sound(h), NEW size \in Int, NEW fit, fit = find_fit(h, size)
    PROVE  \/ fit = NULL /\ \A p \in Free(h) : SizeOf(h, p) < size
           \/ /\ fit \in Free(h) /\ SizeOf(h, fit) >= size
              /\ \A p \in Free(h) : SizeOf(h, p) >= size => SizeOf(h, fit) <= SizeOf(h, p)
<1> DEFINE l(i) == h.lists[i]
           at(i) == FirstNotSmaller(h, i, size)
           C == Candidates(h, size)
<1>1. ASSUME NEW i \in Levels
      PROVE  /\ l(i) \in Seq(Addr) /\ Len(l(i)) \in Nat
             /\ \A j, k \in 1 .. Len(l(i)) : j < k => SizeOf(h, l(i)[j]) <= SizeOf(h, l(i)[k])
             /\ \A k \in 1 .. Len(l(i)) :
                  /\ l(i)[k] \in Free(h) /\ get_seg_level(SizeOf(h, l(i)[k])) = i
                  /\ SizeOf(h, l(i)[k]) \in Int
             /\ \A p \in Free(h) : get_seg_level(SizeOf(h, p)) = i => \E k \in 1 .. Len(l(i)) : l(i)[k] = p
             /\ Stops(h, l(i), size, at(i))
  <2>1. InList(h, h.lists[i], i, Free(h)) /\ h.lists[i] \in Seq(Addr)
    BY DEF Sound, Holds, IsHeap
  <2>2. DOMAIN l(i) = 1 .. Len(l(i)) /\ Len(l(i)) \in Nat
    BY <2>1
  <2>3. \A k \in 1 .. Len(l(i)) : l(i)[k] \in Addr
    BY <2>1
  <2>4. \A p \in Addr : SizeOf(h, p) \in Int
    BY TagFields, Numbers
  <2>5. \A k \in 1 .. Len(l(i)) : SizeOf(h, l(i)[k]) \in Int
    BY <2>3, <2>4
  <2>6. Stops(h, l(i), size, at(i))
    BY <2>1, <2>5, SearchStops
  <2> HIDE DEF l, at
  <2>7. InList(h, l(i), i, Free(h)) /\ l(i) \in Seq(Addr)
    BY <2>1 DEF l
  <2>8. /\ \A j, k \in 1 .. Len(l(i)) : j < k => l(i)[j] # l(i)[k] /\ SizeOf(h, l(i)[j]) <= SizeOf(h, l(i)[k])
        /\ \A k \in 1 .. Len(l(i)) : l(i)[k] \in Free(h) /\ get_seg_level(SizeOf(h, l(i)[k])) = i
        /\ \A p \in Free(h) : get_seg_level(SizeOf(h, p)) = i => \E k \in 1 .. Len(l(i)) : l(i)[k] = p
    BY <2>2, <2>7, Zenon DEF InList
  <2> QED BY <2>2, <2>5, <2>6, <2>7, <2>8
<1>2. get_seg_level(size) \in Levels
  BY LevelOf
<1>3. \A i : i \in C <=> i \in Levels /\ get_seg_level(size) <= i /\ at(i) # 0
  BY <1>2 DEF Candidates, Levels, N_SEGLIST
<1>4. ASSUME NEW p \in Free(h), SizeOf(h, p) >= size
      PROVE  get_seg_level(SizeOf(h, p)) \in C
  <2>1. SizeOf(h, p) \in Int
    BY TagFields, Numbers DEF Free, Blk
  <2> DEFINE i == get_seg_level(SizeOf(h, p))
  <2>2. i \in Levels /\ get_seg_level(size) <= i
    BY <1>4, <2>1, LevelOf
  <2>3. PICK k \in 1 .. Len(l(i)) : l(i)[k] = p
    BY <1>1, <2>2
  <2>4. at(i) # 0
    <3> SUFFICES ASSUME at(i) = 0
                 PROVE  FALSE
      OBVIOUS
    <3>1. SizeOf(h, l(i)[k]) < size
      BY <1>1, <2>2 DEF Stops
    <3> HIDE DEF l, i
    <3> QED BY <1>4, <2>1, <2>3, <3>1
  <2> QED BY <1>3, <2>2, <2>4
<1>5. CASE C = {}
  <2>1. fit = NULL
    BY <1>5 DEF find_fit
  <2>2. ASSUME NEW p \in Free(h)
        PROVE  SizeOf(h, p) < size
    <3>1. SizeOf(h, p) \in Int
      BY TagFields, Numbers DEF Free, Blk
    <3>2. ~ (SizeOf(h, p) >= size)
      BY <1>4, <1>5
    <3> QED BY <3>1, <3>2
  <2> QED BY <2>1, <2>2
<1>6. CASE C # {}
  <2>1. PICK v : v = Min(C)
    OBVIOUS
  <2>2. v \in C /\ \A i \in C : v <= i
    <3>1. C \in SUBSET Nat
      BY <1>3 DEF Levels, N_SEGLIST
    <3> HIDE DEF C
    <3> QED BY <1>6, <2>1, <3>1, LeastOfSet
  <2>3. v \in Levels /\ at(v) # 0
    BY <1>3, <2>2
  <2>4. fit = l(v)[at(v)]
    BY <1>6, <2>1, Zenon DEF find_fit
  <2>5. /\ at(v) \in 1 .. Len(l(v)) /\ SizeOf(h, l(v)[at(v)]) >= size
        /\ \A k \in 1 .. Len(l(v)) : k < at(v) => SizeOf(h, l(v)[k]) < size
    <3>1. Stops(h, l(v), size, at(v)) /\ Len(l(v)) \in Nat
      BY <1>1, <2>3
    <3> HIDE DEF l, at
    <3> QED BY <2>3, <3>1 DEF Stops
  <2>6. /\ fit \in Free(h) /\ get_seg_level(SizeOf(h, fit)) = v /\ SizeOf(h, fit) \in Int
    BY <1>1, <2>3, <2>4, <2>5
  <2>7. ASSUME NEW p \in Free(h), SizeOf(h, p) >= size
        PROVE  SizeOf(h, fit) <= SizeOf(h, p)
    <3>1. SizeOf(h, p) \in Int
      BY TagFields, Numbers DEF Free, Blk
    <3>2. PICK i : i = get_seg_level(SizeOf(h, p))
      OBVIOUS
    <3>3. i \in C /\ v <= i /\ i \in Levels
      BY <1>3, <1>4, <2>2, <2>7, <3>2
    <3>4. CASE i = v
      <4>1. PICK k \in 1 .. Len(l(v)) : l(v)[k] = p
        BY <1>1, <2>3, <3>2, <3>4
      <4>2. ~ (k < at(v))
        <5>1. ~ (SizeOf(h, p) < size)
          BY <2>7, <3>1
        <5> QED BY <2>5, <4>1, <5>1, Zenon
      <4>3. k = at(v) \/ at(v) < k
        BY <2>5, <4>2
      <4>4. at(v) < k => SizeOf(h, l(v)[at(v)]) <= SizeOf(h, l(v)[k])
        BY <1>1, <2>3, <2>5, <4>1
      <4> HIDE DEF l, at
      <4> QED BY <2>4, <2>6, <4>1, <4>3, <4>4
    <3>5. CASE i # v
      <4>1. i \in Int /\ v \in Int
        BY <2>3, <3>3 DEF Levels, N_SEGLIST
      <4>2. SizeOf(h, p) <= SizeOf(h, fit) => i <= v
        BY <2>6, <3>1, <3>2, LevelOf
      <4> QED BY <2>6, <3>1, <3>3, <3>5, <4>1, <4>2
    <3> QED BY <3>4, <3>5
  <2>8. SizeOf(h, fit) >= size
    BY <2>4, <2>5
  <2> QED BY <2>6, <2>7, <2>8
<1> QED BY <1>5, <1>6

(* Two double words at least, and room for the request beside the tags.    *)
LEMMA AsizeOf ==
    ASSUME NEW size \in Int, 1 <= size
    PROVE  /\ asizeOf(size) \in Int /\ 2 <= asizeOf(size)
           /\ size <= DSIZE * asizeOf(size) - DSIZE
           /\ size <= INT_MAX => asizeOf(size) < SIZE_WRAP
<1>1. CASE size <= 8
  BY <1>1 DEF asizeOf, DSIZE, SIZE_WRAP, INT_MAX
<1>2. CASE size > 8
  <2> DEFINE q == (size + 15) \div 8
  <2>1. /\ q \in Int /\ 8 * q <= size + 15 /\ size + 15 < 8 * q + 8
    OBVIOUS
  <2>2. asizeOf(size) = q
    <3>1. size + DSIZE + (DSIZE - 1) = size + 15 /\ ~ (size <= DSIZE)
      BY <1>2 DEF DSIZE
    <3> QED BY <3>1 DEF asizeOf, DSIZE
  <2> HIDE DEF q
  <2> QED BY <1>2, <2>1, <2>2 DEF DSIZE, SIZE_WRAP, INT_MAX
<1> QED BY <1>1, <1>2

(* No block is free and allocated.                                         *)
LEMMA FreeNotUsed ==
    ASSUME NEW h, NEW p \in Free(h)
    PROVE  p \notin Used(h) /\ p \in Blk(h) /\ p \in Addr /\ blk_start <= p /\ p # NULL
BY Numbers DEF Free, Used, Blk, NULL

(* A new allocated block at ptr with room for size bytes.                  *)
Allocated(h, g, ptr, size) ==
  /\ Becomes(h, g, {}, {ptr}) /\ ptr \notin Used(h) /\ ptr \in Addr /\ ptr # NULL
  /\ asizeOf(size) <= SizeOf(g, ptr)
  /\ StaysCoalesced(h, g)

(* Neither a free block nor the memory has room for a request.             *)
Refused(h, size) ==
  /\ \A p \in Free(h) : SizeOf(h, p) < asizeOf(size)
  /\ h.brk + Greater(asizeOf(size), CHUNKSIZE) > MAX_HEAP

(* mm_malloc makes one, or returns NULL and does nothing.                  *)
LEMMA Malloc ==
    ASSUME NEW h, IsHeap(h), Sound(h), NEW size \in Int, 1 <= size,
           NEW g, g = mm_malloc(h, size).heap, NEW ptr, ptr = mm_malloc(h, size).ptr
    PROVE  \/ ptr = NULL /\ g = h /\ Refused(h, size)
           \/ Allocated(h, g, ptr, size)
<1>1. PICK asize : asize = asizeOf(size)
  OBVIOUS
<1>2. asize \in Int /\ 2 <= asize /\ size # 0
  BY <1>1, AsizeOf
<1>3. PICK fit : fit = find_fit(h, asize)
  OBVIOUS
<1>4. CASE fit # NULL
  <2>1. mm_malloc(h, size) = [heap |-> place(h, fit, asize), ptr |-> fit]
    BY <1>1, <1>2, <1>3, <1>4, Zenon DEF mm_malloc
  <2>2. g = place(h, fit, asize) /\ ptr = fit
    BY <2>1
  <2>3. fit \in Free(h) /\ SizeOf(h, fit) >= asize
    BY <1>2, <1>3, <1>4, FindFit
  <2>4. fit \in Addr /\ fit \notin Used(h)
    BY <2>3, FreeNotUsed
  <2>5. SizeOf(h, fit) \in Int
    BY <2>4, TagFields, Numbers
  <2>6. asize <= SizeOf(h, fit)
    BY <1>2, <2>3, <2>5
  <2>7. Becomes(h, g, {}, {fit}) /\ asize <= SizeOf(g, fit) /\ StaysCoalesced(h, g)
    BY <1>2, <2>2, <2>3, <2>6, Place, Zenon
  <2> QED BY <1>1, <1>4, <2>2, <2>4, <2>7 DEF Allocated
<1>5. CASE fit = NULL
  <2>1. PICK n : n = Greater(asize, CHUNKSIZE)
    OBVIOUS
  <2>2. n \in Int /\ n >= 2 /\ asize <= n
    BY <1>2, <2>1, HeapAssumption, Numbers DEF Greater
  <2>3. PICK m : m = extend_heap(h, n).heap
    OBVIOUS
  <2>4. PICK bp : bp = extend_heap(h, n).ptr
    OBVIOUS
  <2>5. CASE bp = NULL
    <3>1. mm_malloc(h, size) = [heap |-> h, ptr |-> NULL]
      BY <1>1, <1>2, <1>3, <1>5, <2>1, <2>4, <2>5, Zenon DEF mm_malloc
    <3>2. \A p \in Free(h) : SizeOf(h, p) < asize
      <4>1. \A p : p \in Free(h) => p # NULL
        BY Numbers DEF Free, Blk, NULL
      <4>2. fit \in Free(h) \/ \A p \in Free(h) : SizeOf(h, p) < asize
        BY <1>2, <1>3, FindFit
      <4> QED BY <1>5, <4>1, <4>2
    <3>3. h.brk + n > MAX_HEAP
      <4>1. \/ h.brk + n > MAX_HEAP /\ m = h /\ bp = NULL
            \/ /\ h.brk + n <= MAX_HEAP
               /\ Becomes(h, m, {}, {}) /\ m.brk = h.brk + n
               /\ bp \in Free(m) /\ n <= SizeOf(m, bp) /\ StaysCoalesced(h, m)
        BY <2>2, <2>3, <2>4, Extend
      <4>2. \A k : k \in Free(m) => k # NULL
        BY Numbers DEF Free, Blk, NULL
      <4> QED BY <2>5, <4>1, <4>2
    <3> QED BY <1>1, <2>1, <3>1, <3>2, <3>3 DEF Refused
  <2>6. CASE bp # NULL
    <3>1. mm_malloc(h, size) = [heap |-> place(m, bp, asize), ptr |-> bp]
      BY <1>1, <1>2, <1>3, <1>5, <2>1, <2>3, <2>4, <2>6, Zenon DEF mm_malloc
    <3>2. g = place(m, bp, asize) /\ ptr = bp
      BY <3>1
    <3>3. Becomes(h, m, {}, {}) /\ bp \in Free(m) /\ n <= SizeOf(m, bp) /\ StaysCoalesced(h, m)
      <4>1. \/ h.brk + n > MAX_HEAP /\ m = h /\ bp = NULL
            \/ /\ h.brk + n <= MAX_HEAP
               /\ Becomes(h, m, {}, {}) /\ m.brk = h.brk + n
               /\ bp \in Free(m) /\ n <= SizeOf(m, bp) /\ StaysCoalesced(h, m)
        BY <2>2, <2>3, <2>4, Extend
      <4> QED BY <2>6, <4>1
    <3>4. IsHeap(m) /\ Sound(m) /\ Used(m) = Used(h)
      BY <3>3 DEF Becomes
    <3>5. bp \in Addr /\ bp \notin Used(h)
      BY <3>3, <3>4, FreeNotUsed
    <3>6. asize <= SizeOf(m, bp)
      <4>1. SizeOf(m, bp) \in Int
        BY <3>4, <3>5, TagFields, Numbers
      <4> QED BY <1>2, <2>2, <3>3, <4>1
    <3>7. Becomes(m, g, {}, {bp}) /\ asize <= SizeOf(g, bp) /\ StaysCoalesced(m, g)
      BY <1>2, <3>2, <3>3, <3>4, <3>6, Place, Zenon
    <3>8. Becomes(h, g, {}, {bp})
      BY <3>3, <3>7, BecomesAfter, Zenon
    <3>9. StaysCoalesced(h, g)
      BY <3>3, <3>7 DEF StaysCoalesced
    <3> QED BY <1>1, <2>6, <3>2, <3>5, <3>7, <3>8, <3>9 DEF Allocated
  <2> QED BY <2>5, <2>6
<1> QED BY <1>4, <1>5

(* The blocks up to the next one are the block itself.                     *)
LEMMA OneBlock ==
    ASSUME NEW h, IsHeap(h), Tiling(h), NEW s \in Blk(h), NEW e, e = s + SizeOf(h, s)
    PROVE  /\ s \in Edge(h) /\ e \in Edge(h) /\ s \in Int /\ e \in Int /\ s + 2 <= e
           /\ SizeOf(h, s) = e - s
           /\ \A p \in Blk(h) : (p \in Within(s, e) <=> p = s) /\ (p # s <=> p < s \/ p >= e)
<1>1. /\ s \in Edge(h) /\ e \in Edge(h) /\ s \in Int /\ SizeOf(h, s) \in Int /\ SizeOf(h, s) >= 2
      /\ e \in Int
  BY BlockFacts, Numbers DEF Edge
<1>2. SizeOf(h, s) = e - s /\ s + 2 <= e
  BY <1>1
<1>3. ASSUME NEW p \in Blk(h)
      PROVE  (p \in Within(s, e) <=> p = s) /\ (p # s <=> p < s \/ p >= e)
  <2>1. p \in Int /\ p \in Edge(h) /\ p \in Addr
    BY BlockFacts DEF Edge
  <2>2. s < p => e <= p
    BY <2>1, Apart
  <2> QED BY <1>1, <1>2, <2>1, <2>2 DEF Within
<1> QED BY <1>1, <1>2, <1>3

(* mm_free makes an allocated block a free one.                            *)
LEMMA MmFree ==
    ASSUME NEW h, IsHeap(h), Sound(h), NEW bp \in Used(h), NEW g, g = mm_free(h, bp)
    PROVE  Becomes(h, g, {bp}, {}) /\ g.brk = h.brk /\ StaysCoalesced(h, g)
<1>1. Tiling(h) /\ Holds(h, Free(h))
  BY DEF Sound
<1>2. bp \in Blk(h) /\ IsAlloc(h, bp) /\ bp # NULL /\ bp \notin Free(h)
  BY Numbers DEF Used, Free, Blk, NULL
<1>3. PICK e : e = bp + SizeOf(h, bp)
  OBVIOUS
<1>4. /\ bp \in Edge(h) /\ e \in Edge(h) /\ bp + 2 <= e /\ SizeOf(h, bp) = e - bp
      /\ \A p \in Blk(h) : (p \in Within(bp, e) <=> p = bp) /\ (p # bp <=> p < bp \/ p >= e)
  BY <1>1, <1>2, <1>3, OneBlock
<1>5. PICK k : k = insert_free_block(PutTags(h, bp, e - bp, FALSE), bp)
  OBVIOUS
<1>6. g = coalesce(k, bp).heap
  BY <1>2, <1>4, <1>5, Zenon DEF mm_free
<1>7. Free(h) \subseteq Free(h) /\ \A p \in Free(h) : p \in Free(h) <=> p < bp \/ p >= e
  <2>1. \A p \in Free(h) : p \in Blk(h)
    BY DEF Free
  <2> QED BY <1>2, <1>4, <2>1
<1>8. Becomes(h, k, Within(bp, e), {}) /\ Merged(h, k, bp, e)
  BY <1>1, <1>4, <1>5, <1>7, NewFree, Zenon
<1>9. \A p \in Used(h) : p \in Within(bp, e) <=> p \in {bp}
  BY <1>4 DEF Used
<1>10. Becomes(h, k, {bp}, {})
  <2>1. SameTags(h, h) /\ h.data = h.data
    BY DEF SameTags
  <2> QED BY <1>8, <1>9, <2>1, BecomesFrom, Zenon
<1>11. k.brk = h.brk /\ bp \in Free(k)
  BY <1>8 DEF Merged
<1>12. Becomes(k, g, {}, {}) /\ g.brk = k.brk /\ (Alone(k, {bp}) => Alone(g, {}))
  <2>1. IsHeap(k) /\ Sound(k)
    BY <1>10 DEF Becomes
  <2>2. PICK ptr : ptr = coalesce(k, bp).ptr
    OBVIOUS
  <2> QED BY <1>6, <1>11, <2>1, <2>2, Coalesce, ZenonT(30)
<1>13. Becomes(h, g, {bp}, {})
  BY <1>10, <1>12, BecomesThrough, Zenon
<1>14. StaysCoalesced(h, g)
  <2>1. Alone(h, {}) => Alone(h, Within(bp, e))
    BY AloneMore
  <2>2. Alone(h, Within(bp, e)) => Alone(k, {bp})
    BY <1>8 DEF Merged
  <2> QED BY <1>12, <2>1, <2>2 DEF StaysCoalesced
<1> QED BY <1>11, <1>12, <1>13, <1>14

-----------------------------------------------------------------------------
(* mm_realloc.                                                             *)

(* The block at new has what a request of size keeps of the one at old.    *)
Carried(h, g, old, new, size) ==
  \A k \in Nat : DSIZE * k < size /\ k + 2 <= SizeOf(h, old) => g.data[new + k] = h.data[old + k]

(* CopyPayload does that and writes nothing but the new payload.           *)
Copied(h, c, from, to, size) ==
  /\ IsHeap(c) /\ SameTags(h, c) /\ c.lists = h.lists
  /\ Carried(h, c, from, to, size)
  /\ \A a \in -1 .. MAX_HEAP :
       a < to \/ a > to + SizeOf(h, from) - 2 \/ a > to + asizeOf(size) - 2 => c.data[a] = h.data[a]

(* The copy of realloc moves the payload word by word.                     *)
LEMMA Copy ==
    ASSUME NEW h, IsHeap(h), NEW from \in Addr, NEW to \in Addr, NEW size \in Int, 1 <= size,
           2 <= SizeOf(h, from), to + SizeOf(h, from) <= MAX_HEAP
    PROVE  Copied(h, CopyPayload(h, from, to, size), from, to, size)
<1>1. PICK n : n = SizeOf(h, from)
  OBVIOUS
<1>2. n \in Int /\ 2 <= n /\ to \in Int /\ from \in Int /\ 0 <= to
  BY <1>1, TagFields, Numbers
<1>3. PICK bytes : bytes = Lesser(DSIZE * n - DSIZE, size)
  OBVIOUS
<1>4. PICK units : units = (bytes + DSIZE - 1) \div DSIZE
  OBVIOUS
<1>5. /\ bytes \in Int /\ bytes <= 8 * n - 8 /\ bytes <= size
      /\ bytes = size \/ bytes = 8 * n - 8
  BY <1>2, <1>3 DEF Lesser, DSIZE
<1>6. units \in Int /\ 8 * units <= bytes + 7 /\ bytes + 7 < 8 * units + 8
  <2>1. units = (bytes + 7) \div 8
    <3>1. bytes + DSIZE - 1 = bytes + 7
      BY <1>5 DEF DSIZE
    <3> QED BY <1>4, <3>1 DEF DSIZE
  <2> QED BY <1>5, <2>1
<1>7. units <= n - 1
  BY <1>2, <1>5, <1>6
<1>8. units <= asizeOf(size) - 1
  <2>1. asizeOf(size) \in Int /\ size <= 8 * asizeOf(size) - 8
    BY AsizeOf DEF DSIZE
  <2> QED BY <1>5, <1>6, <2>1
<1>9. \A k \in Nat : 8 * k < size /\ k + 2 <= n => k < units
  BY <1>2, <1>5, <1>6
<1> DEFINE data == [a \in -1 .. MAX_HEAP |->
                     IF to <= a /\ a < to + units THEN h.data[from + a - to] ELSE h.data[a]]
<1>10. PICK c : c = CopyPayload(h, from, to, size)
  OBVIOUS
<1>11. c = [h EXCEPT !.data = data]
  <2>1. DOMAIN h.data = -1 .. MAX_HEAP
    BY DEF IsHeap
  <2> QED BY <1>1, <1>3, <1>4, <1>10, <2>1, Zenon DEF CopyPayload
<1>12. /\ data = [a \in -1 .. MAX_HEAP |-> data[a]]
       /\ \A a \in -1 .. MAX_HEAP : ~ (to <= a /\ a < to + units) => data[a] = h.data[a]
       /\ \A a \in -1 .. MAX_HEAP : to <= a /\ a < to + units => data[a] = h.data[from + a - to]
  OBVIOUS
<1> HIDE DEF data
<1>13. /\ c = [brk |-> h.brk, wrapped |-> h.wrapped, hdr |-> h.hdr, ftr |-> h.ftr,
               data |-> data, lists |-> h.lists]
  <2>1. h = [brk |-> h.brk, wrapped |-> h.wrapped, hdr |-> h.hdr, ftr |-> h.ftr,
             data |-> h.data, lists |-> h.lists]
    BY DEF IsHeap
  <2> QED BY <1>11, <2>1
<1>14. /\ c.brk = h.brk /\ c.wrapped = h.wrapped /\ c.hdr = h.hdr /\ c.ftr = h.ftr
       /\ c.data = data /\ c.lists = h.lists
  BY <1>13
<1>15. IsHeap(c)
  BY <1>12, <1>13, <1>14 DEF IsHeap
<1>16. Carried(h, c, from, to, size)
  <2> SUFFICES ASSUME NEW k \in Nat, DSIZE * k < size, k + 2 <= SizeOf(h, from)
               PROVE  c.data[to + k] = h.data[from + k]
    BY DEF Carried
  <2>1. k < units
    BY <1>1, <1>9 DEF DSIZE
  <2>2. /\ to + k \in -1 .. MAX_HEAP /\ to <= to + k /\ to + k < to + units
        /\ from + (to + k) - to = from + k
    <3>1. k + n + to <= MAX_HEAP + n
      BY <1>1, <1>2, Numbers
    <3> QED BY <1>1, <1>2, <1>6, <2>1, <3>1, Numbers
  <2>3. data[to + k] = h.data[from + (to + k) - to]
    BY <1>12, <2>2
  <2> QED BY <1>14, <2>2, <2>3
<1>17. \A a \in -1 .. MAX_HEAP :
         a < to \/ a > to + n - 2 \/ a > to + asizeOf(size) - 2 => ~ (to <= a /\ a < to + units)
  <2>1. asizeOf(size) \in Int
    BY AsizeOf
  <2>2. MAX_HEAP \in Int
    BY Numbers
  <2>3. \A a \in -1 .. MAX_HEAP : a \in Int
    BY <2>2
  <2> QED BY <1>2, <1>6, <1>7, <1>8, <2>1, <2>3
<1>18. \A a \in -1 .. MAX_HEAP :
         a < to \/ a > to + SizeOf(h, from) - 2 \/ a > to + asizeOf(size) - 2 => c.data[a] = h.data[a]
  BY <1>1, <1>12, <1>14, <1>17
<1>19. SameTags(h, c)
  BY <1>14 DEF SameTags
<1> QED BY <1>10, <1>14, <1>15, <1>16, <1>18, <1>19 DEF Copied

(* The block ptr takes the place of the block old and has room for size    *)
(* bytes and what they keep of the old payload.                            *)
Reallocated(h, g, old, ptr, size) ==
  /\ Becomes(h, g, {old}, {ptr}) /\ ptr \notin Used(h) \ {old} /\ ptr \in Addr /\ ptr # NULL
  /\ asizeOf(size) <= SizeOf(g, ptr)
  /\ Carried(h, g, old, ptr, size)

(* Other data may be lost in blocks that go.                               *)
LEMMA BecomesOver ==
    ASSUME NEW h, NEW d, SameTags(h, d), NEW g, NEW gone, NEW other, NEW new,
           Keeps(h, d, Used(h) \ gone), Becomes(d, g, other, new),
           \A p \in Used(h) : p \in other <=> p \in gone
    PROVE  Becomes(h, g, gone, new)
<1>1. /\ IsHeap(g) /\ Sound(g) /\ g.brk >= d.brk /\ g.wrapped = d.wrapped
      /\ Used(g) = (Used(d) \ other) \cup new
      /\ Keeps(d, g, Used(d) \ other)
  BY DEF Becomes
<1>2. Used(d) = Used(h) /\ d.brk = h.brk /\ d.wrapped = h.wrapped
  BY SameBlocks DEF SameTags
<1>3. Used(h) \ other = Used(h) \ gone
  OBVIOUS
<1>4. Keeps(d, g, Used(h) \ gone)
  BY <1>1, <1>2, <1>3
<1>5. Keeps(h, g, Used(h) \ gone)
  BY <1>4, KeepsOn, Zenon
<1> QED BY <1>1, <1>2, <1>3, <1>5, Zenon DEF Becomes

(* A request keeps a payload that ends before the last double word of its  *)
(* block.                                                                  *)
LEMMA CarriedInside ==
    ASSUME NEW size \in Int, 1 <= size, NEW k \in Nat, DSIZE * k < size
    PROVE  k <= asizeOf(size) - 2
<1>1. asizeOf(size) \in Int /\ size <= 8 * asizeOf(size) - 8
  BY AsizeOf DEF DSIZE
<1> QED BY <1>1 DEF DSIZE

(* What mm_realloc does once the payload is at s: the block takes the      *)
(* place of the blocks up to e, and what it does not need is split off.    *)
Refitted(h, c, old, s, e, F, size) ==
  /\ IsHeap(c) /\ SameTags(h, c) /\ Holds(c, F)
  /\ Keeps(h, c, Used(h) \ {old}) /\ Carried(h, c, old, s, size)
  /\ s \in Edge(h) /\ e \in Edge(h) /\ s + asizeOf(size) <= e
  /\ F \subseteq Free(h) /\ \A p \in Free(h) : p \in F <=> p < s \/ p >= e
  /\ \A p \in Used(h) : p \in Within(s, e) <=> p = old

Rewritten(c, g, s, m, e, size) ==
  \/ m = e /\ g = PutTags(c, s, e - s, TRUE)
  \/ /\ m = s + asizeOf(size) /\ m + 2 <= e
     /\ g = insert_free_block(PutTags(PutTags(c, s, m - s, TRUE), m, e - m, FALSE), m)

(* The end of mm_realloc: the span is tagged, split if there is a rest.    *)
LEMMA Refit ==
    ASSUME NEW h, IsHeap(h), Sound(h), NEW old \in Used(h), NEW size \in Int, 1 <= size,
           NEW c, NEW s, NEW e, NEW F, Refitted(h, c, old, s, e, F, size),
           NEW m, NEW g, Rewritten(c, g, s, m, e, size)
    PROVE  /\ Reallocated(h, g, old, s, size) /\ (m # e => m \in Free(g))
           /\ Alone(h, {}) => Alone(g, {m} \ {e})
<1>1. /\ IsHeap(c) /\ SameTags(h, c) /\ Holds(c, F)
      /\ Keeps(h, c, Used(h) \ {old}) /\ Carried(h, c, old, s, size)
      /\ s \in Edge(h) /\ e \in Edge(h) /\ s + asizeOf(size) <= e
      /\ F \subseteq Free(h) /\ \A p \in Free(h) : p \in F <=> p < s \/ p >= e
      /\ \A p \in Used(h) : p \in Within(s, e) <=> p = old
  BY DEF Refitted
<1>2. Tiling(h)
  BY DEF Sound
<1>3. s \in Addr /\ s \in Int /\ e \in Addr /\ e \in Int /\ blk_start <= s
  BY <1>1, <1>2, EdgeFacts
<1>4. asizeOf(size) \in Int /\ 2 <= asizeOf(size)
  BY AsizeOf
<1>5. Free(c) = Free(h) /\ Used(c) = Used(h) /\ Edge(c) = Edge(h) /\ Tiling(c)
  BY <1>1, <1>2, SameBlocks
<1>6. m \in Int /\ s + 2 <= e /\ s + asizeOf(size) <= m /\ m <= e
  <2>1. m = e \/ (m = s + asizeOf(size) /\ m + 2 <= e)
    BY Zenon DEF Rewritten
  <2>2. PICK n : n = asizeOf(size)
    OBVIOUS
  <2>3. n \in Int /\ 2 <= n /\ s + n <= e
    BY <1>1, <1>4, <2>2
  <2>4. CASE m = e
    BY <1>3, <2>2, <2>3, <2>4
  <2>5. CASE m = s + asizeOf(size) /\ m + 2 <= e
    BY <1>3, <2>2, <2>3, <2>5
  <2> QED BY <2>1, <2>4, <2>5
<1>7. F \subseteq Free(c) /\ \A p \in Free(c) : p \in F <=> p < s \/ p >= e
  BY <1>1, <1>5
<1>8. s \in Edge(c) /\ e \in Edge(c)
  BY <1>1, <1>5
<1>9. Becomes(c, g, Within(s, e), {s}) /\ Taken(c, g, s, m, e)
  <2>1. CASE m = e /\ g = PutTags(c, s, e - s, TRUE)
    <3>1. Becomes(c, g, Within(s, e), {s}) /\ Taken(c, g, s, e, e)
      BY <1>1, <1>5, <1>6, <1>7, <1>8, <2>1, NewUsed, Zenon
    <3> QED BY <2>1, <3>1
  <2>2. CASE /\ m = s + asizeOf(size) /\ m + 2 <= e
             /\ g = insert_free_block(PutTags(PutTags(c, s, m - s, TRUE), m, e - m, FALSE), m)
    <3>1. s + 2 <= m
      BY <1>3, <1>4, <2>2
    <3> QED BY <1>1, <1>5, <1>6, <1>7, <1>8, <2>2, <3>1, NewPart, Zenon
  <2> QED BY <2>1, <2>2, Zenon DEF Rewritten
<1>10. Becomes(h, g, {old}, {s})
  <2>1. \A p \in Used(h) : p \in Within(s, e) <=> p \in {old}
    BY <1>1
  <2> QED BY <1>1, <1>9, <2>1, BecomesOver, Zenon
<1>11. s \notin Used(h) \ {old}
  <2>1. s \in Within(s, e)
    BY <1>3, <1>6 DEF Within
  <2> QED BY <1>1, <2>1
<1>12. s # NULL
  BY <1>3, Numbers DEF NULL
<1>13. SizeOf(g, s) = m - s /\ (m # e => m \in Free(g))
  BY <1>3, <1>6, <1>9 DEF Taken
<1>14. asizeOf(size) <= SizeOf(g, s)
  BY <1>3, <1>4, <1>6, <1>13
<1>15. Carried(h, g, old, s, size)
  <2> SUFFICES ASSUME NEW k \in Nat, DSIZE * k < size, k + 2 <= SizeOf(h, old)
               PROVE  g.data[s + k] = h.data[old + k]
    BY DEF Carried
  <2>1. c.data[s + k] = h.data[old + k]
    BY <1>1 DEF Carried
  <2>2. k <= asizeOf(size) - 2
    BY CarriedInside
  <2>3. s + k \in -1 .. MAX_HEAP /\ s + k # s - 1 /\ s + k # m - 1 /\ s + k # e - 1 /\ s + k # m
    <3>1. s + k <= m - 2 /\ e <= MAX_HEAP /\ 0 <= s
      BY <1>3, <1>4, <1>6, <2>2, Numbers
    <3> QED BY <1>3, <1>6, <3>1, Numbers
  <2>4. g.data[s + k] = c.data[s + k]
    BY <1>9, <2>3 DEF Taken
  <2> QED BY <2>1, <2>4
<1>16. Alone(h, {}) => Alone(g, {m} \ {e})
  <2>1. Alone(h, {}) => Alone(h, Within(s, e))
    BY AloneMore
  <2>2. Alone(h, Within(s, e)) <=> Alone(c, Within(s, e))
    BY <1>1, SameAlone
  <2>3. Alone(c, Within(s, e)) => Alone(g, {m} \ {e})
    BY <1>9, Zenon DEF Taken
  <2> QED BY <2>1, <2>2, <2>3
<1> QED BY <1>3, <1>10, <1>11, <1>12, <1>13, <1>14, <1>15, <1>16 DEF Reallocated

(* Merging what was split off changes none of it.                          *)
LEMMA RefitOn ==
    ASSUME NEW h, IsHeap(h), NEW k, NEW old, NEW s, NEW size \in Int, 1 <= size,
           Reallocated(h, k, old, s, size),
           NEW m \in Free(k), NEW g, g = coalesce(k, m).heap
    PROVE  Reallocated(h, g, old, s, size) /\ (Alone(k, {m}) => Alone(g, {}))
<1>1. /\ Becomes(h, k, {old}, {s}) /\ s \notin Used(h) \ {old} /\ s \in Addr /\ s # NULL
      /\ asizeOf(size) <= SizeOf(k, s)
      /\ Carried(h, k, old, s, size)
  BY DEF Reallocated
<1>2. IsHeap(k) /\ Sound(k) /\ s \in Used(k)
  BY <1>1 DEF Becomes
<1>3. Becomes(k, g, {}, {}) /\ (Alone(k, {m}) => Alone(g, {}))
  <2>1. PICK ptr : ptr = coalesce(k, m).ptr
    OBVIOUS
  <2> QED BY <1>2, <2>1, Coalesce, Zenon
<1>4. Becomes(h, g, {old}, {s})
  BY <1>1, <1>3, BecomesThrough, Zenon
<1>5. Keeps(k, g, {s})
  <2>1. Keeps(k, g, Used(k) \ {})
    BY <1>3 DEF Becomes
  <2> QED BY <1>2, <2>1 DEF Keeps
<1>6. SizeOf(g, s) = SizeOf(k, s)
  BY <1>5 DEF Keeps, SizeOf
<1>7. Carried(h, g, old, s, size)
  <2> SUFFICES ASSUME NEW n \in Nat, DSIZE * n < size, n + 2 <= SizeOf(h, old)
               PROVE  g.data[s + n] = h.data[old + n]
    BY DEF Carried
  <2>1. k.data[s + n] = h.data[old + n]
    BY <1>1 DEF Carried
  <2>2. n <= asizeOf(size) - 2
    BY CarriedInside
  <2>3. /\ asizeOf(size) \in Int /\ SizeOf(k, s) \in Int /\ s \in Int /\ s + SizeOf(k, s) \in Addr
    <3>1. Tiling(k) /\ s \in Blk(k)
      BY <1>2 DEF Sound, Used
    <3> QED BY <1>2, <3>1, BlockFacts, AsizeOf
  <2>4. s + n \in Addr /\ s <= s + n /\ s + n <= s + SizeOf(k, s) - 2
    <3>1. \A a \in Addr : a <= MAX_HEAP /\ 0 <= a
      BY Numbers
    <3>2. s <= s + n /\ s + n <= s + SizeOf(k, s) - 2
      BY <1>1, <2>2, <2>3
    <3> QED BY <1>1, <2>3, <3>1, <3>2, Numbers DEF Addr
  <2>5. g.data[s + n] = k.data[s + n]
    BY <1>5, <2>4 DEF Keeps
  <2> QED BY <2>1, <2>5
<1> QED BY <1>1, <1>3, <1>4, <1>6, <1>7 DEF Reallocated

(* The three ways in which mm_realloc writes the tags of the block.        *)
LEMMA Resize ==
    ASSUME NEW h, IsHeap(h), Sound(h), NEW old \in Used(h), NEW size \in Int, 1 <= size,
           NEW c, NEW s, NEW e, NEW F, Refitted(h, c, old, s, e, F, size),
           NEW whole, whole = e - s, NEW asize, asize = asizeOf(size),
           NEW rest, rest = Difference(whole, asize)
    PROVE  /\ rest \in Int /\ rest = whole - asize
           /\ rest < MIN_BLK_SIZE =>
                /\ Reallocated(h, PutTags(c, s, whole, TRUE), old, s, size)
                /\ StaysCoalesced(h, PutTags(c, s, whole, TRUE))
           /\ rest >= MIN_BLK_SIZE =>
                /\ Reallocated(h, SplitOff(c, s, asize, rest), old, s, size)
                /\ Reallocated(h, coalesce(SplitOff(c, s, asize, rest), s + asize).heap, old, s, size)
                /\ StaysCoalesced(h, coalesce(SplitOff(c, s, asize, rest), s + asize).heap)
<1>1. s \in Edge(h) /\ e \in Edge(h) /\ s + asize <= e
  BY DEF Refitted
<1>2. s \in Addr /\ s \in Int /\ e \in Addr /\ e \in Int /\ e <= MAX_HEAP /\ 0 <= s
  <2>1. Tiling(h)
    BY DEF Sound
  <2>2. s \in Addr /\ e \in Addr
    BY <1>1, <2>1, EdgeFacts
  <2> QED BY <2>2, Numbers
<1>3. asize \in Int /\ 2 <= asize
  BY AsizeOf
<1>4. whole \in Int /\ asize <= whole /\ whole <= MAX_HEAP
  BY <1>1, <1>2, <1>3, Numbers
<1>5. rest = whole - asize /\ rest \in Int
  BY <1>3, <1>4, DifferenceOf
<1>6. ASSUME rest < MIN_BLK_SIZE
      PROVE  /\ Reallocated(h, PutTags(c, s, whole, TRUE), old, s, size)
             /\ StaysCoalesced(h, PutTags(c, s, whole, TRUE))
  <2>1. PICK g : g = PutTags(c, s, e - s, TRUE)
    OBVIOUS
  <2>2. Rewritten(c, g, s, e, e, size)
    BY <2>1 DEF Rewritten
  <2>3. Reallocated(h, g, old, s, size) /\ (Alone(h, {}) => Alone(g, {e} \ {e}))
    BY <2>2, Refit, Zenon
  <2>4. {e} \ {e} = {}
    OBVIOUS
  <2>5. StaysCoalesced(h, g)
    BY <2>3, <2>4, Zenon DEF StaysCoalesced
  <2> QED BY <2>1, <2>3, <2>5
<1>7. ASSUME rest >= MIN_BLK_SIZE
      PROVE  /\ Reallocated(h, SplitOff(c, s, asize, rest), old, s, size)
             /\ Reallocated(h, coalesce(SplitOff(c, s, asize, rest), s + asize).heap, old, s, size)
             /\ StaysCoalesced(h, coalesce(SplitOff(c, s, asize, rest), s + asize).heap)
  <2>1. PICK m : m = s + asize
    OBVIOUS
  <2>2. m - s = asize /\ e - m = rest /\ m + 2 <= e /\ m # e
    BY <1>2, <1>3, <1>5, <1>7, <2>1, Numbers
  <2>3. PICK k : k = insert_free_block(PutTags(PutTags(c, s, m - s, TRUE), m, e - m, FALSE), m)
    OBVIOUS
  <2>4. Reallocated(h, k, old, s, size) /\ m \in Free(k) /\ (Alone(h, {}) => Alone(k, {m}))
    <3>1. m = s + asizeOf(size)
      BY <2>1
    <3>2. Rewritten(c, k, s, m, e, size)
      BY <2>2, <2>3, <3>1, Zenon DEF Rewritten
    <3>3. /\ Reallocated(h, k, old, s, size) /\ (m # e => m \in Free(k))
          /\ Alone(h, {}) => Alone(k, {m} \ {e})
      BY <3>2, Refit
    <3>4. {m} \ {e} \subseteq {m}
      OBVIOUS
    <3>5. Alone(k, {m} \ {e}) => Alone(k, {m})
      BY <3>4, AloneMore
    <3> QED BY <2>2, <3>3, <3>5
  <2>5. k = SplitOff(c, s, asize, rest)
    BY <2>1, <2>2, <2>3, Zenon DEF SplitOff
  <2>6. PICK g : g = coalesce(k, m).heap
    OBVIOUS
  <2>7. Reallocated(h, g, old, s, size) /\ (Alone(k, {m}) => Alone(g, {}))
    BY <2>4, <2>6, RefitOn, Zenon
  <2>8. StaysCoalesced(h, g)
    BY <2>4, <2>7 DEF StaysCoalesced
  <2> QED BY <2>1, <2>4, <2>5, <2>6, <2>7, <2>8, Zenon
<1> QED BY <1>5, <1>6, <1>7, Zenon

(* The blocks around an allocated one, and what becomes free for it.       *)
LEMMA Around ==
    ASSUME NEW h, IsHeap(h), Sound(h), NEW bp \in Used(h),
           NEW prev, prev = PREV_BLKP(h, bp), NEW next, next = NEXT_BLKP(h, bp)
    PROVE  /\ next = bp + SizeOf(h, bp)
           /\ bp \in Edge(h) /\ bp \in Blk(h) /\ bp \in Addr /\ bp \in Int
           /\ SizeOf(h, bp) \in Int /\ 2 <= SizeOf(h, bp)
           /\ next \in Edge(h) /\ next \in Int /\ next \in Addr
           /\ ~ IsAlloc(h, next) => /\ next \in Free(h) /\ next + SizeOf(h, next) \in Edge(h)
                                    /\ SizeOf(h, next) \in Int /\ 2 <= SizeOf(h, next)
           /\ ~ IsAlloc(h, prev) => /\ prev \in Free(h) /\ prev + SizeOf(h, prev) = bp
                                    /\ prev \in Edge(h) /\ prev \in Addr /\ prev \in Int
                                    /\ SizeOf(h, prev) \in Int /\ 2 <= SizeOf(h, prev)
           /\ \A p \in Blk(h) : /\ p \in Int /\ p \in Edge(h)
                                /\ \A q \in Blk(h) : p < q => p + SizeOf(h, p) <= q
<1>1. Tiling(h) /\ bp \in Blk(h)
  BY DEF Sound, Used
<1>2. \A p \in Blk(h) : /\ p \in Addr /\ p \in Int /\ p \in Edge(h)
                        /\ SizeOf(h, p) \in Int /\ 2 <= SizeOf(h, p) /\ p + SizeOf(h, p) \in Edge(h)
  BY <1>1, BlockFacts DEF Edge
<1>3. /\ next = bp + SizeOf(h, bp) /\ next \in Edge(h)
      /\ ~ IsAlloc(h, next) => next \in Free(h)
      /\ ~ IsAlloc(h, prev) => prev \in Free(h) /\ prev + SizeOf(h, prev) = bp
  BY <1>1, Neighbours
<1>4. next \in Int /\ next \in Addr
  BY <1>1, <1>3, EdgeFacts
<1>5. \A p \in Free(h) : p \in Blk(h)
  BY DEF Free
<1>6. \A p, q \in Blk(h) : p < q => p + SizeOf(h, p) <= q
  BY <1>1, Apart DEF Edge
<1> QED BY <1>1, <1>2, <1>3, <1>4, <1>5, <1>6

(* Case 1: the block is large enough.                                      *)
LEMMA Shrink ==
    ASSUME NEW h, IsHeap(h), Sound(h), NEW bp \in Used(h), NEW size \in Int, 1 <= size,
           asizeOf(size) <= SizeOf(h, bp),
           NEW g, g = ShrinkBlock(h, bp, asizeOf(size))
    PROVE  Reallocated(h, g, bp, bp, size) /\ StaysCoalesced(h, g)
<1>1. Tiling(h) /\ Holds(h, Free(h)) /\ bp \in Blk(h) /\ bp \notin Free(h)
  BY DEF Sound, Used, Free
<1>2. PICK e : e = bp + SizeOf(h, bp)
  OBVIOUS
<1>3. /\ bp \in Edge(h) /\ e \in Edge(h) /\ bp \in Int /\ e \in Int /\ SizeOf(h, bp) = e - bp
      /\ \A p \in Blk(h) : (p \in Within(bp, e) <=> p = bp) /\ (p # bp <=> p < bp \/ p >= e)
  BY <1>1, <1>2, OneBlock
<1>4. Carried(h, h, bp, bp, size) /\ Keeps(h, h, Used(h) \ {bp}) /\ SameTags(h, h)
  BY DEF Carried, Keeps, SameTags
<1>5. bp + asizeOf(size) <= e
  BY <1>3, AsizeOf
<1>6. /\ Free(h) \subseteq Free(h) /\ \A p \in Free(h) : p \in Free(h) <=> p < bp \/ p >= e
      /\ \A p \in Used(h) : p \in Within(bp, e) <=> p = bp
  <2>1. Free(h) \subseteq Blk(h) /\ Used(h) \subseteq Blk(h)
    BY DEF Free, Used
  <2> QED BY <1>1, <1>3, <2>1
<1>7. Refitted(h, h, bp, bp, e, Free(h), size)
  BY <1>1, <1>3, <1>4, <1>5, <1>6, Zenon DEF Refitted
<1>8. PICK asize : asize = asizeOf(size)
  OBVIOUS
<1>9. PICK rest : rest = Difference(e - bp, asize)
  OBVIOUS
<1>10. /\ rest \in Int
       /\ rest >= MIN_BLK_SIZE =>
            /\ Reallocated(h, coalesce(SplitOff(h, bp, asize, rest), bp + asize).heap, bp, bp, size)
            /\ StaysCoalesced(h, coalesce(SplitOff(h, bp, asize, rest), bp + asize).heap)
  BY <1>7, <1>8, <1>9, Resize, Zenon
<1>11. CASE rest < MIN_BLK_SIZE
  <2>1. g = h
    BY <1>3, <1>8, <1>9, <1>11, Zenon DEF ShrinkBlock
  <2>2. Becomes(h, h, {bp}, {bp})
    <3>1. h.brk >= h.brk
      BY Numbers DEF IsHeap
    <3>2. Used(h) = (Used(h) \ {bp}) \cup {bp}
      OBVIOUS
    <3> QED BY <1>4, <3>1, <3>2 DEF Becomes
  <2>3. bp \in Addr /\ bp # NULL
    BY <1>1, Numbers DEF Blk, NULL
  <2> QED BY <1>4, <2>1, <2>2, <2>3 DEF Reallocated, StaysCoalesced
<1>12. CASE ~ (rest < MIN_BLK_SIZE)
  <2>1. g = coalesce(SplitOff(h, bp, asize, rest), bp + asize).heap
    BY <1>3, <1>8, <1>9, <1>12, Zenon DEF ShrinkBlock
  <2>2. rest >= MIN_BLK_SIZE
    BY <1>10, <1>12, Numbers
  <2> QED BY <1>10, <2>1, <2>2
<1> QED BY <1>11, <1>12

(* The heap is no heap any more; the payload has been carried.             *)
Misled(h, g, old, ptr, size) ==
  IsHeap(g) /\ g.wrapped /\ ptr \in Addr /\ ptr # NULL /\ Carried(h, g, old, ptr, size)

(* wrapped marks it and changes nothing else.                              *)
LEMMA Mislead ==
    ASSUME NEW h, NEW c, IsHeap(c), NEW old, NEW ptr, NEW size,
           ptr \in Addr, ptr # NULL, Carried(h, c, old, ptr, size),
           NEW g, g = [c EXCEPT !.wrapped = TRUE]
    PROVE  Misled(h, g, old, ptr, size)
<1>1. c = [brk |-> c.brk, wrapped |-> c.wrapped, hdr |-> c.hdr, ftr |-> c.ftr,
           data |-> c.data, lists |-> c.lists]
  BY DEF IsHeap
<1>2. g = [brk |-> c.brk, wrapped |-> TRUE, hdr |-> c.hdr, ftr |-> c.ftr,
           data |-> c.data, lists |-> c.lists]
  BY <1>1
<1>3. /\ g.brk = c.brk /\ g.wrapped = TRUE /\ g.hdr = c.hdr /\ g.ftr = c.ftr
      /\ g.data = c.data /\ g.lists = c.lists
  BY <1>2
<1>4. IsHeap(g)
  BY <1>2, <1>3 DEF IsHeap
<1>5. Carried(h, g, old, ptr, size)
  BY <1>3 DEF Carried
<1> QED BY <1>3, <1>4, <1>5 DEF Misled

(* What each way to reallocate ends in.                                    *)
Outcome(h, g, old, ptr, size) ==
  Reallocated(h, g, old, ptr, size) \/ Misled(h, g, old, ptr, size)

(* Case 2.1: the block grows into the next one.                            *)
LEMMA Grow ==
    ASSUME NEW h, IsHeap(h), Sound(h), NEW bp \in Used(h), NEW size \in Int, 1 <= size,
           ~ IsAlloc(h, NEXT_BLKP(h, bp)),
           NEW g, g = GrowIntoNext(h, bp, asizeOf(size))
    PROVE  Outcome(h, g, bp, bp, size) /\ (~ g.wrapped => StaysCoalesced(h, g))
<1>1. PICK next : next = NEXT_BLKP(h, bp)
  OBVIOUS
<1>2. PICK prev : prev = PREV_BLKP(h, bp)
  OBVIOUS
<1>3. /\ next = bp + SizeOf(h, bp)
      /\ bp \in Edge(h) /\ bp \in Blk(h) /\ bp \in Addr /\ bp \in Int
      /\ SizeOf(h, bp) \in Int /\ 2 <= SizeOf(h, bp) /\ next \in Int
      /\ next \in Free(h) /\ next + SizeOf(h, next) \in Edge(h)
      /\ SizeOf(h, next) \in Int /\ 2 <= SizeOf(h, next)
      /\ \A p \in Blk(h) : /\ p \in Int /\ p \in Edge(h)
                           /\ \A q \in Blk(h) : p < q => p + SizeOf(h, p) <= q
  BY <1>1, <1>2, Around
<1>4. PICK e : e = next + SizeOf(h, next)
  OBVIOUS
<1>5. PICK asize : asize = asizeOf(size)
  OBVIOUS
<1>6. PICK d : d = delete_free_block(h, next)
  OBVIOUS
<1>7. PICK F : F = Free(h) \ {next}
  OBVIOUS
<1>8. IsHeap(d) /\ SameTags(h, d) /\ d.data = h.data /\ Holds(d, F)
  <2>1. Holds(h, Free(h))
    BY DEF Sound
  <2> QED BY <1>6, <1>7, <2>1, Delete
<1>9. Carried(h, d, bp, bp, size) /\ Keeps(h, d, Used(h) \ {bp})
  BY <1>8 DEF Carried, Keeps, SameTags
<1>10. PICK whole : whole = SizeOf(h, bp) + SizeOf(h, next)
  OBVIOUS
<1>11. whole = e - bp /\ e \in Int /\ whole \in Int
  BY <1>3, <1>4, <1>10
<1>12. bp # NULL
  BY <1>3, Numbers DEF Blk, NULL
<1>13. CASE whole < asize
  <2>1. g = [h EXCEPT !.wrapped = TRUE]
    BY <1>1, <1>5, <1>10, <1>13, Zenon DEF GrowIntoNext
  <2>2. Carried(h, h, bp, bp, size)
    BY DEF Carried
  <2>3. Misled(h, g, bp, bp, size)
    BY <1>3, <1>12, <2>1, <2>2, Mislead, Zenon
  <2> QED BY <2>3 DEF Outcome, Misled
<1>14. CASE ~ (whole < asize)
  <2>1. bp + asizeOf(size) <= e
    BY <1>3, <1>5, <1>11, <1>14, AsizeOf
  <2>2. /\ F \subseteq Free(h) /\ \A p \in Free(h) : p \in F <=> p < bp \/ p >= e
        /\ \A p \in Used(h) : p \in Within(bp, e) <=> p = bp
    <3>1. \A p \in Blk(h) : p \in Addr /\ (bp <= p /\ p < e <=> p = bp \/ p = next)
      <4> SUFFICES ASSUME NEW p \in Blk(h)
                   PROVE  p \in Addr /\ (bp <= p /\ p < e <=> p = bp \/ p = next)
        OBVIOUS
      <4>1. p \in Int /\ (bp < p => next <= p) /\ (next < p => e <= p)
        BY <1>3, <1>4 DEF Free
      <4>2. p \in Addr
        BY DEF Blk
      <4> QED BY <1>3, <1>4, <4>1, <4>2
    <3>2. bp \notin Free(h) /\ next \notin Used(h)
      BY <1>3 DEF Free, Used
    <3>3. \A p \in Free(h) : p \in Blk(h)
      BY DEF Free
    <3>4. \A p \in Used(h) : p \in Blk(h)
      BY DEF Used
    <3>5. ASSUME NEW p \in Free(h)
          PROVE  p \in F <=> p < bp \/ p >= e
      <4>1. p \in F <=> ~ (bp <= p /\ p < e)
        BY <1>7, <3>1, <3>2, <3>3
      <4>2. p \in Int
        BY <1>3, <3>3
      <4> QED BY <1>3, <1>11, <4>1, <4>2
    <3>6. \A p \in Used(h) : p \in Within(bp, e) <=> p = bp
      BY <3>1, <3>2, <3>4 DEF Within
    <3> QED BY <1>7, <3>5, <3>6
  <2>3. Refitted(h, d, bp, bp, e, F, size)
    BY <1>3, <1>4, <1>8, <1>9, <2>1, <2>2, Zenon DEF Refitted
  <2>4. PICK rest : rest = Difference(whole, asize)
    OBVIOUS
  <2>5. /\ rest \in Int
        /\ rest < MIN_BLK_SIZE => /\ Reallocated(h, PutTags(d, bp, whole, TRUE), bp, bp, size)
                                  /\ StaysCoalesced(h, PutTags(d, bp, whole, TRUE))
        /\ rest >= MIN_BLK_SIZE =>
             /\ Reallocated(h, coalesce(SplitOff(d, bp, asize, rest), bp + asize).heap, bp, bp, size)
             /\ StaysCoalesced(h, coalesce(SplitOff(d, bp, asize, rest), bp + asize).heap)
    BY <1>5, <1>11, <2>3, <2>4, Resize, ZenonT(30)
  <2>6. CASE rest >= MIN_BLK_SIZE
    <3>1. g = coalesce(SplitOff(d, bp, asize, rest), bp + asize).heap
      BY <1>1, <1>5, <1>6, <1>10, <1>14, <2>4, <2>6, Zenon DEF GrowIntoNext
    <3> QED BY <2>5, <2>6, <3>1 DEF Outcome
  <2>7. CASE ~ (rest >= MIN_BLK_SIZE)
    <3>1. g = PutTags(d, bp, whole, TRUE)
      BY <1>1, <1>5, <1>6, <1>10, <1>14, <2>4, <2>7, Zenon DEF GrowIntoNext
    <3>2. rest < MIN_BLK_SIZE
      BY <2>5, <2>7, Numbers
    <3> QED BY <2>5, <3>1, <3>2 DEF Outcome
  <2> QED BY <2>6, <2>7
<1> QED BY <1>13, <1>14

(* The payload moves down into the previous block.                         *)
LEMMA MoveDown ==
    ASSUME NEW h, IsHeap(h), Sound(h), NEW bp \in Used(h), NEW size \in Int, 1 <= size,
           NEW prev, prev = PREV_BLKP(h, bp), ~ IsAlloc(h, prev),
           NEW F, NEW d, Relisted(h, d, F),
           NEW c, c = CopyPayload(d, bp, prev, size)
    PROVE  /\ IsHeap(c) /\ SameTags(h, c) /\ Holds(c, F)
           /\ Carried(h, c, bp, prev, size) /\ Keeps(h, c, Used(h) \ {bp})
<1>1. PICK next : next = NEXT_BLKP(h, bp)
  OBVIOUS
<1>2. /\ bp \in Edge(h) /\ bp \in Blk(h) /\ bp \in Addr /\ bp \in Int
      /\ SizeOf(h, bp) \in Int /\ 2 <= SizeOf(h, bp)
      /\ next = bp + SizeOf(h, bp) /\ next \in Addr
      /\ prev \in Free(h) /\ prev + SizeOf(h, prev) = bp /\ prev \in Addr /\ prev \in Int
      /\ SizeOf(h, prev) \in Int /\ 2 <= SizeOf(h, prev)
      /\ \A p \in Blk(h) : /\ p \in Int
                           /\ \A q \in Blk(h) : p < q => p + SizeOf(h, p) <= q
  BY <1>1, Around
<1>3. IsHeap(d) /\ SameTags(h, d) /\ d.data = h.data /\ Holds(d, F)
  BY DEF Relisted
<1>4. SizeOf(d, bp) = SizeOf(h, bp)
  BY <1>3 DEF SameTags, SizeOf
<1>5. Copied(d, c, bp, prev, size)
  <2>1. 2 <= SizeOf(d, bp) /\ prev + SizeOf(d, bp) <= MAX_HEAP
    BY <1>2, <1>4, Numbers
  <2> QED BY <1>2, <1>3, <2>1, Copy
<1>6. /\ IsHeap(c) /\ SameTags(d, c) /\ c.lists = d.lists
      /\ Carried(d, c, bp, prev, size)
      /\ \A a \in -1 .. MAX_HEAP :
           a < prev \/ a > prev + SizeOf(h, bp) - 2 => c.data[a] = h.data[a]
  BY <1>3, <1>4, <1>5 DEF Copied
<1>7. SameTags(h, c) /\ c.hdr = h.hdr
  BY <1>3, <1>6 DEF SameTags
<1>8. Holds(c, F)
  <2>1. SameFree(d, c, F)
    BY <1>6 DEF SameFree, SameTags
  <2> QED BY <1>3, <2>1, HoldsOn, Zenon
<1>9. Carried(h, c, bp, prev, size)
  BY <1>3, <1>4, <1>6 DEF Carried
<1>10. Keeps(h, c, Used(h) \ {bp})
  <2> SUFFICES ASSUME NEW p \in Used(h), p # bp,
                      NEW a \in Addr, p <= a, a <= p + SizeOf(h, p) - 2
               PROVE  c.data[a] = h.data[a]
    BY <1>7 DEF Keeps
  <2>1. p \in Blk(h) /\ prev \in Blk(h) /\ p # prev
    BY <1>2 DEF Used, Free
  <2>2. SizeOf(h, p) \in Int
    BY <2>1, BlockFacts DEF Sound
  <2>3. a \in Int /\ a \in -1 .. MAX_HEAP
    BY Numbers, HeapAssumption DEF Addr
  <2>4. p \in Int /\ (p < prev => p + SizeOf(h, p) <= prev) /\ (prev < p => bp <= p)
        /\ (bp < p => bp + SizeOf(h, bp) <= p)
    BY <1>2, <2>1
  <2>5. a < prev \/ a > prev + SizeOf(h, bp) - 2
    BY <1>2, <2>1, <2>2, <2>3, <2>4
  <2> QED BY <1>6, <2>3, <2>5
<1> QED BY <1>6, <1>7, <1>8, <1>9, <1>10

(* Case 2.2: the previous block and the block become one.                  *)
LEMMA MovePrev ==
    ASSUME NEW h, IsHeap(h), Sound(h), NEW bp \in Used(h), NEW size \in Int, 1 <= size,
           NEW prev, prev = PREV_BLKP(h, bp), ~ IsAlloc(h, prev),
           NEW g, g = MoveIntoPrev(h, bp, asizeOf(size), size)
    PROVE  Outcome(h, g, bp, prev, size)
<1>1. PICK e : e = NEXT_BLKP(h, bp)
  OBVIOUS
<1>2. /\ bp \in Blk(h) /\ bp \in Int /\ SizeOf(h, bp) \in Int /\ 2 <= SizeOf(h, bp)
      /\ e = bp + SizeOf(h, bp) /\ e \in Edge(h) /\ e \in Int
      /\ prev \in Free(h) /\ prev + SizeOf(h, prev) = bp /\ prev \in Edge(h)
      /\ prev \in Addr /\ prev \in Int /\ SizeOf(h, prev) \in Int /\ 2 <= SizeOf(h, prev)
      /\ \A p \in Blk(h) : /\ p \in Int
                           /\ \A q \in Blk(h) : p < q => p + SizeOf(h, p) <= q
  BY <1>1, Around
<1>3. PICK asize : asize = asizeOf(size)
  OBVIOUS
<1>4. PICK d : d = delete_free_block(h, prev)
  OBVIOUS
<1>5. PICK F : F = Free(h) \ {prev}
  OBVIOUS
<1>6. Relisted(h, d, F)
  <2>1. Relisted(h, h, Free(h))
    BY DEF Relisted, SameTags, Sound
  <2> QED BY <1>4, <1>5, <2>1, Unlist
<1>7. PICK c : c = CopyPayload(d, bp, prev, size)
  OBVIOUS
<1>8. /\ IsHeap(c) /\ SameTags(h, c) /\ Holds(c, F)
      /\ Carried(h, c, bp, prev, size) /\ Keeps(h, c, Used(h) \ {bp})
  BY <1>6, <1>7, MoveDown, Zenon
<1>9. PICK whole : whole = SizeOf(h, bp) + SizeOf(h, prev)
  OBVIOUS
<1>10. whole = e - prev /\ whole \in Int
  BY <1>2, <1>9
<1>11. prev # NULL
  BY <1>2, FreeNotUsed
<1>12. CASE whole < asize
  <2>1. g = [c EXCEPT !.wrapped = TRUE]
    BY <1>3, <1>4, <1>7, <1>9, <1>12, Zenon DEF MoveIntoPrev
  <2>2. Misled(h, g, bp, prev, size)
    BY <1>2, <1>8, <1>11, <2>1, Mislead, Zenon
  <2> QED BY <2>2 DEF Outcome
<1>13. CASE ~ (whole < asize)
  <2>1. prev + asizeOf(size) <= e
    BY <1>2, <1>3, <1>10, <1>13, AsizeOf
  <2>2. /\ F \subseteq Free(h) /\ \A p \in Free(h) : p \in F <=> p < prev \/ p >= e
        /\ \A p \in Used(h) : p \in Within(prev, e) <=> p = bp
    <3>1. \A p \in Blk(h) : p \in Addr /\ (prev <= p /\ p < e <=> p = bp \/ p = prev)
      <4> SUFFICES ASSUME NEW p \in Blk(h)
                   PROVE  p \in Addr /\ (prev <= p /\ p < e <=> p = bp \/ p = prev)
        OBVIOUS
      <4>1. p \in Int /\ (prev < p => bp <= p) /\ (bp < p => e <= p)
        BY <1>2 DEF Free
      <4>2. p \in Addr
        BY DEF Blk
      <4> QED BY <1>2, <4>1, <4>2
    <3>2. bp \notin Free(h) /\ prev \notin Used(h)
      BY <1>2 DEF Free, Used
    <3>3. \A p \in Free(h) : p \in Blk(h)
      BY DEF Free
    <3>4. \A p \in Used(h) : p \in Blk(h)
      BY DEF Used
    <3>5. ASSUME NEW p \in Free(h)
          PROVE  p \in F <=> p < prev \/ p >= e
      <4>1. p \in F <=> ~ (prev <= p /\ p < e)
        BY <1>5, <3>1, <3>2, <3>3
      <4>2. p \in Int
        BY <1>2, <3>3
      <4> QED BY <1>2, <1>10, <4>1, <4>2
    <3>6. \A p \in Used(h) : p \in Within(prev, e) <=> p = bp
      BY <3>1, <3>2, <3>4 DEF Within
    <3> QED BY <1>5, <3>5, <3>6
  <2>3. Refitted(h, c, bp, prev, e, F, size)
    BY <1>2, <1>8, <2>1, <2>2, Zenon DEF Refitted
  <2>4. PICK rest : rest = Difference(whole, asize)
    OBVIOUS
  <2>5. /\ rest \in Int
        /\ rest < MIN_BLK_SIZE => Reallocated(h, PutTags(c, prev, whole, TRUE), bp, prev, size)
        /\ rest >= MIN_BLK_SIZE => Reallocated(h, SplitOff(c, prev, asize, rest), bp, prev, size)
    BY <1>3, <1>10, <2>3, <2>4, Resize, Zenon
  <2>6. CASE rest >= MIN_BLK_SIZE
    <3>1. g = SplitOff(c, prev, asize, rest)
      BY <1>3, <1>4, <1>7, <1>9, <1>13, <2>4, <2>6, Zenon DEF MoveIntoPrev
    <3> QED BY <2>5, <2>6, <3>1 DEF Outcome
  <2>7. CASE ~ (rest >= MIN_BLK_SIZE)
    <3>1. g = PutTags(c, prev, whole, TRUE)
      BY <1>3, <1>4, <1>7, <1>9, <1>13, <2>4, <2>7, Zenon DEF MoveIntoPrev
    <3>2. rest < MIN_BLK_SIZE
      BY <2>5, <2>7, Numbers
    <3> QED BY <2>5, <3>1, <3>2 DEF Outcome
  <2> QED BY <2>6, <2>7
<1> QED BY <1>12, <1>13

(* Case 2.3: both neighbours are needed.  mm_realloc comes here only when  *)
(* the block and the next one are as large as the request exactly, so the  *)
(* previous block is left over and the branch without a rest never taken.  *)
LEMMA MoveBoth ==
    ASSUME NEW h, IsHeap(h), Sound(h), NEW bp \in Used(h), NEW size \in Int, 1 <= size,
           NEW prev, prev = PREV_BLKP(h, bp), ~ IsAlloc(h, prev),
           NEW next, next = NEXT_BLKP(h, bp), ~ IsAlloc(h, next),
           asizeOf(size) <= SizeOf(h, bp) + SizeOf(h, next),
           NEW g, g = MoveIntoBoth(h, bp, asizeOf(size), size)
    PROVE  Outcome(h, g, bp, prev, size)
<1>1. /\ bp \in Blk(h) /\ bp \in Int /\ SizeOf(h, bp) \in Int /\ 2 <= SizeOf(h, bp)
      /\ next = bp + SizeOf(h, bp) /\ next \in Int
      /\ next \in Free(h) /\ next + SizeOf(h, next) \in Edge(h)
      /\ SizeOf(h, next) \in Int /\ 2 <= SizeOf(h, next)
      /\ prev \in Free(h) /\ prev + SizeOf(h, prev) = bp /\ prev \in Edge(h)
      /\ prev \in Addr /\ prev \in Int /\ SizeOf(h, prev) \in Int /\ 2 <= SizeOf(h, prev)
      /\ \A p \in Blk(h) : /\ p \in Int
                           /\ \A q \in Blk(h) : p < q => p + SizeOf(h, p) <= q
  BY Around
<1>2. PICK e : e = next + SizeOf(h, next)
  OBVIOUS
<1>3. PICK asize : asize = asizeOf(size)
  OBVIOUS
<1>4. PICK d : d = delete_free_block(delete_free_block(h, prev), next)
  OBVIOUS
<1>5. PICK F : F = (Free(h) \ {prev}) \ {next}
  OBVIOUS
<1>6. Relisted(h, d, F)
  <2>1. Relisted(h, h, Free(h))
    BY DEF Relisted, SameTags, Sound
  <2>2. Relisted(h, delete_free_block(h, prev), Free(h) \ {prev})
    BY <2>1, Unlist
  <2> QED BY <1>4, <1>5, <2>2, Unlist
<1>7. PICK c : c = CopyPayload(d, bp, prev, size)
  OBVIOUS
<1>8. /\ IsHeap(c) /\ SameTags(h, c) /\ Holds(c, F)
      /\ Carried(h, c, bp, prev, size) /\ Keeps(h, c, Used(h) \ {bp})
  BY <1>6, <1>7, MoveDown, Zenon
<1>9. PICK whole : whole = SizeOf(h, bp) + SizeOf(h, prev) + SizeOf(h, next)
  OBVIOUS
<1>10. /\ whole = e - prev /\ whole \in Int /\ e \in Int /\ e \in Edge(h)
       /\ asize + SizeOf(h, prev) <= whole /\ asize \in Int
  BY <1>1, <1>2, <1>3, <1>9, AsizeOf
<1>11. ~ (whole < asize)
  BY <1>1, <1>10
<1>12. prev + asizeOf(size) <= e
  BY <1>1, <1>3, <1>10
<1>13. /\ F \subseteq Free(h) /\ \A p \in Free(h) : p \in F <=> p < prev \/ p >= e
       /\ \A p \in Used(h) : p \in Within(prev, e) <=> p = bp
  <2>1. \A p \in Blk(h) : p \in Addr /\ (prev <= p /\ p < e <=> p = bp \/ p = prev \/ p = next)
    <3> SUFFICES ASSUME NEW p \in Blk(h)
                 PROVE  p \in Addr /\ (prev <= p /\ p < e <=> p = bp \/ p = prev \/ p = next)
      OBVIOUS
    <3>1. p \in Int /\ (prev < p => bp <= p) /\ (bp < p => next <= p) /\ (next < p => e <= p)
      BY <1>1, <1>2 DEF Free
    <3>2. p \in Addr
      BY DEF Blk
    <3> QED BY <1>1, <1>2, <3>1, <3>2
  <2>2. bp \notin Free(h) /\ prev \notin Used(h) /\ next \notin Used(h)
    BY <1>1 DEF Free, Used
  <2>3. \A p \in Free(h) : p \in Blk(h)
    BY DEF Free
  <2>4. \A p \in Used(h) : p \in Blk(h)
    BY DEF Used
  <2>5. ASSUME NEW p \in Free(h)
        PROVE  p \in F <=> p < prev \/ p >= e
    <3>1. p \in F <=> ~ (prev <= p /\ p < e)
      BY <1>5, <2>1, <2>2, <2>3
    <3>2. p \in Int
      BY <1>1, <2>3
    <3> QED BY <1>1, <1>10, <3>1, <3>2
  <2>6. \A p \in Used(h) : p \in Within(prev, e) <=> p = bp
    BY <2>1, <2>2, <2>4 DEF Within
  <2> QED BY <1>5, <2>5, <2>6
<1>14. Refitted(h, c, bp, prev, e, F, size)
  BY <1>1, <1>8, <1>10, <1>12, <1>13, Zenon DEF Refitted
<1>15. PICK rest : rest = Difference(whole, asize)
  OBVIOUS
<1>16. /\ rest \in Int
       /\ rest >= MIN_BLK_SIZE => Reallocated(h, SplitOff(c, prev, asize, rest), bp, prev, size)
  <2>1. whole = e - prev
    BY <1>10
  <2> QED BY <1>3, <1>14, <1>15, <2>1, Resize, Zenon
<1>17. rest >= MIN_BLK_SIZE
  <2>1. rest = whole - asize
    <3>1. 0 <= asize /\ asize <= whole /\ whole <= MAX_HEAP
      <4>1. Edge(h) \subseteq Addr
        BY EdgeFacts DEF Sound
      <4> QED BY <1>1, <1>3, <1>10, <1>11, <4>1, AsizeOf, Numbers
    <3> QED BY <1>10, <1>15, <3>1, DifferenceOf
  <2>2. rest >= SizeOf(h, prev)
    BY <1>1, <1>10, <2>1
  <2> QED BY <1>1, <1>16, <2>2, Numbers
<1>18. g = SplitOff(c, prev, asize, rest)
  BY <1>3, <1>4, <1>7, <1>9, <1>11, <1>15, <1>17, Zenon DEF MoveIntoBoth
<1> QED BY <1>16, <1>17, <1>18 DEF Outcome

(* Case 2.4: the payload moves to a new block.                             *)
LEMMA Away ==
    ASSUME NEW h, IsHeap(h), Sound(h), NEW bp \in Used(h), NEW size \in Int, 1 <= size,
           SizeOf(h, bp) < asizeOf(size),
           NEW g, g = MoveAway(h, bp, size).heap, NEW ptr, ptr = MoveAway(h, bp, size).ptr
    PROVE  \/ ptr = NULL /\ g = h /\ Refused(h, size)
           \/ Reallocated(h, g, bp, ptr, size) /\ StaysCoalesced(h, g)
<1>1. PICK m : m = mm_malloc(h, size).heap
  OBVIOUS
<1>2. PICK new : new = mm_malloc(h, size).ptr
  OBVIOUS
<1>3. (new = NULL /\ m = h /\ Refused(h, size)) \/ Allocated(h, m, new, size)
  BY <1>1, <1>2, Malloc
<1>4. CASE new = NULL
  <2>1. MoveAway(h, bp, size) = [heap |-> m, ptr |-> NULL]
    BY <1>1, <1>2, <1>4, Zenon DEF MoveAway
  <2>2. m = h /\ Refused(h, size)
    BY <1>3, <1>4 DEF Allocated
  <2> QED BY <2>1, <2>2
<1>5. CASE new # NULL
  <2>1. PICK c : c = CopyPayload(m, bp, new, size)
    OBVIOUS
  <2>2. PICK k : k = mm_free(c, bp)
    OBVIOUS
  <2>3. MoveAway(h, bp, size) = [heap |-> k, ptr |-> new]
    BY <1>1, <1>2, <1>5, <2>1, <2>2, Zenon DEF MoveAway
  <2>4. g = k /\ ptr = new
    BY <2>3
  <2>5. /\ Becomes(h, m, {}, {new}) /\ new \notin Used(h) /\ new \in Addr
        /\ asizeOf(size) <= SizeOf(m, new) /\ StaysCoalesced(h, m)
    BY <1>3, <1>5 DEF Allocated
  <2>6. /\ IsHeap(m) /\ Sound(m) /\ Tiling(m) /\ Holds(m, Free(m))
        /\ Used(m) = Used(h) \cup {new} /\ Keeps(h, m, Used(h)) /\ bp \in Used(m)
        /\ new \in Used(m) /\ bp # new
    <3>1. Used(h) \ {} = Used(h)
      OBVIOUS
    <3>2. Keeps(h, m, Used(h)) /\ Used(m) = Used(h) \cup {new} /\ IsHeap(m) /\ Sound(m)
      BY <2>5, <3>1 DEF Becomes
    <3> QED BY <2>5, <3>2 DEF Sound
  <2>7. SizeOf(m, bp) = SizeOf(h, bp)
    BY <2>6 DEF Keeps, SizeOf
  <2>8. \A p \in Used(m) : p \in Blk(m) /\ p \in Addr
    BY DEF Used, Blk
  <2>9. asizeOf(size) \in Int /\ 2 <= asizeOf(size)
    BY AsizeOf
  <2>10. /\ bp \in Addr /\ bp \in Int /\ SizeOf(m, bp) \in Int /\ 2 <= SizeOf(m, bp)
         /\ new \in Int /\ SizeOf(m, new) \in Int /\ new + SizeOf(m, new) \in Addr
         /\ bp + SizeOf(m, bp) \in Addr
    BY <2>6, <2>8, BlockFacts
  <2>11. Copied(m, c, bp, new, size)
    <3>1. new + SizeOf(m, bp) <= MAX_HEAP
      <4>1. SizeOf(m, bp) <= SizeOf(m, new)
        BY <2>5, <2>7, <2>9, <2>10
      <4> QED BY <2>10, <4>1, Numbers
    <3>2. Copied(m, CopyPayload(m, bp, new, size), bp, new, size)
      BY <2>5, <2>6, <2>10, <3>1, Copy
    <3> QED BY <2>1, <3>2
  <2>12. /\ IsHeap(c) /\ SameTags(m, c) /\ c.lists = m.lists /\ Carried(m, c, bp, new, size)
         /\ \A a \in -1 .. MAX_HEAP : a < new \/ a > new + SizeOf(m, bp) - 2 => c.data[a] = m.data[a]
    BY <2>11 DEF Copied
  <2>13. Sound(c) /\ Used(c) = Used(m) /\ c.brk = m.brk /\ c.wrapped = m.wrapped /\ c.hdr = m.hdr
    <3>1. SameFree(m, c, Free(m))
      BY <2>12 DEF SameFree, SameTags
    <3>2. Holds(c, Free(m))
      BY <2>6, <3>1, HoldsOn, Zenon
    <3>3. Tiling(c) /\ Used(c) = Used(m) /\ Free(c) = Free(m)
      BY <2>6, <2>12, SameBlocks
    <3> QED BY <2>12, <3>2, <3>3 DEF Sound, SameTags
  <2>14. Keeps(m, c, Used(m) \ {new})
    <3> SUFFICES ASSUME NEW p \in Used(m), p # new,
                        NEW a \in Addr, p <= a, a <= p + SizeOf(m, p) - 2
                 PROVE  c.data[a] = m.data[a]
      BY <2>13 DEF Keeps
    <3>1. p \in Blk(m) /\ new \in Blk(m) /\ new \in Edge(m) /\ p \in Edge(m)
      BY <2>6, <2>8 DEF Edge
    <3>2. SizeOf(m, p) \in Int /\ p \in Int
      BY <2>6, <3>1, BlockFacts
    <3>3. (p < new => p + SizeOf(m, p) <= new) /\ (new < p => new + SizeOf(m, new) <= p)
      BY <2>6, <3>1, Apart
    <3>4. a \in Int /\ a \in -1 .. MAX_HEAP
      BY Numbers, HeapAssumption DEF Addr
    <3>5. SizeOf(m, bp) <= SizeOf(m, new)
      BY <2>5, <2>7, <2>9, <2>10
    <3>6. a < new \/ a > new + SizeOf(m, bp) - 2
      BY <2>10, <3>2, <3>3, <3>4, <3>5
    <3> QED BY <2>12, <3>4, <3>6
  <2>15. Becomes(c, k, {bp}, {}) /\ k.brk = c.brk /\ StaysCoalesced(c, k)
    BY <2>2, <2>6, <2>12, <2>13, MmFree, Zenon
  <2>16. Becomes(m, c, {new}, {new})
    <3>1. Used(c) = (Used(m) \ {new}) \cup {new}
      BY <2>6, <2>13
    <3>2. c.brk >= m.brk
      BY <2>12, <2>13, Numbers DEF IsHeap
    <3> QED BY <2>12, <2>13, <2>14, <3>1, <3>2 DEF Becomes
  <2>17. /\ IsHeap(k) /\ Sound(k) /\ k.brk >= c.brk /\ k.wrapped = c.wrapped
         /\ Used(k) = (Used(m) \ {bp}) \cup {} /\ Keeps(c, k, Used(m) \ {bp})
    BY <2>13, <2>15 DEF Becomes
  <2>18. Keeps(h, k, Used(h) \ {bp})
    <3>1. Keeps(h, m, Used(h) \ {bp}) /\ Keeps(m, c, Used(h) \ {bp}) /\ Keeps(c, k, Used(h) \ {bp})
      BY <2>5, <2>6, <2>14, <2>17 DEF Keeps
    <3> QED BY <3>1, KeepsOn, Zenon
  <2>19. Becomes(h, k, {bp}, {new})
    <3>1. Used(k) = (Used(h) \ {bp}) \cup {new}
      BY <2>6, <2>17
    <3>2. k.brk >= h.brk
      BY <2>5, <2>12, <2>13, <2>15, Numbers DEF Becomes, IsHeap
    <3>3. k.wrapped = h.wrapped
      BY <2>5, <2>13, <2>17 DEF Becomes
    <3> QED BY <2>17, <2>18, <3>1, <3>2, <3>3 DEF Becomes
  <2>20. k.hdr[new] = c.hdr[new] /\ SizeOf(k, new) = SizeOf(m, new) /\ SizeOf(c, new) = SizeOf(m, new)
    BY <2>6, <2>13, <2>17 DEF Keeps, SizeOf
  <2>21. Carried(h, k, bp, new, size)
    <3> SUFFICES ASSUME NEW n \in Nat, DSIZE * n < size, n + 2 <= SizeOf(h, bp)
                 PROVE  k.data[new + n] = h.data[bp + n]
      BY DEF Carried
    <3>1. c.data[new + n] = m.data[bp + n]
      BY <2>7, <2>12 DEF Carried
    <3>2. SizeOf(m, bp) <= SizeOf(m, new) /\ n + 2 <= SizeOf(m, bp)
      BY <2>5, <2>7, <2>9, <2>10
    <3>3. new + n \in Addr /\ new <= new + n /\ new + n <= new + SizeOf(m, new) - 2
      BY <2>5, <2>10, <3>2, Numbers DEF Addr
    <3>4. bp + n \in Addr /\ bp <= bp + n /\ bp + n <= bp + SizeOf(h, bp) - 2
      BY <2>7, <2>10, <3>2, Numbers DEF Addr
    <3>5. k.data[new + n] = c.data[new + n]
      BY <2>6, <2>17, <2>20, <3>3 DEF Keeps
    <3>6. m.data[bp + n] = h.data[bp + n]
      BY <2>6, <3>4 DEF Keeps
    <3> QED BY <3>1, <3>5, <3>6
  <2>22. new \notin Used(h) \ {bp} /\ asizeOf(size) <= SizeOf(k, new)
    BY <2>5, <2>20
  <2>23. StaysCoalesced(h, k)
    <3>1. Alone(m, {}) <=> Alone(c, {})
      BY <2>12, SameAlone
    <3> QED BY <2>5, <2>15, <3>1 DEF StaysCoalesced
  <2> QED BY <1>5, <2>4, <2>5, <2>19, <2>21, <2>22, <2>23 DEF Reallocated
<1> QED BY <1>4, <1>5

(* No difference of sizes but that of equal ones wraps to 0.               *)
LEMMA NoDifference ==
    ASSUME NEW a \in Int, NEW b \in Int, 0 <= a, a < SIZE_WRAP, 0 <= b, b < SIZE_WRAP,
           ~ (Difference(a, b) > 0)
    PROVE  b <= a
<1>1. PICK d : d = a - b
  OBVIOUS
<1>2. d \in Int /\ -536870912 < d /\ d < 536870912 /\ ~ (d % 536870912 > 0)
  BY <1>1 DEF SIZE_WRAP, Difference
<1>3. ~ (d < 0)
  <2>1. \A n \in Int : -536870912 < n /\ n < 0 => n % 536870912 > 0
    OBVIOUS
  <2> QED BY <1>2, <2>1
<1> QED BY <1>1, <1>2, <1>3

(* mm_realloc.                                                             *)
LEMMA Realloc ==
    ASSUME NEW h, IsHeap(h), Sound(h), NEW bp \in Used(h),
           NEW size \in Int, 1 <= size, size <= INT_MAX,
           NEW g, g = mm_realloc(h, bp, size).heap, NEW ptr, ptr = mm_realloc(h, bp, size).ptr
    PROVE  \/ ptr = NULL /\ g = h /\ Refused(h, size)
           \/ /\ Outcome(h, g, bp, ptr, size)
              /\ ~ g.wrapped => ptr < bp \/ StaysCoalesced(h, g)
<1>1. PICK prev : prev = PREV_BLKP(h, bp)
  OBVIOUS
<1>2. PICK next : next = NEXT_BLKP(h, bp)
  OBVIOUS
<1>3. PICK asize : asize = asizeOf(size)
  OBVIOUS
<1>4. PICK own : own = SizeOf(h, bp)
  OBVIOUS
<1>5. PICK result : result = mm_realloc(h, bp, size)
  OBVIOUS
<1>6. g = result.heap /\ ptr = result.ptr
  BY <1>5
<1>7. /\ size # 0 /\ bp # NULL /\ asize \in Int /\ 2 <= asize /\ asize < SIZE_WRAP
      /\ own \in Int /\ 2 <= own
  <2>1. bp # NULL
    BY Numbers DEF Used, Blk, NULL
  <2>2. SizeOf(h, bp) \in Int /\ 2 <= SizeOf(h, bp)
    BY <1>1, <1>2, Around
  <2> QED BY <1>3, <1>4, <2>1, <2>2, AsizeOf
<1>10. ~ IsAlloc(h, prev) => prev < bp
  <2>1. /\ bp \in Int
        /\ ~ IsAlloc(h, prev) => /\ prev + SizeOf(h, prev) = bp /\ prev \in Int
                                 /\ SizeOf(h, prev) \in Int /\ 2 <= SizeOf(h, prev)
    BY <1>1, <1>2, Around
  <2> QED BY <2>1
<1>8. CASE own >= asize
  <2>1. result = [heap |-> ShrinkBlock(h, bp, asize), ptr |-> bp]
    BY <1>3, <1>4, <1>5, <1>7, <1>8, SMT DEF mm_realloc
  <2>2. g = ShrinkBlock(h, bp, asizeOf(size)) /\ ptr = bp
    BY <1>3, <1>6, <2>1
  <2>3. asizeOf(size) <= SizeOf(h, bp)
    BY <1>3, <1>4, <1>7, <1>8
  <2>4. Reallocated(h, g, bp, bp, size) /\ StaysCoalesced(h, g)
    BY <2>2, <2>3, Shrink
  <2> QED BY <2>2, <2>4 DEF Outcome
<1>9. ASSUME ~ (own >= asize)
      PROVE  \/ ptr = NULL /\ g = h /\ Refused(h, size)
             \/ /\ Outcome(h, g, bp, ptr, size)
                /\ ~ g.wrapped => ptr < bp \/ StaysCoalesced(h, g)
  <2>1. CASE ~ IsAlloc(h, next) /\ Difference(own + SizeOf(h, next), asize) > 0
    <3>1. result = [heap |-> GrowIntoNext(h, bp, asize), ptr |-> bp]
      BY <1>2, <1>3, <1>4, <1>5, <1>7, <1>9, <2>1, SMT DEF mm_realloc
    <3>2. g = GrowIntoNext(h, bp, asizeOf(size)) /\ ptr = bp
      BY <1>3, <1>6, <3>1
    <3> QED BY <1>2, <2>1, <3>2, Grow
  <2>2. ASSUME ~ (~ IsAlloc(h, next) /\ Difference(own + SizeOf(h, next), asize) > 0),
               ~ IsAlloc(h, prev) /\ Difference(own + SizeOf(h, prev), asize) > 0
        PROVE  Outcome(h, g, bp, ptr, size) /\ ptr < bp
    <3>1. result = [heap |-> MoveIntoPrev(h, bp, asize, size), ptr |-> prev]
      BY <1>1, <1>2, <1>3, <1>4, <1>5, <1>7, <1>9, <2>2, SMT DEF mm_realloc
    <3>2. g = MoveIntoPrev(h, bp, asizeOf(size), size) /\ ptr = prev
      BY <1>3, <1>6, <3>1
    <3> QED BY <1>1, <1>10, <2>2, <3>2, MovePrev
  <2>3. ASSUME ~ (~ IsAlloc(h, next) /\ Difference(own + SizeOf(h, next), asize) > 0),
               ~ (~ IsAlloc(h, prev) /\ Difference(own + SizeOf(h, prev), asize) > 0),
               ~ IsAlloc(h, prev) /\ ~ IsAlloc(h, next)
                 /\ Difference(own + SizeOf(h, prev) + SizeOf(h, next), asize) > 0
        PROVE  Outcome(h, g, bp, ptr, size) /\ ptr < bp
    <3>1. result = [heap |-> MoveIntoBoth(h, bp, asize, size), ptr |-> prev]
      BY <1>1, <1>2, <1>3, <1>4, <1>5, <1>7, <1>9, <2>3, SMT DEF mm_realloc
    <3>2. g = MoveIntoBoth(h, bp, asizeOf(size), size) /\ ptr = prev
      BY <1>3, <1>6, <3>1
    <3>3. asizeOf(size) <= SizeOf(h, bp) + SizeOf(h, next)
      <4>1. ~ (Difference(own + SizeOf(h, next), asize) > 0)
        BY <2>3
      <4>2. /\ SizeOf(h, next) \in Int /\ 2 <= SizeOf(h, next) /\ next = bp + own
            /\ bp \in Addr /\ next \in Int
            /\ next + SizeOf(h, next) \in Edge(h)
        BY <1>1, <1>2, <1>4, <2>3, Around
      <4>3. next + SizeOf(h, next) <= MAX_HEAP /\ 0 <= bp /\ bp \in Int
        BY <4>2, EdgeFacts, Numbers DEF Sound
      <4>4. PICK whole : whole = own + SizeOf(h, next)
        OBVIOUS
      <4>5. whole \in Int /\ 0 <= whole /\ whole < SIZE_WRAP
        <5>1. whole \in Int /\ 0 <= whole /\ whole <= MAX_HEAP
          BY <1>7, <4>2, <4>3, <4>4, Numbers
        <5>2. MAX_HEAP \in Int /\ MAX_HEAP < SIZE_WRAP /\ SIZE_WRAP \in Int
          BY HeapAssumption, Numbers DEF SIZE_WRAP
        <5> QED BY <5>1, <5>2
      <4>6. ~ (Difference(whole, asize) > 0)
        BY <4>1, <4>4, Zenon
      <4>7. asize <= whole
        <5>1. 0 <= asize
          BY <1>7
        <5> QED BY <1>7, <4>5, <4>6, <5>1, NoDifference, Zenon
      <4> QED BY <1>3, <1>4, <4>4, <4>7
    <3> QED BY <1>1, <1>2, <1>10, <2>3, <3>2, <3>3, MoveBoth
  <2>4. ASSUME ~ (~ IsAlloc(h, next) /\ Difference(own + SizeOf(h, next), asize) > 0),
               ~ (~ IsAlloc(h, prev) /\ Difference(own + SizeOf(h, prev), asize) > 0),
               ~ (~ IsAlloc(h, prev) /\ ~ IsAlloc(h, next)
                   /\ Difference(own + SizeOf(h, prev) + SizeOf(h, next), asize) > 0)
        PROVE  \/ ptr = NULL /\ g = h /\ Refused(h, size)
               \/ Outcome(h, g, bp, ptr, size) /\ StaysCoalesced(h, g)
    <3>1. result = MoveAway(h, bp, size)
      BY <1>1, <1>2, <1>3, <1>4, <1>5, <1>7, <1>9, <2>4, SMT DEF mm_realloc
    <3>2. SizeOf(h, bp) < asizeOf(size)
      BY <1>3, <1>4, <1>7, <1>9
    <3> QED BY <1>6, <3>1, <3>2, Away DEF Outcome
  <2> QED BY <2>1, <2>2, <2>3, <2>4
<1> QED BY <1>8, <1>9

-----------------------------------------------------------------------------
(* The walk of mm_check.                                                   *)

(* What the walk collects from each address on.                            *)
Walk(h, f) ==
  f = [p \in Addr |-> IF h.hdr[p] \in {Epilogue, NoTag} THEN {} ELSE {p} \cup f[NEXT_BLKP(h, p)]]

(* A block or the prologue, or the walk stops.                             *)
LEMMA WalkStep ==
    ASSUME NEW h, IsHeap(h), Tiling(h), NEW p \in Addr
    PROVE  /\ h.hdr[p] \notin {Epilogue, NoTag} <=> p \in Blk(h) \/ p = blk_start - 1
           /\ p \in Blk(h) => /\ NEXT_BLKP(h, p) \in Edge(h) /\ NEXT_BLKP(h, p) \in Addr
                              /\ p < NEXT_BLKP(h, p)
                              /\ \A q \in Blk(h) : p <= q <=> q = p \/ NEXT_BLKP(h, p) <= q
           /\ p = blk_start - 1 => NEXT_BLKP(h, p) = blk_start /\ p < blk_start /\ p \notin Blk(h)
<1>1. /\ h.brk \in Addr /\ h.brk \in Int /\ p \in Int /\ blk_start \in Int
      /\ Epilogue # NoTag /\ Epilogue.size = 0 /\ NoTag.size = 0
  BY Numbers DEF IsHeap, Epilogue, NoTag, PACK
<1>2. /\ h.hdr[h.brk] = Epilogue
      /\ p < blk_start - 1 \/ p > h.brk => h.hdr[p] = NoTag
      /\ h.hdr[blk_start - 1] = PACK(1, TRUE)
  BY DEF Tiling, Framed
<1>3. /\ PACK(1, TRUE).size = 1
      /\ PACK(1, TRUE) # Epilogue /\ PACK(1, TRUE) # NoTag
  BY DEF PACK, Epilogue, NoTag
<1>4. ASSUME p \in Blk(h)
      PROVE  /\ h.hdr[p] # Epilogue /\ h.hdr[p] # NoTag
             /\ NEXT_BLKP(h, p) \in Edge(h) /\ NEXT_BLKP(h, p) \in Addr
             /\ p < NEXT_BLKP(h, p)
             /\ \A q \in Blk(h) : p <= q <=> q = p \/ NEXT_BLKP(h, p) <= q
  <2>1. /\ h.hdr[p] # NoTag /\ SizeOf(h, p) \in Int /\ SizeOf(h, p) >= 2
        /\ NEXT_BLKP(h, p) = p + SizeOf(h, p) /\ p + SizeOf(h, p) \in Edge(h)
        /\ p + SizeOf(h, p) \in Addr
    BY <1>4, BlockFacts
  <2>2. h.hdr[p] # Epilogue
    BY <1>1, <2>1 DEF SizeOf
  <2>3. ASSUME NEW q \in Blk(h)
        PROVE  p <= q <=> q = p \/ p + SizeOf(h, p) <= q
    <3>1. q \in Int /\ q \in Edge(h)
      BY BlockFacts DEF Edge
    <3>2. p < q => p + SizeOf(h, p) <= q
      BY <1>4, <3>1, Apart
    <3> QED BY <1>1, <2>1, <3>1, <3>2
  <2>4. p < p + SizeOf(h, p)
    BY <1>1, <2>1
  <2> QED BY <2>1, <2>2, <2>3, <2>4
<1>5. h.hdr[p] # Epilogue /\ h.hdr[p] # NoTag => p \in Blk(h) \/ p = blk_start - 1
  BY <1>1, <1>2 DEF Blk
<1>6. ASSUME p = blk_start - 1
      PROVE  NEXT_BLKP(h, p) = blk_start /\ p < blk_start /\ p \notin Blk(h)
  <2>1. h.hdr[p].size = 1
    BY <1>2, <1>3, <1>6
  <2>2. p + 1 = blk_start /\ p < blk_start /\ ~ (blk_start <= p)
    BY <1>1, <1>6
  <2>3. NEXT_BLKP(h, p) = p + 1
    BY <2>1 DEF NEXT_BLKP
  <2> QED BY <2>2, <2>3 DEF Blk
<1> QED BY <1>2, <1>3, <1>4, <1>5, <1>6

(* It meets the blocks and no others.                                      *)
LEMMA BlocksAre ==
    ASSUME NEW h, IsHeap(h), Tiling(h)
    PROVE  Blocks(h) = Blk(h)
<1>1. Blocks(h) = (CHOOSE f : Walk(h, f))[blk_start]
  BY SMT DEF Blocks, Walk
<1> DEFINE From(p) == {q \in Blk(h) : p <= q}
           Met(p) == IF h.hdr[p] \in {Epilogue, NoTag} THEN {}
                     ELSE IF p = blk_start - 1 THEN {p} \cup Blk(h) ELSE From(p)
           F == [p \in Addr |-> Met(p)]
<1>2. /\ \A p \in Addr : p \in Int /\ 0 <= p /\ p <= MAX_HEAP
      /\ MAX_HEAP \in Int /\ blk_start \in Addr /\ blk_start \in Int
      /\ blk_start - 1 \in Addr
  BY Numbers
<1>3. \A p \in Blk(h) : p \in Addr /\ p \in Int /\ blk_start <= p
  BY BlockFacts
<1>4. From(blk_start) = Blk(h)
  BY <1>3
<1>5. ASSUME NEW p \in Edge(h)
      PROVE  Met(p) = From(p) /\ p \in Addr
  <2>1. p \in Addr /\ p \in Int /\ p <= h.brk /\ (p < h.brk => p \in Blk(h)) /\ blk_start <= p
    BY EdgeFacts
  <2>2. CASE p \in Blk(h)
    <3>1. h.hdr[p] \notin {Epilogue, NoTag} /\ (p = blk_start - 1 => p \notin Blk(h))
      BY <2>1, <2>2, WalkStep
    <3>2. Met(p) = From(p)
      BY <2>2, <3>1
    <3> QED BY <2>1, <3>2
  <2>3. CASE p \notin Blk(h)
    <3>1. p = h.brk
      BY <2>3 DEF Edge
    <3>2. h.hdr[p] = Epilogue
      BY <3>1 DEF Tiling, Framed
    <3>3. \A q \in Blk(h) : q \in Int /\ q < h.brk
      BY BlockFacts
    <3>4. From(p) = {}
      BY <2>1, <3>1, <3>3
    <3>5. Met(p) = {}
      BY <3>2
    <3> QED BY <2>1, <3>4, <3>5, Zenon
  <2> QED BY <2>2, <2>3
<1>6. blk_start \in Edge(h)
  BY DEF Tiling
<1>7. Walk(h, F)
  <2> SUFFICES ASSUME NEW p \in Addr
               PROVE  F[p] = IF h.hdr[p] \in {Epilogue, NoTag} THEN {}
                             ELSE {p} \cup F[NEXT_BLKP(h, p)]
    <3> HIDE DEF Met
    <3> QED BY DEF Walk
  <2> DEFINE q == NEXT_BLKP(h, p)
  <2>1. CASE p \in Blk(h)
    <3>1. /\ h.hdr[p] \notin {Epilogue, NoTag} /\ p \in Edge(h) /\ p # blk_start - 1
          /\ q \in Edge(h) /\ \A b \in Blk(h) : p <= b <=> b = p \/ q <= b
      BY <2>1, WalkStep DEF Edge
    <3>2. F[p] = From(p) /\ F[q] = From(q)
      <4>1. Met(p) = From(p) /\ Met(q) = From(q) /\ q \in Addr
        BY <1>5, <3>1
      <4> HIDE DEF Met, From, q
      <4> QED BY <4>1
    <3>3. From(p) = {p} \cup From(q)
      BY <2>1, <3>1
    <3> HIDE DEF F, From, q
    <3>4. F[p] = {p} \cup F[q]
      BY <3>2, <3>3
    <3> QED BY <3>1, <3>4 DEF q
  <2>2. CASE p = blk_start - 1
    <3>1. h.hdr[p] \notin {Epilogue, NoTag} /\ q = blk_start
      BY <2>2, WalkStep
    <3>2. F[q] = Blk(h)
      <4>1. Met(blk_start) = From(blk_start)
        BY <1>5, <1>6
      <4> HIDE DEF Met, From, q
      <4> QED BY <1>2, <1>4, <3>1, <4>1
    <3>3. F[p] = {p} \cup Blk(h)
      BY <2>2, <3>1
    <3> HIDE DEF F, q
    <3>4. F[p] = {p} \cup F[q]
      BY <3>2, <3>3
    <3> QED BY <3>1, <3>4 DEF q
  <2>3. CASE p \notin Blk(h) /\ p # blk_start - 1
    <3>1. h.hdr[p] \in {Epilogue, NoTag}
      BY <2>3, WalkStep
    <3>2. F[p] = {}
      BY <3>1
    <3> HIDE DEF F
    <3> QED BY <3>1, <3>2
  <2> QED BY <2>1, <2>2, <2>3
<1>8. F = [p \in Addr |-> F[p]]
  OBVIOUS
<1>9. F[blk_start] = Blk(h)
  <2>1. Met(blk_start) = Blk(h)
    BY <1>4, <1>5, <1>6
  <2> HIDE DEF Met
  <2> QED BY <1>2, <2>1
<1> HIDE DEF F
<1>10. ASSUME NEW f, Walk(h, f)
       PROVE  f = F
  <2>1. f = [p \in Addr |-> f[p]]
    BY <1>10 DEF Walk
  <2>2. \A p \in Addr : f[p] = F[p]
    <3> SUFFICES ASSUME NEW r \in Addr, f[r] # F[r]
                 PROVE  FALSE
      OBVIOUS
    <3> DEFINE S == {n \in Nat : \E p \in Addr : f[p] # F[p] /\ n = MAX_HEAP - p}
    <3>1. MAX_HEAP - r \in S
      BY <1>2
    <3>2. Min(S) \in S /\ \A k \in S : Min(S) <= k
      BY <3>1, LeastOfSet
    <3>3. PICK p \in Addr : f[p] # F[p] /\ Min(S) = MAX_HEAP - p
      BY <3>2
    <3>4. \A q \in Addr : p < q => f[q] = F[q]
      <4> SUFFICES ASSUME NEW q \in Addr, p < q, f[q] # F[q]
                   PROVE  FALSE
        OBVIOUS
      <4>1. MAX_HEAP - q \in S
        BY <1>2
      <4>2. Min(S) <= MAX_HEAP - q
        BY <3>2, <4>1
      <4> QED BY <1>2, <3>3, <4>2
    <3>5. /\ f[p] = IF h.hdr[p] \in {Epilogue, NoTag} THEN {} ELSE {p} \cup f[NEXT_BLKP(h, p)]
          /\ F[p] = IF h.hdr[p] \in {Epilogue, NoTag} THEN {} ELSE {p} \cup F[NEXT_BLKP(h, p)]
      BY <1>7, <1>10 DEF Walk
    <3>6. h.hdr[p] \notin {Epilogue, NoTag}
      BY <3>3, <3>5
    <3>7. NEXT_BLKP(h, p) \in Addr /\ p < NEXT_BLKP(h, p)
      BY <1>2, <3>6, WalkStep
    <3>8. f[NEXT_BLKP(h, p)] = F[NEXT_BLKP(h, p)]
      BY <3>4, <3>7
    <3> QED BY <3>3, <3>5, <3>6, <3>8
  <2> QED BY <1>8, <2>1, <2>2
<1>11. (CHOOSE f : Walk(h, f)) = F
  BY <1>7, <1>10
<1> QED BY <1>1, <1>9, <1>11

(* In an empty memory it meets none.                                       *)
LEMMA NoBlocks == Blocks(mem_reset_brk) = {}
<1>1. PICK h : h = mem_reset_brk
  OBVIOUS
<1>2. blk_start \in Addr /\ \A a \in Addr : h.hdr[a] = NoTag
  BY <1>1, ResetIsHeap, Numbers
<1>3. Blocks(h) = (CHOOSE f : Walk(h, f))[blk_start]
  BY SMT DEF Blocks, Walk
<1>4. \A f : Walk(h, f) => \A p \in Addr : f[p] = {}
  BY <1>2 DEF Walk
<1>5. \E f : Walk(h, f)
  <2>1. Walk(h, [p \in Addr |-> {}])
    BY <1>2 DEF Walk
  <2> QED BY <2>1
<1>6. Walk(h, CHOOSE f : Walk(h, f))
  BY <1>5
<1> QED BY <1>1, <1>2, <1>3, <1>4, <1>6

(* mm_check reports free blocks side by side when there are some.          *)
LEMMA ReportsPairs ==
    ASSUME NEW h, IsHeap(h), Tiling(h)
    PROVE  "contiguous" \in mm_check(h) <=> ~ Alone(h, {})
<1>1. Blocks(h) = Blk(h)
  BY BlocksAre
<1>2. "contiguous" \in mm_check(h)
        <=> \E p \in Blk(h) : ~ IsAlloc(h, p) /\ ~ IsAlloc(h, NEXT_BLKP(h, p))
  BY <1>1 DEF mm_check
<1>3. \A p \in Blk(h) : /\ NEXT_BLKP(h, p) = p + SizeOf(h, p)
                        /\ ~ IsAlloc(h, NEXT_BLKP(h, p)) => NEXT_BLKP(h, p) \in Free(h)
  BY Neighbours
<1> QED BY <1>2, <1>3 DEF Alone, Free

-----------------------------------------------------------------------------
(* The driver and its books.                                               *)

(* The allocated blocks of h are those of the indices in b, one each, and  *)
(* have room for what their sizes in z ask for.                            *)
Owned(h, b, z) ==
  /\ Used(h) = {b[i] : i \in {j \in Indices : b[j] # NULL}}
  /\ \A i, j \in Indices : b[i] # NULL /\ b[i] = b[j] => i = j
  /\ \A i \in Indices : b[i] # NULL => z[i] <= DSIZE * SizeOf(h, b[i]) - DSIZE

(* What the driver knows of them while it checks a trace.                  *)
Payloads(b, z) == {Payload(b[i], z[i]) : i \in {j \in Indices : b[j] # NULL}}

Written(h, b, z) == \A i \in Indices : b[i] # NULL => Preserved(h, i, b[i], z[i])

(* The bytes asked for, one by one.                                        *)
Asked(z) == UNION {{i} \X (1 .. z[i]) : i \in Indices}

Rejections == {"mm_malloc failed", "mm_realloc failed", "wrapped"}
Failures   == Rejections \cup {"mm_malloc error", "mm_realloc error"}

Types ==
  /\ IsHeap(heap)
  /\ phase \in {"valid", "util", "speed", "rejected", "exited"}
  /\ ranges \subseteq Ranges
  /\ blocks \in [Indices -> Addr] /\ block_sizes \in [Indices -> Nat]
  /\ total_size \in Nat /\ max_total_size \in Nat

Books ==
  /\ \A i \in Indices : phase \in {"valid", "util"} => (blocks[i] = NULL <=> block_sizes[i] = 0)
  /\ \A i \in Indices : phase = "speed" => block_sizes[i] = 0
  /\ Usable => Sound(heap) /\ Owned(heap, blocks, block_sizes)
  /\ phase = "valid" /\ ~heap.wrapped => /\ ranges = Payloads(blocks, block_sizes)
                                         /\ Written(heap, blocks, block_sizes)
  /\ phase = "util" => /\ IsFiniteSet(Asked(block_sizes))
                       /\ total_size = Cardinality(Asked(block_sizes))
  /\ phase = "util" /\ ~heap.wrapped => max_total_size <= DSIZE * heap.brk
  /\ phase = "rejected" => heap = mem_reset_brk
  /\ errors \subseteq Failures

IInv == Types /\ Books

-----------------------------------------------------------------------------
(* The driver's own writes to the heap.                                    *)

(* They change payload and nothing else.                                   *)
Painted(h, g) == IsHeap(g) /\ SameTags(h, g) /\ g.lists = h.lists

(* Writing payload words leaves the structure of the heap.                 *)
LEMMA Paint ==
    ASSUME NEW h, IsHeap(h), NEW d, d = [a \in -1 .. MAX_HEAP |-> d[a]],
           NEW g, g = [h EXCEPT !.data = d]
    PROVE  Painted(h, g) /\ g.data = d
<1>1. h = [brk |-> h.brk, wrapped |-> h.wrapped, hdr |-> h.hdr, ftr |-> h.ftr,
           data |-> h.data, lists |-> h.lists]
  BY DEF IsHeap
<1>2. g = [brk |-> h.brk, wrapped |-> h.wrapped, hdr |-> h.hdr, ftr |-> h.ftr,
           data |-> d, lists |-> h.lists]
  BY <1>1
<1>3. /\ g.brk = h.brk /\ g.wrapped = h.wrapped /\ g.hdr = h.hdr /\ g.ftr = h.ftr
      /\ g.data = d /\ g.lists = h.lists
  BY <1>2
<1>4. IsHeap(g)
  BY <1>2, <1>3 DEF IsHeap
<1> QED BY <1>3, <1>4 DEF Painted, SameTags

(* So the heap stays in order.                                             *)
LEMMA PaintedSound ==
    ASSUME NEW h, IsHeap(h), NEW g, Painted(h, g)
    PROVE  /\ IsHeap(g) /\ g.brk = h.brk /\ g.wrapped = h.wrapped
           /\ Used(g) = Used(h) /\ \A p \in Addr : SizeOf(g, p) = SizeOf(h, p)
           /\ Sound(h) => Sound(g)
<1>1. IsHeap(g) /\ SameTags(h, g) /\ g.lists = h.lists
  BY DEF Painted
<1>2. Used(g) = Used(h) /\ Free(g) = Free(h) /\ (Tiling(h) => Tiling(g))
  BY <1>1, SameBlocks
<1>3. g.hdr = h.hdr /\ g.brk = h.brk /\ g.wrapped = h.wrapped
  BY <1>1 DEF SameTags
<1>4. SameFree(h, g, Free(h))
  BY <1>1, <1>3 DEF SameFree
<1>5. Holds(h, Free(h)) => Holds(g, Free(g))
  BY <1>2, <1>4, HoldsOn
<1>6. \A p \in Addr : SizeOf(g, p) = SizeOf(h, p)
  BY <1>3 DEF SizeOf
<1> QED BY <1>1, <1>2, <1>3, <1>5, <1>6 DEF Sound

(* Two paintings in a row are one.                                         *)
LEMMA PaintedOn ==
    ASSUME NEW h, NEW f, NEW g, Painted(h, f), Painted(f, g)
    PROVE  Painted(h, g)
BY DEF Painted, SameTags

(* memset writes the index over the payload.                               *)
LEMMA Memset ==
    ASSUME NEW h, IsHeap(h), NEW i, NEW lo, NEW size, NEW g, g = memset(h, i, lo, size)
    PROVE  /\ Painted(h, g)
           /\ \A a \in -1 .. MAX_HEAP :
                /\ lo <= a /\ DSIZE * a < DSIZE * lo + size => g.data[a] = i
                /\ ~ (lo <= a /\ DSIZE * a < DSIZE * lo + size) => g.data[a] = h.data[a]
<1> DEFINE D(a) == IF lo <= a /\ DSIZE * a < DSIZE * lo + size THEN i ELSE h.data[a]
           d == [a \in -1 .. MAX_HEAP |-> D(a)]
<1>1. DOMAIN h.data = -1 .. MAX_HEAP
  BY DEF IsHeap
<1>2. g = [h EXCEPT !.data = d]
  BY <1>1, Zenon DEF memset
<1>3. \A a \in -1 .. MAX_HEAP :
        /\ lo <= a /\ DSIZE * a < DSIZE * lo + size => D(a) = i
        /\ ~ (lo <= a /\ DSIZE * a < DSIZE * lo + size) => D(a) = h.data[a]
  BY Zenon
<1> HIDE DEF D
<1>4. d = [a \in -1 .. MAX_HEAP |-> d[a]] /\ \A a \in -1 .. MAX_HEAP : d[a] = D(a)
  OBVIOUS
<1> HIDE DEF d
<1>5. Painted(h, g) /\ g.data = d
  BY <1>2, <1>4, Paint
<1> QED BY <1>3, <1>4, <1>5

(* What the driver knows of is not forgotten.                              *)
LEMMA SeenKeeps ==
    ASSUME NEW h, IsHeap(h), NEW used, NEW g, g = Seen(h, used)
    PROVE  /\ Painted(h, g)
           /\ \A a \in -1 .. MAX_HEAP : \A r \in used :
                r.lo <= DSIZE * a /\ DSIZE * a <= r.hi => g.data[a] = h.data[a]
<1> DEFINE D(a) == IF \E r \in used : r.lo <= DSIZE * a /\ DSIZE * a <= r.hi THEN h.data[a] ELSE Junk
           d == [a \in -1 .. MAX_HEAP |-> D(a)]
<1>1. DOMAIN h.data = -1 .. MAX_HEAP
  BY DEF IsHeap
<1>2. g = [h EXCEPT !.data = d]
  BY <1>1, Zenon DEF Seen
<1>3. \A a \in -1 .. MAX_HEAP : \A r \in used :
        r.lo <= DSIZE * a /\ DSIZE * a <= r.hi => D(a) = h.data[a]
  BY Zenon
<1> HIDE DEF D
<1>4. d = [a \in -1 .. MAX_HEAP |-> d[a]] /\ \A a \in -1 .. MAX_HEAP : d[a] = D(a)
  OBVIOUS
<1> HIDE DEF d
<1>5. Painted(h, g) /\ g.data = d
  BY <1>2, <1>4, Paint
<1> QED BY <1>3, <1>4, <1>5

-----------------------------------------------------------------------------
(* Whose a block is.                                                       *)

(* The heap and the driver's books after the block of i went, or another   *)
(* one at ptr took its place.                                              *)
Served(h, g, old, ptr, n) ==
  /\ IsHeap(g) /\ Sound(g) /\ g.brk >= h.brk
  /\ Used(g) = (Used(h) \ {old}) \cup ({ptr} \ {NULL})
  /\ \A p \in Used(h) \ {old} : p # ptr /\ SizeOf(g, p) = SizeOf(h, p)
  /\ ptr \in Addr /\ (ptr # NULL => n <= DSIZE * SizeOf(g, ptr) - DSIZE)

(* The driver's table after an answer still names the used blocks.         *)
LEMMA Handed ==
    ASSUME NEW h, NEW b \in [Indices -> Addr], NEW z \in [Indices -> Nat], Owned(h, b, z),
           NEW i \in Indices, NEW g, NEW ptr, NEW n \in Nat, Served(h, g, b[i], ptr, n)
    PROVE  Owned(g, [b EXCEPT ![i] = ptr], [z EXCEPT ![i] = n])
<1> DEFINE b2 == [b EXCEPT ![i] = ptr]
           z2 == [z EXCEPT ![i] = n]
<1>1. /\ b2[i] = ptr /\ z2[i] = n
      /\ \A j \in Indices : j # i => b2[j] = b[j] /\ z2[j] = z[j]
  OBVIOUS
<1> HIDE DEF b2, z2
<1>2. /\ Used(h) = {b[j] : j \in {k \in Indices : b[k] # NULL}}
      /\ \A j, k \in Indices : b[j] # NULL /\ b[j] = b[k] => j = k
      /\ \A j \in Indices : b[j] # NULL => z[j] <= DSIZE * SizeOf(h, b[j]) - DSIZE
  BY DEF Owned
<1>3. /\ Used(g) = (Used(h) \ {b[i]}) \cup ({ptr} \ {NULL})
      /\ \A p \in Used(h) \ {b[i]} : p # ptr /\ SizeOf(g, p) = SizeOf(h, p)
      /\ ptr # NULL => n <= DSIZE * SizeOf(g, ptr) - DSIZE
  BY DEF Served
<1>4. ASSUME NEW j \in Indices, j # i, b[j] # NULL
      PROVE  b[j] \in Used(h) \ {b[i]} /\ b[j] # ptr /\ SizeOf(g, b[j]) = SizeOf(h, b[j])
  <2>1. b[j] \in Used(h)
    BY <1>2, <1>4
  <2>2. b[j] # b[i]
    BY <1>2, <1>4
  <2> QED BY <1>3, <2>1, <2>2
<1>5. \A j \in Indices : j # i /\ b[j] # NULL => b[j] \in Used(g)
  BY <1>3, <1>4
<1>6. ptr # NULL => ptr \in Used(g)
  BY <1>3
<1>7. \A j \in Indices : b2[j] # NULL => b2[j] \in Used(g)
  BY <1>1, <1>5, <1>6
<1>8. ASSUME NEW p \in Used(g)
      PROVE  \E j \in Indices : b2[j] # NULL /\ b2[j] = p
  <2>1. CASE p \in Used(h) \ {b[i]}
    <3>1. PICK j \in Indices : b[j] # NULL /\ b[j] = p
      BY <1>2, <2>1
    <3>2. j # i
      BY <2>1, <3>1
    <3> QED BY <1>1, <3>1, <3>2
  <2>2. CASE p = ptr /\ ptr # NULL
    BY <1>1, <2>2
  <2> QED BY <1>3, <1>8, <2>1, <2>2
<1>9. Used(g) = {b2[j] : j \in {k \in Indices : b2[k] # NULL}}
  BY <1>7, <1>8
<1>10. \A j, k \in Indices : b2[j] # NULL /\ b2[j] = b2[k] => j = k
  <2> SUFFICES ASSUME NEW j \in Indices, NEW k \in Indices, b2[j] # NULL, b2[j] = b2[k], j # k
               PROVE  FALSE
    OBVIOUS
  <2>1. CASE j = i
    <3>1. b2[j] = ptr /\ b2[k] = b[k]
      BY <1>1, <2>1
    <3> QED BY <1>4, <2>1, <3>1
  <2>2. CASE k = i
    <3>1. b2[k] = ptr /\ b2[j] = b[j]
      BY <1>1, <2>2
    <3> QED BY <1>4, <2>2, <3>1
  <2>3. CASE j # i /\ k # i
    BY <1>1, <1>2, <2>3
  <2> QED BY <2>1, <2>2, <2>3
<1>11. \A j \in Indices : b2[j] # NULL => z2[j] <= DSIZE * SizeOf(g, b2[j]) - DSIZE
  <2> SUFFICES ASSUME NEW j \in Indices, b2[j] # NULL
               PROVE  z2[j] <= DSIZE * SizeOf(g, b2[j]) - DSIZE
    OBVIOUS
  <2>1. CASE j = i
    BY <1>1, <1>3, <2>1
  <2>2. CASE j # i
    <3>1. b2[j] = b[j] /\ z2[j] = z[j]
      BY <1>1, <2>2
    <3>2. SizeOf(g, b[j]) = SizeOf(h, b[j])
      BY <1>4, <2>2, <3>1
    <3> QED BY <1>2, <3>1, <3>2
  <2> QED BY <2>1, <2>2
<1>12. Owned(g, b2, z2)
  BY <1>9, <1>10, <1>11, Zenon DEF Owned
<1> QED BY <1>12 DEF b2, z2

(* mm_malloc, mm_realloc and mm_free serve.                                *)
LEMMA ServedPainted ==
    ASSUME NEW h, NEW f, NEW g, NEW old, NEW ptr, NEW n, Served(h, f, old, ptr, n), Painted(f, g)
    PROVE  Served(h, g, old, ptr, n)
<1>1. /\ IsHeap(f) /\ Sound(f) /\ f.brk >= h.brk
      /\ Used(f) = (Used(h) \ {old}) \cup ({ptr} \ {NULL})
      /\ \A p \in Used(h) \ {old} : p # ptr /\ SizeOf(f, p) = SizeOf(h, p)
      /\ ptr \in Addr /\ (ptr # NULL => n <= DSIZE * SizeOf(f, ptr) - DSIZE)
  BY DEF Served
<1>2. IsHeap(g) /\ Sound(g) /\ g.brk = f.brk /\ Used(g) = Used(f) /\ \A p \in Addr : SizeOf(g, p) = SizeOf(f, p)
  BY <1>1, PaintedSound
<1>3. \A p \in Used(h) \ {old} : p \in Addr
  BY DEF Used, Blk
<1> QED BY <1>1, <1>2, <1>3 DEF Served

(* The units of a block have room for what was asked, less the overhead.   *)
LEMMA Room ==
    ASSUME NEW size \in Int, 1 <= size, NEW n \in Nat, n <= size, NEW k \in Int, asizeOf(size) <= k
    PROVE  n <= DSIZE * k - DSIZE
BY AsizeOf DEF DSIZE

(* A used block's size and place, in integers the arithmetic can use.      *)
LEMMA BlockSize ==
    ASSUME NEW h, IsHeap(h), Sound(h), NEW p \in Used(h)
    PROVE  /\ p \in Addr /\ p \in Int /\ p # NULL /\ p \in Blk(h) /\ p \in Edge(h)
           /\ SizeOf(h, p) \in Int /\ 2 <= SizeOf(h, p)
           /\ p + SizeOf(h, p) <= h.brk /\ h.brk \in Int /\ 0 <= p /\ h.brk <= MAX_HEAP
<1>1. Tiling(h) /\ p \in Blk(h)
  BY DEF Sound, Used
<1>2. /\ p \in Addr /\ p \in Int /\ blk_start <= p /\ SizeOf(h, p) \in Int /\ 2 <= SizeOf(h, p)
      /\ p + SizeOf(h, p) \in Edge(h)
  BY <1>1, BlockFacts
<1>3. p + SizeOf(h, p) <= h.brk
  BY <1>1, <1>2, EdgeFacts
<1>4. p # NULL /\ 0 <= p
  BY <1>2, Numbers DEF NULL
<1>5. h.brk \in Int /\ h.brk <= MAX_HEAP
  BY Numbers DEF IsHeap
<1> QED BY <1>1, <1>2, <1>3, <1>4, <1>5 DEF Edge

(* mm_malloc hands out a new block and keeps the contents of the old.      *)
LEMMA AllocServed ==
    ASSUME NEW h, NEW g, NEW ptr, NEW size \in Int, 1 <= size, NEW n \in Nat, n <= size,
           Allocated(h, g, ptr, size)
    PROVE  Served(h, g, NULL, ptr, n) /\ Keeps(h, g, Used(h) \ {NULL})
<1>1. /\ Becomes(h, g, {}, {ptr}) /\ ptr \notin Used(h) /\ ptr \in Addr /\ ptr # NULL
      /\ asizeOf(size) <= SizeOf(g, ptr)
  BY DEF Allocated
<1>2. /\ IsHeap(g) /\ Sound(g) /\ g.brk >= h.brk
      /\ Used(g) = (Used(h) \ {}) \cup {ptr} /\ Keeps(h, g, Used(h) \ {})
  BY <1>1 DEF Becomes
<1>3. NULL \notin Used(h)
  BY Numbers DEF Used, Blk, NULL
<1>4. Used(h) \ {} = Used(h) \ {NULL} /\ {ptr} = {ptr} \ {NULL}
  BY <1>1, <1>3
<1>5. Keeps(h, g, Used(h) \ {NULL}) /\ Used(g) = (Used(h) \ {NULL}) \cup ({ptr} \ {NULL})
  BY <1>2, <1>4, Zenon
<1>6. \A p \in Used(h) \ {NULL} : p # ptr /\ SizeOf(g, p) = SizeOf(h, p)
  BY <1>1, <1>5 DEF Keeps, SizeOf
<1>7. n <= DSIZE * SizeOf(g, ptr) - DSIZE
  <2>1. SizeOf(g, ptr) \in Int
    BY <1>2, BlockSize
  <2> QED BY <1>1, <2>1, Room
<1> QED BY <1>1, <1>2, <1>5, <1>6, <1>7 DEF Served

(* mm_realloc trades one block for another, or keeps it.                   *)
LEMMA ReallocServed ==
    ASSUME NEW h, NEW g, NEW old, NEW ptr, NEW size \in Int, 1 <= size, NEW n \in Nat, n <= size,
           Reallocated(h, g, old, ptr, size)
    PROVE  Served(h, g, old, ptr, n) /\ Keeps(h, g, Used(h) \ {old})
<1>1. /\ Becomes(h, g, {old}, {ptr}) /\ ptr \notin Used(h) \ {old} /\ ptr \in Addr /\ ptr # NULL
      /\ asizeOf(size) <= SizeOf(g, ptr)
  BY DEF Reallocated
<1>2. /\ IsHeap(g) /\ Sound(g) /\ g.brk >= h.brk
      /\ Used(g) = (Used(h) \ {old}) \cup {ptr} /\ Keeps(h, g, Used(h) \ {old})
  BY <1>1 DEF Becomes
<1>3. Used(g) = (Used(h) \ {old}) \cup ({ptr} \ {NULL})
  BY <1>1, <1>2
<1>4. \A p \in Used(h) \ {old} : p # ptr /\ SizeOf(g, p) = SizeOf(h, p)
  BY <1>1, <1>2 DEF Keeps, SizeOf
<1>5. n <= DSIZE * SizeOf(g, ptr) - DSIZE
  <2>1. SizeOf(g, ptr) \in Int
    BY <1>2, BlockSize
  <2> QED BY <1>1, <2>1, Room
<1> QED BY <1>1, <1>2, <1>3, <1>4, <1>5 DEF Served

(* mm_free takes the block back and keeps the contents of the others.      *)
LEMMA FreeServed ==
    ASSUME NEW h, IsHeap(h), Sound(h), NEW old \in Used(h), NEW g, g = mm_free(h, old)
    PROVE  Served(h, g, old, NULL, 0) /\ Keeps(h, g, Used(h) \ {old}) /\ g.wrapped = h.wrapped
<1>1. Becomes(h, g, {old}, {}) /\ g.brk = h.brk
  BY MmFree
<1>2. /\ IsHeap(g) /\ Sound(g) /\ g.brk >= h.brk /\ g.wrapped = h.wrapped
      /\ Used(g) = (Used(h) \ {old}) \cup {} /\ Keeps(h, g, Used(h) \ {old})
  BY <1>1 DEF Becomes
<1>3. {} = {NULL} \ {NULL}
  OBVIOUS
<1>4. \A p \in Used(h) \ {old} : p # NULL /\ SizeOf(g, p) = SizeOf(h, p)
  <2>1. \A p \in Used(h) : p # NULL
    BY BlockSize
  <2> QED BY <1>2, <2>1 DEF Keeps, SizeOf
<1>5. NULL \in Addr
  BY HeapAssumption DEF NULL, Addr
<1> QED BY <1>2, <1>3, <1>4, <1>5 DEF Served

-----------------------------------------------------------------------------
(* The payloads the driver knows of.                                       *)

(* Those of the other indices.                                             *)
Others(b, i) == {j \in Indices : b[j] # NULL /\ j # i}

Rest(b, z, i) == {Payload(b[j], z[j]) : j \in Others(b, i)}

(* The live payloads are those of the other indices, and this one's.       *)
LEMMA RestOf ==
    ASSUME NEW b, NEW z, NEW i \in Indices
    PROVE  /\ b[i] = NULL => Payloads(b, z) = Rest(b, z, i)
           /\ b[i] # NULL => Payloads(b, z) = Rest(b, z, i) \cup {Payload(b[i], z[i])}
BY DEF Payloads, Rest, Others

(* They do not change with i's own.                                        *)
LEMMA RestSame ==
    ASSUME NEW b, NEW z, NEW i, NEW b2, NEW z2,
           \A j \in Indices : j # i => b2[j] = b[j] /\ z2[j] = z[j]
    PROVE  Rest(b2, z2, i) = Rest(b, z, i)
<1>1. Others(b2, i) = Others(b, i)
  BY DEF Others
<1>2. \A j \in Others(b, i) : b2[j] = b[j] /\ z2[j] = z[j]
  BY DEF Others
<1> QED BY <1>1, <1>2 DEF Rest

(* remove_range takes out the one payload that starts there.               *)
LEMMA RestRemoved ==
    ASSUME NEW h, NEW b \in [Indices -> Addr], NEW z \in [Indices -> Nat], Owned(h, b, z),
           NEW i \in Indices, b[i] # NULL
    PROVE  remove_range(Payloads(b, z), b[i]) = Rest(b, z, i)
<1>1. \A j, k \in Indices : b[j] # NULL /\ b[j] = b[k] => j = k
  BY DEF Owned
<1>2. \A j \in Indices : b[j] \in Int
  BY Numbers
<1>3. \A j \in Indices : Payload(b[j], z[j]).lo # DSIZE * b[i] <=> b[j] # b[i]
  BY <1>2 DEF Payload, DSIZE
<1>4. \A j \in Indices : b[j] # NULL => (Payload(b[j], z[j]).lo # DSIZE * b[i] <=> j # i)
  BY <1>1, <1>3
<1> QED BY <1>4 DEF remove_range, Payloads, Rest, Others

(* Blocks of different indices lie apart, their payloads inside them.      *)
LEMMA BlocksApart ==
    ASSUME NEW h, IsHeap(h), Sound(h), NEW b \in [Indices -> Addr], NEW z \in [Indices -> Nat],
           Owned(h, b, z), NEW i \in Indices, b[i] # NULL, NEW j \in Indices, b[j] # NULL, i # j
    PROVE  /\ b[i] \in Used(h) /\ b[j] \in Used(h)
           /\ b[i] + SizeOf(h, b[i]) <= b[j] \/ b[j] + SizeOf(h, b[j]) <= b[i]
<1>1. b[i] \in Used(h) /\ b[j] \in Used(h) /\ b[i] # b[j]
  BY DEF Owned
<1>2. /\ b[i] \in Int /\ b[i] \in Blk(h) /\ b[i] \in Edge(h)
      /\ b[j] \in Int /\ b[j] \in Blk(h) /\ b[j] \in Edge(h) /\ Tiling(h)
  BY <1>1, BlockSize DEF Sound
<1>3. CASE b[i] < b[j]
  BY <1>1, <1>2, <1>3, Apart
<1>4. CASE b[j] < b[i]
  BY <1>1, <1>2, <1>4, Apart
<1> QED BY <1>1, <1>2, <1>3, <1>4

(* So add_range finds nothing wrong with a new payload.                    *)
LEMMA NoRangeError ==
    ASSUME NEW h, IsHeap(h), Sound(h), NEW b \in [Indices -> Addr], NEW z \in [Indices -> Nat],
           Owned(h, b, z), NEW i \in Indices, b[i] # NULL,
           \A j \in Indices : b[j] # NULL => 1 <= z[j]
    PROVE  rangeErrors(h, Rest(b, z, i), Payload(b[i], z[i])) = {}
<1>1. PICK lo : lo = b[i]
  OBVIOUS
<1>2. PICK n : n = z[i]
  OBVIOUS
<1>3. lo \in Used(h) /\ n <= DSIZE * SizeOf(h, lo) - DSIZE /\ n \in Int /\ 1 <= n
  BY <1>1, <1>2 DEF Owned
<1>4. /\ lo \in Int /\ 0 <= lo /\ SizeOf(h, lo) \in Int /\ 2 <= SizeOf(h, lo)
      /\ lo + SizeOf(h, lo) <= h.brk /\ h.brk \in Int
  BY <1>3, BlockSize
<1>5. PICK r : r = Payload(lo, n)
  OBVIOUS
<1>6. r.lo = 8 * lo /\ r.hi = 8 * lo + n - 1
  BY <1>5 DEF Payload, DSIZE
<1>7. ~ (r.lo < 0 \/ r.hi > DSIZE * h.brk - 1)
  BY <1>3, <1>4, <1>6 DEF DSIZE
<1>8. ASSUME NEW p \in Rest(b, z, i)
      PROVE  ~ (r.lo \in p.lo .. p.hi \/ r.hi \in p.lo .. p.hi)
  <2>1. PICK j \in Indices : b[j] # NULL /\ j # i /\ p = Payload(b[j], z[j])
    BY <1>8 DEF Rest, Others
  <2>2. PICK lo2 : lo2 = b[j]
    OBVIOUS
  <2>3. PICK n2 : n2 = z[j]
    OBVIOUS
  <2>4. lo2 \in Used(h) /\ n2 <= DSIZE * SizeOf(h, lo2) - DSIZE /\ n2 \in Int /\ 1 <= n2
    BY <2>1, <2>2, <2>3 DEF Owned
  <2>5. lo2 \in Int /\ SizeOf(h, lo2) \in Int
    BY <2>4, BlockSize
  <2>6. p.lo = 8 * lo2 /\ p.hi = 8 * lo2 + n2 - 1
    BY <2>1, <2>2, <2>3 DEF Payload, DSIZE
  <2>7. lo + SizeOf(h, lo) <= lo2 \/ lo2 + SizeOf(h, lo2) <= lo
    BY <1>1, <2>1, <2>2, BlocksApart
  <2>8. 8 * lo + n < 8 * lo2 \/ 8 * lo2 + n2 < 8 * lo
    BY <1>3, <1>4, <2>4, <2>5, <2>7 DEF DSIZE
  <2> QED BY <1>3, <1>4, <1>6, <2>4, <2>5, <2>6, <2>8
<1>9. rangeErrors(h, Rest(b, z, i), r) = {}
  BY <1>7, <1>8, Zenon DEF rangeErrors
<1> QED BY <1>1, <1>2, <1>5, <1>9

-----------------------------------------------------------------------------
(* What the payloads hold.                                                 *)

(* The payload of another index stays what it is.                          *)
LEMMA StillWritten ==
    ASSUME NEW h, IsHeap(h), Sound(h), NEW b \in [Indices -> Addr], NEW z \in [Indices -> Nat],
           Owned(h, b, z), Written(h, b, z), NEW i \in Indices,
           NEW g, IsHeap(g), Keeps(h, g, Used(h) \ {b[i]}),
           NEW j \in Indices, j # i, b[j] # NULL
    PROVE  Preserved(g, j, b[j], z[j])
<1>1. /\ b[j] \in Used(h) /\ b[j] # b[i] /\ z[j] <= DSIZE * SizeOf(h, b[j]) - DSIZE
      /\ Preserved(h, j, b[j], z[j]) /\ z[j] \in Int
  BY DEF Owned, Written
<1>2. b[j] \in Int /\ SizeOf(h, b[j]) \in Int /\ 0 <= b[j]
  BY <1>1, BlockSize
<1>3. DOMAIN g.data = -1 .. MAX_HEAP /\ DOMAIN h.data = -1 .. MAX_HEAP
  BY DEF IsHeap
<1> SUFFICES ASSUME NEW a \in -1 .. MAX_HEAP, b[j] <= a, DSIZE * a < DSIZE * b[j] + z[j]
             PROVE  g.data[a] = j
  BY <1>3 DEF Preserved
<1>4. a \in Int /\ a <= b[j] + SizeOf(h, b[j]) - 2 /\ a \in Addr
  BY <1>1, <1>2, Numbers DEF DSIZE, Addr
<1>5. g.data[a] = h.data[a]
  BY <1>1, <1>4 DEF Keeps
<1>6. h.data[a] = j
  BY <1>1, <1>3 DEF Preserved
<1> QED BY <1>5, <1>6

(* The payload of a reallocated block has come along.                      *)
LEMMA CarriedPreserved ==
    ASSUME NEW h, IsHeap(h), Sound(h), NEW old \in Used(h), NEW i, NEW n \in Nat,
           n <= DSIZE * SizeOf(h, old) - DSIZE, Preserved(h, i, old, n),
           NEW g, IsHeap(g), NEW ptr \in Addr, NEW size \in Int, Carried(h, g, old, ptr, size)
    PROVE  Preserved(g, i, ptr, Lesser(size, n))
<1>1. PICK m : m = Lesser(size, n)
  OBVIOUS
<1>2. m \in Int /\ m <= size /\ m <= n
  BY <1>1 DEF Lesser
<1>3. /\ old \in Int /\ SizeOf(h, old) \in Int /\ 0 <= old /\ old + SizeOf(h, old) <= MAX_HEAP
      /\ MAX_HEAP \in Int
  <2>1. old + SizeOf(h, old) <= h.brk /\ h.brk <= MAX_HEAP /\ h.brk \in Int
    BY BlockSize
  <2> QED BY <2>1, BlockSize, Numbers
<1>4. DOMAIN g.data = -1 .. MAX_HEAP /\ DOMAIN h.data = -1 .. MAX_HEAP
  BY DEF IsHeap
<1>5. Preserved(g, i, ptr, m)
  <2> SUFFICES ASSUME NEW a \in -1 .. MAX_HEAP, ptr <= a, DSIZE * a < DSIZE * ptr + m
               PROVE  g.data[a] = i
    BY <1>4 DEF Preserved
  <2>1. ptr \in Int /\ a \in Int
    BY Numbers
  <2>2. PICK k : k = a - ptr
    OBVIOUS
  <2>3. /\ k \in Nat /\ ptr + k = a /\ DSIZE * k < size /\ k + 2 <= SizeOf(h, old)
        /\ DSIZE * k < n
    BY <1>2, <1>3, <2>1, <2>2 DEF DSIZE
  <2>4. g.data[a] = h.data[old + k]
    BY <2>3 DEF Carried
  <2>5. old + k \in -1 .. MAX_HEAP /\ old <= old + k /\ DSIZE * (old + k) < DSIZE * old + n
    BY <1>3, <2>3 DEF DSIZE
  <2>6. h.data[old + k] = i
    BY <1>4, <2>5 DEF Preserved
  <2> QED BY <2>4, <2>6
<1> QED BY <1>1, <1>5

(* memset writes the payload of its index and none of the others.          *)
LEMMA MemsetWritten ==
    ASSUME NEW h, IsHeap(h), Sound(h), NEW b \in [Indices -> Addr], NEW z \in [Indices -> Nat],
           Owned(h, b, z), NEW i \in Indices, b[i] # NULL,
           \A j \in Indices : j # i /\ b[j] # NULL => Preserved(h, j, b[j], z[j]),
           NEW g, g = memset(h, i, b[i], z[i])
    PROVE  Painted(h, g) /\ Written(g, b, z)
<1>1. /\ Painted(h, g)
      /\ \A a \in -1 .. MAX_HEAP :
           /\ b[i] <= a /\ DSIZE * a < DSIZE * b[i] + z[i] => g.data[a] = i
           /\ ~ (b[i] <= a /\ DSIZE * a < DSIZE * b[i] + z[i]) => g.data[a] = h.data[a]
  BY Memset
<1>2. DOMAIN g.data = -1 .. MAX_HEAP /\ DOMAIN h.data = -1 .. MAX_HEAP
  BY <1>1 DEF Painted, IsHeap
<1>3. Preserved(g, i, b[i], z[i])
  BY <1>1, <1>2 DEF Preserved
<1>4. ASSUME NEW j \in Indices, j # i, b[j] # NULL
      PROVE  Preserved(g, j, b[j], z[j])
  <2>1. Preserved(h, j, b[j], z[j])
    BY <1>4
  <2>2. PICK p : p = b[i]
    OBVIOUS
  <2>3. PICK q : q = b[j]
    OBVIOUS
  <2>4. /\ p \in Used(h) /\ z[i] <= DSIZE * SizeOf(h, p) - DSIZE /\ z[i] \in Int
        /\ q \in Used(h) /\ z[j] <= DSIZE * SizeOf(h, q) - DSIZE /\ z[j] \in Int
    BY <1>4, <2>2, <2>3 DEF Owned
  <2>5. p \in Int /\ SizeOf(h, p) \in Int /\ q \in Int /\ SizeOf(h, q) \in Int
    BY <2>4, BlockSize
  <2>6. p + SizeOf(h, p) <= q \/ q + SizeOf(h, q) <= p
    BY <1>4, <2>2, <2>3, BlocksApart
  <2> SUFFICES ASSUME NEW a \in -1 .. MAX_HEAP, q <= a, DSIZE * a < DSIZE * q + z[j]
               PROVE  g.data[a] = j
    BY <1>2, <2>3 DEF Preserved
  <2>7. a \in Int
    BY Numbers
  <2>8. ~ (p <= a /\ DSIZE * a < DSIZE * p + z[i])
    BY <2>4, <2>5, <2>6, <2>7 DEF DSIZE
  <2>9. g.data[a] = h.data[a]
    BY <1>1, <2>2, <2>8
  <2>10. h.data[a] = j
    BY <1>2, <2>1, <2>3 DEF Preserved
  <2> QED BY <2>9, <2>10
<1> QED BY <1>1, <1>3, <1>4 DEF Written

(* The driver sees what it has written.                                    *)
LEMMA SeenWritten ==
    ASSUME NEW h, IsHeap(h), NEW b \in [Indices -> Addr], NEW z \in [Indices -> Nat],
           Written(h, b, z), NEW g, g = Seen(h, Payloads(b, z))
    PROVE  Painted(h, g) /\ Written(g, b, z)
<1>1. /\ Painted(h, g)
      /\ \A a \in -1 .. MAX_HEAP : \A r \in Payloads(b, z) :
           r.lo <= DSIZE * a /\ DSIZE * a <= r.hi => g.data[a] = h.data[a]
  BY SeenKeeps
<1>2. DOMAIN g.data = -1 .. MAX_HEAP /\ DOMAIN h.data = -1 .. MAX_HEAP
  BY <1>1 DEF Painted, IsHeap
<1>3. ASSUME NEW i \in Indices, b[i] # NULL
      PROVE  Preserved(g, i, b[i], z[i])
  <2> SUFFICES ASSUME NEW a \in -1 .. MAX_HEAP, b[i] <= a, DSIZE * a < DSIZE * b[i] + z[i]
               PROVE  g.data[a] = i
    BY <1>2 DEF Preserved
  <2>1. PICK r : r = Payload(b[i], z[i])
    OBVIOUS
  <2>2. r \in Payloads(b, z)
    BY <1>3, <2>1 DEF Payloads
  <2>3. r.lo = DSIZE * b[i] /\ r.hi = DSIZE * b[i] + z[i] - 1
    BY <2>1 DEF Payload
  <2>4. r.lo <= DSIZE * a /\ DSIZE * a <= r.hi
    <3>1. a \in Int /\ b[i] \in Int /\ z[i] \in Int
      <4>1. b[i] \in Addr /\ z[i] \in Nat
        OBVIOUS
      <4>2. MAX_HEAP \in Int
        BY Numbers
      <4>3. b[i] \in Int
        BY <4>1, Numbers
      <4>4. a \in Int
        BY <4>2
      <4> QED BY <4>1, <4>3, <4>4
    <3> QED BY <2>3, <3>1 DEF DSIZE
  <2>5. g.data[a] = h.data[a]
    BY <1>1, <2>2, <2>4
  <2>6. Preserved(h, i, b[i], z[i])
    BY <1>3 DEF Written
  <2>7. h.data[a] = i
    BY <1>2, <2>6 DEF Preserved
  <2> QED BY <2>5, <2>7
<1> QED BY <1>1, <1>3 DEF Written

-----------------------------------------------------------------------------
(* The bytes asked for.                                                    *)

(* One payload counts as many bytes as its size.                           *)
LEMMA PartCard ==
    ASSUME NEW i, NEW n \in Nat
    PROVE  IsFiniteSet({i} \X (1 .. n)) /\ Cardinality({i} \X (1 .. n)) = n
<1>1. IsFiniteSet({i}) /\ Cardinality({i}) = 1
  BY FS_Singleton
<1>2. IsFiniteSet(1 .. n) /\ Cardinality(1 .. n) = IF 1 > n THEN 0 ELSE n - 1 + 1
  BY FS_Interval
<1>3. Cardinality(1 .. n) = n
  BY <1>2
<1>4. /\ IsFiniteSet({i} \X (1 .. n))
      /\ Cardinality({i} \X (1 .. n)) = Cardinality({i}) * Cardinality(1 .. n)
  BY <1>1, <1>2, FS_Product, Zenon
<1> QED BY <1>1, <1>3, <1>4

(* One index asks for more or less.                                        *)
LEMMA AskedUpdate ==
    ASSUME NEW z \in [Indices -> Nat], IsFiniteSet(Asked(z)), NEW i \in Indices, NEW n \in Nat
    PROVE  LET z2 == [z EXCEPT ![i] = n]
           IN  /\ IsFiniteSet(Asked(z2))
               /\ Cardinality(Asked(z2)) = Cardinality(Asked(z)) - z[i] + n
               /\ Cardinality(Asked(z2)) \in Nat /\ Cardinality(Asked(z)) - z[i] \in Nat
<1> DEFINE z2 == [z EXCEPT ![i] = n]
           Old == {i} \X (1 .. z[i])
           New == {i} \X (1 .. n)
           Left == Asked(z) \ Old
<1>1. z2[i] = n /\ \A j \in Indices : j # i => z2[j] = z[j]
  OBVIOUS
<1> HIDE DEF z2
<1>2. Old \subseteq Asked(z)
  BY DEF Asked
<1>3. Left = UNION {{j} \X (1 .. z[j]) : j \in Indices \ {i}}
  BY DEF Asked
<1>4. Asked(z2) = Left \cup New
  <2>1. Asked(z2) = New \cup UNION {{j} \X (1 .. z2[j]) : j \in Indices \ {i}}
    BY <1>1 DEF Asked
  <2>2. \A j \in Indices \ {i} : {j} \X (1 .. z2[j]) = {j} \X (1 .. z[j])
    BY <1>1
  <2>3. {{j} \X (1 .. z2[j]) : j \in Indices \ {i}} = {{j} \X (1 .. z[j]) : j \in Indices \ {i}}
    BY <2>2
  <2> HIDE DEF Left, New
  <2> QED BY <1>3, <2>1, <2>3
<1>5. Left \cap New = {}
  BY <1>3
<1>6. z[i] \in Nat
  OBVIOUS
<1>7. IsFiniteSet(Old) /\ Cardinality(Old) = z[i] /\ IsFiniteSet(New) /\ Cardinality(New) = n
  BY <1>6, PartCard
<1>8. Asked(z) \cap Old = Old
  BY <1>2
<1> HIDE DEF Old, New
<1>9. IsFiniteSet(Left) /\ Cardinality(Left) = Cardinality(Asked(z)) - z[i]
  <2>1. /\ IsFiniteSet(Asked(z) \ Old)
        /\ Cardinality(Asked(z) \ Old) = Cardinality(Asked(z)) - Cardinality(Asked(z) \cap Old)
    BY FS_Difference, Zenon
  <2> QED BY <1>7, <1>8, <2>1
<1>10. Cardinality(Left) \in Nat /\ Cardinality(Asked(z)) \in Nat
  BY <1>9, FS_CardinalityType
<1> HIDE DEF Left
<1>11. /\ IsFiniteSet(Asked(z2))
       /\ Cardinality(Asked(z2)) = Cardinality(Left) + Cardinality(New) - Cardinality(Left \cap New)
  <2>1. /\ IsFiniteSet(Left \cup New)
        /\ Cardinality(Left \cup New) = Cardinality(Left) + Cardinality(New) - Cardinality(Left \cap New)
    BY <1>7, <1>9, FS_Union, Zenon
  <2> QED BY <1>4, <2>1
<1>12. Cardinality(Left \cap New) = 0
  BY <1>5, FS_EmptySet
<1>13. /\ Cardinality(Asked(z2)) = Cardinality(Asked(z)) - z[i] + n
       /\ Cardinality(Asked(z2)) \in Nat
  BY <1>6, <1>7, <1>9, <1>10, <1>11, <1>12
<1> QED BY <1>9, <1>10, <1>11, <1>13 DEF z2

(* They are bytes of the heap, each a different one.                       *)
LEMMA AskedFits ==
    ASSUME NEW h, IsHeap(h), Sound(h), NEW b \in [Indices -> Addr], NEW z \in [Indices -> Nat],
           Owned(h, b, z), \A j \in Indices : b[j] = NULL => z[j] = 0
    PROVE  Cardinality(Asked(z)) <= DSIZE * h.brk
<1> DEFINE Byte(x) == 8 * b[x[1]] + x[2] - 1
           T == 0 .. 8 * h.brk - 1
           f == [x \in Asked(z) |-> Byte(x)]
<1>1. \A x \in Asked(z) : \E j \in Indices : \E k \in 1 .. z[j] : x = <<j, k>>
  BY DEF Asked
<1>2. ASSUME NEW j \in Indices, NEW k \in 1 .. z[j]
      PROVE  /\ b[j] # NULL /\ b[j] \in Int /\ SizeOf(h, b[j]) \in Int /\ k \in Int
             /\ 0 <= 8 * b[j] + k - 1 /\ 8 * b[j] + k - 1 < 8 * b[j] + 8 * SizeOf(h, b[j]) - 8
             /\ b[j] + SizeOf(h, b[j]) <= h.brk
             /\ 1 <= k
  <2>1. z[j] \in Int /\ k \in Int /\ 1 <= k /\ k <= z[j]
    OBVIOUS
  <2>2. b[j] # NULL
    <3>1. z[j] # 0
      BY <2>1
    <3> QED BY <3>1
  <2>3. b[j] \in Used(h) /\ z[j] <= DSIZE * SizeOf(h, b[j]) - DSIZE
    BY <2>2 DEF Owned
  <2>4. /\ b[j] \in Int /\ SizeOf(h, b[j]) \in Int /\ 0 <= b[j]
        /\ b[j] + SizeOf(h, b[j]) <= h.brk
    BY <2>3, BlockSize
  <2> QED BY <2>1, <2>2, <2>3, <2>4 DEF DSIZE
<1>3. h.brk \in Int
  BY Numbers DEF IsHeap
<1>4. ASSUME NEW x \in Asked(z)
      PROVE  Byte(x) \in T
  <2>a. PICK j \in Indices : \E k \in 1 .. z[j] : x = <<j, k>>
    BY <1>1
  <2>1. PICK k \in 1 .. z[j] : x = <<j, k>>
    BY <2>a
  <2>2. Byte(x) = 8 * b[j] + k - 1
    BY <2>1
  <2> QED BY <1>2, <1>3, <2>2
<1>5. ASSUME NEW x \in Asked(z), NEW y \in Asked(z), Byte(x) = Byte(y)
      PROVE  x = y
  <2>a. PICK i \in Indices : \E k \in 1 .. z[i] : x = <<i, k>>
    BY <1>1
  <2>1. PICK k \in 1 .. z[i] : x = <<i, k>>
    BY <2>a
  <2>b. PICK j \in Indices : \E l \in 1 .. z[j] : y = <<j, l>>
    BY <1>1
  <2>2. PICK l \in 1 .. z[j] : y = <<j, l>>
    BY <2>b
  <2>3. 8 * b[i] + k - 1 = 8 * b[j] + l - 1
    BY <1>5, <2>1, <2>2
  <2>4. i = j
    <3> SUFFICES ASSUME i # j PROVE FALSE
      OBVIOUS
    <3>1. b[i] + SizeOf(h, b[i]) <= b[j] \/ b[j] + SizeOf(h, b[j]) <= b[i]
      BY <1>2, BlocksApart
    <3>2. /\ b[i] \in Int /\ SizeOf(h, b[i]) \in Int /\ k \in Int /\ 1 <= k
          /\ 8 * b[i] + k - 1 < 8 * b[i] + 8 * SizeOf(h, b[i]) - 8
      BY <1>2
    <3>3. /\ b[j] \in Int /\ SizeOf(h, b[j]) \in Int /\ l \in Int /\ 1 <= l
          /\ 8 * b[j] + l - 1 < 8 * b[j] + 8 * SizeOf(h, b[j]) - 8
      BY <1>2
    <3> QED BY <2>3, <3>1, <3>2, <3>3
  <2>5. k = l
    <3>1. b[i] \in Int /\ k \in Int /\ l \in Int
      BY <1>2, <2>4
    <3> QED BY <2>3, <2>4, <3>1
  <2> QED BY <2>1, <2>2, <2>4, <2>5
<1> HIDE DEF Byte
<1>6. f \in [Asked(z) -> T] /\ \A x \in Asked(z) : f[x] = Byte(x)
  BY <1>4
<1> HIDE DEF f, T
<1>7. f \in Injection(Asked(z), T)
  BY <1>5, <1>6 DEF Injection, IsInjective
<1>8. IsFiniteSet(T) /\ Cardinality(T) = 8 * h.brk
  <2>1. h.brk \in Int /\ 0 <= h.brk
    BY Numbers DEF IsHeap
  <2>2. PICK top : top = 8 * h.brk - 1
    OBVIOUS
  <2>3. top \in Int /\ 0 \in Int
    BY <2>1, <2>2
  <2>4. IsFiniteSet(0 .. top) /\ Cardinality(0 .. top) = IF 0 > top THEN 0 ELSE top - 0 + 1
    BY <2>3, FS_Interval, Zenon
  <2>5. Cardinality(0 .. top) = 8 * h.brk
    BY <2>1, <2>2, <2>3, <2>4
  <2>6. T = 0 .. top
    BY <2>2 DEF T
  <2> QED BY <2>4, <2>5, <2>6
<1>9. Cardinality(Asked(z)) <= Cardinality(T)
  BY <1>7, <1>8, FS_Injection, Zenon
<1> QED BY <1>8, <1>9 DEF DSIZE

-----------------------------------------------------------------------------
(* What the allocator answers.                                             *)

Answer(h, g, old, ptr, n) ==
  /\ IsHeap(g) /\ ptr \in Addr /\ ptr # NULL
  /\ ~ g.wrapped => Served(h, g, old, ptr, n) /\ Keeps(h, g, Used(h) \ {old})

(* What the driver may rely on after mm_malloc answered.                   *)
LEMMA MallocAnswer ==
    ASSUME NEW h, IsHeap(h), Sound(h), ~ h.wrapped, NEW size \in Requests, NEW n \in Nat, n <= size,
           NEW g, g = mm_malloc(h, size).heap, NEW ptr, ptr = mm_malloc(h, size).ptr, ptr # NULL
    PROVE  Answer(h, g, NULL, ptr, n) /\ ~ g.wrapped
<1>1. size \in Int /\ 1 <= size
  BY DriverAssumption
<1>2. Allocated(h, g, ptr, size)
  <2>1. \/ ptr = NULL /\ g = h
        \/ Allocated(h, g, ptr, size)
    BY <1>1, Malloc, Zenon
  <2> QED BY <2>1
<1>3. Served(h, g, NULL, ptr, n) /\ Keeps(h, g, Used(h) \ {NULL})
  BY <1>1, <1>2, AllocServed, Zenon
<1>4. IsHeap(g) /\ ptr \in Addr /\ g.wrapped = h.wrapped
  BY <1>2 DEF Allocated, Becomes
<1> QED BY <1>3, <1>4 DEF Answer

(* What the driver may rely on after mm_realloc answered.                  *)
LEMMA ReallocAnswer ==
    ASSUME NEW h, IsHeap(h), Sound(h), ~ h.wrapped, NEW old \in Used(h),
           NEW size \in Requests, NEW n \in Nat, n <= size,
           NEW g, g = mm_realloc(h, old, size).heap, NEW ptr, ptr = mm_realloc(h, old, size).ptr,
           ptr # NULL
    PROVE  Answer(h, g, old, ptr, n) /\ Carried(h, g, old, ptr, size)
<1>1. size \in Int /\ 1 <= size /\ size <= INT_MAX
  <2>1. INT_MAX \in Int
    BY DEF INT_MAX
  <2> QED BY <2>1, DriverAssumption
<1>2. Outcome(h, g, old, ptr, size)
  <2>1. \/ ptr = NULL /\ g = h
        \/ Outcome(h, g, old, ptr, size)
    BY <1>1, Realloc, Zenon
  <2> QED BY <2>1
<1>3. CASE Reallocated(h, g, old, ptr, size)
  <2>1. Served(h, g, old, ptr, n) /\ Keeps(h, g, Used(h) \ {old})
    BY <1>1, <1>3, ReallocServed, Zenon
  <2>2. IsHeap(g) /\ ptr \in Addr /\ Carried(h, g, old, ptr, size)
    BY <1>3 DEF Reallocated, Becomes
  <2> QED BY <2>1, <2>2 DEF Answer
<1>4. CASE Misled(h, g, old, ptr, size)
  BY <1>4 DEF Misled, Answer
<1> QED BY <1>2, <1>3, <1>4 DEF Outcome

-----------------------------------------------------------------------------
(* Every step keeps the books.                                             *)

(* What Usable states have.                                                *)
LEMMA UsableFacts ==
    ASSUME IInv, Usable
    PROVE  /\ IsHeap(heap) /\ Sound(heap) /\ Owned(heap, blocks, block_sizes)
           /\ blocks \in [Indices -> Addr] /\ block_sizes \in [Indices -> Nat]
           /\ \A i \in Indices : blocks[i] # NULL => blocks[i] \in Used(heap)
BY DEF IInv, Types, Books, Owned

(* A rejected trace: the heap is reset and the table is empty.             *)
LEMMA ResetInv ==
    ASSUME IInv, NEW why \in Rejections, Reject(why)
    PROVE  IInv'
<1>1. /\ phase' = "rejected" /\ errors' = {why} /\ heap' = mem_reset_brk /\ ranges' = {}
      /\ blocks' = [i \in Indices |-> NULL] /\ block_sizes' = [i \in Indices |-> 0]
      /\ total_size' = total_size /\ max_total_size' = max_total_size
  BY DEF Reject, counters
<1>2. NULL \in Addr
  BY HeapAssumption DEF NULL, Addr
<1>3. Types'
  BY <1>1, <1>2, ResetIsHeap DEF IInv, Types
<1>4. Books'
  BY <1>1 DEF Books, Usable, Failures
<1> QED BY <1>3, <1>4 DEF IInv

(* A pass that fails ends the driver; heap and table stay as they are.     *)
LEMMA ExitInv ==
    ASSUME IInv, phase \in {"util", "speed"}, ~ heap.wrapped, NEW why \in Failures, Exit(why)
    PROVE  IInv'
<1>1. /\ phase' = "exited" /\ errors' = {why} /\ heap' = heap /\ ranges' = ranges
      /\ blocks' = blocks /\ block_sizes' = block_sizes
      /\ total_size' = total_size /\ max_total_size' = max_total_size
  BY DEF Exit, counters
<1>2. Types'
  BY <1>1 DEF IInv, Types
<1>3. Books'
  BY <1>1 DEF IInv, Books, Usable
<1> QED BY <1>2, <1>3 DEF IInv

(* Each pass starts with an empty table on the heap mm_init leaves.        *)
LEMMA StartInv ==
    ASSUME NEW next \in {"valid", "util", "speed"}, Restart(next)
    PROVE  IInv'
<1>1. /\ phase' = next /\ errors' = {} /\ heap' = mm_init.heap /\ ranges' = {}
      /\ blocks' = [i \in Indices |-> NULL] /\ block_sizes' = [i \in Indices |-> 0]
      /\ total_size' = 0 /\ max_total_size' = 0
  BY DEF Restart
<1>2. IsHeap(heap') /\ Sound(heap') /\ heap'.wrapped = FALSE /\ Used(heap') = {}
  BY <1>1, Initialized
<1>3. NULL \in Addr
  BY HeapAssumption DEF NULL, Addr
<1>4. Types'
  BY <1>1, <1>2, <1>3 DEF Types
<1>5. Owned(heap', blocks', block_sizes')
  BY <1>1, <1>2 DEF Owned
<1>6. ranges' = Payloads(blocks', block_sizes') /\ Written(heap', blocks', block_sizes')
  BY <1>1 DEF Payloads, Written
<1>7. IsFiniteSet(Asked(block_sizes')) /\ Cardinality(Asked(block_sizes')) = 0
  <2>1. Asked(block_sizes') = {}
    BY <1>1 DEF Asked
  <2> QED BY <2>1, FS_EmptySet
<1>8. 0 <= DSIZE * heap'.brk
  BY <1>2, Numbers DEF IsHeap, DSIZE
<1>9. Books'
  BY <1>1, <1>2, <1>5, <1>6, <1>7, <1>8 DEF Books
<1> QED BY <1>4, <1>9 DEF IInv

(* The driver starts with the first pass, on the heap mm_init leaves.      *)
LEMMA InitInv == Init => IInv
<1> SUFFICES ASSUME Init PROVE IInv
  OBVIOUS
<1>1. /\ phase = "valid" /\ errors = {} /\ heap = mm_init.heap /\ ranges = {}
      /\ blocks = [i \in Indices |-> NULL] /\ block_sizes = [i \in Indices |-> 0]
      /\ total_size = 0 /\ max_total_size = 0
  BY DEF Init
<1>2. IsHeap(heap) /\ Sound(heap) /\ heap.wrapped = FALSE /\ Used(heap) = {}
  BY <1>1, Initialized
<1>3. NULL \in Addr
  BY HeapAssumption DEF NULL, Addr
<1>4. Types
  BY <1>1, <1>2, <1>3 DEF Types
<1>5. Owned(heap, blocks, block_sizes)
  BY <1>1, <1>2 DEF Owned
<1>6. ranges = Payloads(blocks, block_sizes) /\ Written(heap, blocks, block_sizes)
  BY <1>1 DEF Payloads, Written
<1>7. Books
  BY <1>1, <1>2, <1>5, <1>6 DEF Books
<1> QED BY <1>4, <1>7 DEF IInv

(* A step of eval_mm_util.                                                 *)
LEMMA UtilInv ==
    ASSUME IInv, phase = "util", ~ heap.wrapped, NEW i \in Indices,
           NEW g, IsHeap(g), NEW ptr \in Addr, NEW n \in Nat, ptr = NULL <=> n = 0,
           ~ g.wrapped => Served(heap, g, blocks[i], ptr, n),
           heap' = Seen(g, {}), Remember(i, ptr, n),
           total_size' = total_size - block_sizes[i] + n,
           \/ max_total_size' = Greater(total_size', max_total_size)
           \/ max_total_size' = max_total_size /\ n = 0,
           UNCHANGED <<phase, ranges, errors>>
    PROVE  IInv'
<1>1. Usable
  BY DEF Usable
<1>2. /\ IsHeap(heap) /\ Sound(heap) /\ Owned(heap, blocks, block_sizes)
      /\ blocks \in [Indices -> Addr] /\ block_sizes \in [Indices -> Nat]
  BY <1>1, UsableFacts
<1>3. blocks' = [blocks EXCEPT ![i] = ptr] /\ block_sizes' = [block_sizes EXCEPT ![i] = n]
  BY DEF Remember
<1>4. Painted(g, heap') /\ IsHeap(heap') /\ heap'.wrapped = g.wrapped /\ heap'.brk = g.brk
  <2>1. Painted(g, heap')
    BY SeenKeeps, Zenon
  <2> QED BY <2>1, PaintedSound
<1>5. blocks' \in [Indices -> Addr] /\ block_sizes' \in [Indices -> Nat]
  BY <1>2, <1>3
<1>6. /\ IsFiniteSet(Asked(block_sizes)) /\ total_size = Cardinality(Asked(block_sizes))
      /\ total_size \in Nat /\ max_total_size \in Nat /\ max_total_size <= DSIZE * heap.brk
  BY DEF IInv, Types, Books
<1>7. /\ IsFiniteSet(Asked(block_sizes')) /\ total_size' = Cardinality(Asked(block_sizes'))
      /\ total_size' \in Nat
  BY <1>2, <1>3, <1>6, AskedUpdate
<1>8. max_total_size' \in Nat
  BY <1>6, <1>7 DEF Greater
<1>9. Types'
  <2>1. phase' = phase /\ ranges' = ranges
    OBVIOUS
  <2> QED BY <1>4, <1>5, <1>7, <1>8, <2>1 DEF IInv, Types
<1>10. \A j \in Indices : blocks'[j] = NULL <=> block_sizes'[j] = 0
  <2>1. \A j \in Indices : blocks[j] = NULL <=> block_sizes[j] = 0
    BY DEF IInv, Books
  <2> QED BY <1>2, <1>3, <2>1
<1>11. ASSUME ~ heap'.wrapped
       PROVE  /\ Sound(heap') /\ Owned(heap', blocks', block_sizes')
              /\ max_total_size' <= DSIZE * heap'.brk
  <2>1. Served(heap, heap', blocks[i], ptr, n)
    <3>1. Served(heap, g, blocks[i], ptr, n)
      BY <1>4, <1>11
    <3> QED BY <1>4, <3>1, ServedPainted, Zenon
  <2>2. Owned(heap', blocks', block_sizes')
    BY <1>2, <1>3, <2>1, Handed
  <2>3. Sound(heap') /\ heap'.brk >= heap.brk
    BY <2>1 DEF Served
  <2>4. total_size' <= DSIZE * heap'.brk
    BY <1>4, <1>5, <1>7, <1>10, <2>2, <2>3, AskedFits
  <2>5. heap.brk \in Int /\ heap'.brk \in Int
    BY <1>2, <1>4, Numbers DEF IsHeap
  <2>6. max_total_size' <= DSIZE * heap'.brk
    BY <1>6, <1>7, <2>3, <2>4, <2>5 DEF Greater, DSIZE
  <2> QED BY <2>2, <2>3, <2>6
<1>12. Books'
  <2>1. phase' = "util" /\ errors' \subseteq Failures
    BY DEF IInv, Books
  <2> QED BY <1>7, <1>10, <1>11, <2>1 DEF Books, Usable
<1> QED BY <1>9, <1>12 DEF IInv

(* A step of eval_mm_speed.                                                *)
LEMMA SpeedInv ==
    ASSUME IInv, phase = "speed", ~ heap.wrapped, NEW i \in Indices,
           NEW g, IsHeap(g), NEW ptr \in Addr,
           ~ g.wrapped => Served(heap, g, blocks[i], ptr, 0),
           heap' = Seen(g, {}), blocks' = [blocks EXCEPT ![i] = ptr],
           UNCHANGED <<phase, ranges, block_sizes, counters, errors>>
    PROVE  IInv'
<1>1. Usable
  BY DEF Usable
<1>2. /\ IsHeap(heap) /\ Sound(heap) /\ Owned(heap, blocks, block_sizes)
      /\ blocks \in [Indices -> Addr] /\ block_sizes \in [Indices -> Nat]
  BY <1>1, UsableFacts
<1>3. \A j \in Indices : block_sizes[j] = 0
  BY DEF IInv, Books
<1>4. block_sizes' = block_sizes /\ block_sizes' = [block_sizes EXCEPT ![i] = 0]
  BY <1>2, <1>3
<1>5. Painted(g, heap') /\ IsHeap(heap') /\ heap'.wrapped = g.wrapped
  <2>1. Painted(g, heap')
    BY SeenKeeps, Zenon
  <2> QED BY <2>1, PaintedSound
<1>6. blocks' \in [Indices -> Addr]
  BY <1>2
<1>7. Types'
  BY <1>4, <1>5, <1>6 DEF IInv, Types, counters
<1>8. ASSUME ~ heap'.wrapped
      PROVE  Sound(heap') /\ Owned(heap', blocks', block_sizes')
  <2>1. Served(heap, heap', blocks[i], ptr, 0)
    <3>1. Served(heap, g, blocks[i], ptr, 0)
      BY <1>5, <1>8
    <3> QED BY <1>5, <3>1, ServedPainted, Zenon
  <2>2. Owned(heap', [blocks EXCEPT ![i] = ptr], [block_sizes EXCEPT ![i] = 0])
    BY <1>2, <2>1, Handed
  <2>3. Owned(heap', blocks', block_sizes')
    BY <1>4, <2>2
  <2> QED BY <2>1, <2>3 DEF Served
<1>9. Books'
  <2>1. phase' = "speed" /\ errors' \subseteq Failures
    BY DEF IInv, Books
  <2> QED BY <1>3, <1>4, <1>8, <2>1 DEF Books, Usable
<1> QED BY <1>7, <1>9 DEF IInv

(* A payload is a range.                                                   *)
LEMMA PayloadRange ==
    ASSUME NEW lo \in Addr, NEW n \in Nat
    PROVE  Payload(lo, n) \in Ranges
<1>1. lo \in Int
  BY Numbers
<1> QED BY <1>1 DEF Payload, Ranges, DSIZE

(* Payloads are ranges of bytes, so the driver's checks compare numbers.   *)
LEMMA PayloadRanges ==
    ASSUME NEW b \in [Indices -> Addr], NEW z \in [Indices -> Nat]
    PROVE  Payloads(b, z) \subseteq Ranges
<1>1. \A j \in Indices : b[j] \in Addr /\ z[j] \in Nat
  OBVIOUS
<1> QED BY <1>1, PayloadRange DEF Payloads

(* The checks of eval_mm_valid on a new or reallocated block.              *)
LEMMA CheckedInv ==
    ASSUME IInv, phase = "valid", ~ heap.wrapped, NEW i \in Indices, NEW size \in Requests,
           NEW g, NEW ptr, Answer(heap, g, blocks[i], ptr, size),
           Preserved(g, i, ptr, Lesser(size, block_sizes[i])),
           NEW used, ~ g.wrapped => used = Rest(blocks, block_sizes, i), used \subseteq Ranges,
           Checked(g, used, i, ptr, size)
    PROVE  IInv'
<1>1. Usable
  BY DEF Usable
<1>2. /\ IsHeap(heap) /\ Sound(heap) /\ Owned(heap, blocks, block_sizes)
      /\ blocks \in [Indices -> Addr] /\ block_sizes \in [Indices -> Nat]
  BY <1>1, UsableFacts
<1>3. size \in Nat /\ size # 0 /\ 1 <= size
  BY DriverAssumption
<1>4. /\ IsHeap(g) /\ ptr \in Addr /\ ptr # NULL
      /\ ~ g.wrapped => /\ Served(heap, g, blocks[i], ptr, size)
                        /\ Keeps(heap, g, Used(heap) \ {blocks[i]})
  BY DEF Answer
<1> DEFINE b2 == [blocks EXCEPT ![i] = ptr]
           z2 == [block_sizes EXCEPT ![i] = size]
<1>5. /\ b2 \in [Indices -> Addr] /\ z2 \in [Indices -> Nat] /\ b2[i] = ptr /\ z2[i] = size
      /\ \A j \in Indices : j # i => b2[j] = blocks[j] /\ z2[j] = block_sizes[j]
  BY <1>2, <1>3, <1>4
<1>7. \A j \in Indices : blocks[j] = NULL <=> block_sizes[j] = 0
  BY DEF IInv, Books
<1>8. \A j \in Indices : b2[j] = NULL <=> z2[j] = 0
  BY <1>3, <1>4, <1>5, <1>7
<1>9. ~ g.wrapped => Owned(g, b2, z2)
  BY <1>2, <1>3, <1>4, Handed
<1> HIDE DEF b2, z2
<1>6. Rest(b2, z2, i) = Rest(blocks, block_sizes, i)
  <2>1. \A j \in Indices : j # i => b2[j] = blocks[j] /\ z2[j] = block_sizes[j]
    BY <1>5
  <2> QED BY <2>1, RestSame
<1>10. PICK r : r = Payload(ptr, size)
  OBVIOUS
<1>11. CASE rangeErrors(g, used, r) # {}
  <2>1. g.wrapped
    <3> SUFFICES ASSUME ~ g.wrapped PROVE FALSE
      OBVIOUS
    <3>1. IsHeap(g) /\ Sound(g)
      BY <1>4 DEF Served
    <3>2. \A j \in Indices : b2[j] # NULL => 1 <= z2[j]
      BY <1>5, <1>8
    <3>3. rangeErrors(g, Rest(b2, z2, i), Payload(b2[i], z2[i])) = {}
      BY <1>4, <1>5, <1>9, <3>1, <3>2, NoRangeError, Zenon
    <3>4. rangeErrors(g, used, r) = {}
      BY <1>5, <1>6, <1>10, <3>3
    <3> QED BY <1>11, <3>4
  <2>2. Reject("wrapped")
    BY <1>10, <1>11, <2>1, Zenon DEF Checked
  <2> QED BY <2>2, ResetInv DEF Rejections
<1>12. CASE rangeErrors(g, used, r) = {}
  <2>1. /\ ranges' = used \cup {r}
        /\ heap' = Seen(memset(g, i, ptr, size), ranges')
        /\ Remember(i, ptr, size)
        /\ UNCHANGED <<phase, errors, counters>>
    BY <1>10, <1>12, Zenon DEF Checked
  <2>2. PICK m : m = memset(g, i, ptr, size)
    OBVIOUS
  <2>3. Painted(g, m) /\ IsHeap(m)
    BY <1>4, <2>2, Memset DEF Painted
  <2>4. Painted(m, heap')
    BY <2>1, <2>2, <2>3, SeenKeeps, Zenon
  <2>5. Painted(g, heap')
    BY <2>3, <2>4, PaintedOn
  <2>6. IsHeap(heap') /\ heap'.wrapped = g.wrapped
    BY <1>4, <2>5, PaintedSound
  <2>7. blocks' = b2 /\ block_sizes' = z2
    BY <2>1 DEF Remember, b2, z2
  <2>8. r \in Ranges
    BY <1>3, <1>4, <1>10, PayloadRange
  <2>9. Types'
    BY <1>5, <2>1, <2>6, <2>7, <2>8 DEF IInv, Types, counters
  <2>10. ASSUME ~ heap'.wrapped
         PROVE  /\ Sound(heap') /\ Owned(heap', blocks', block_sizes')
                /\ ranges' = Payloads(blocks', block_sizes')
                /\ Written(heap', blocks', block_sizes')
    <3>1. ~ g.wrapped /\ used = Rest(b2, z2, i) /\ Owned(g, b2, z2)
      BY <1>6, <1>9, <2>6, <2>10
    <3>2. Sound(g) /\ IsHeap(g) /\ Served(heap, heap', blocks[i], ptr, size)
      <4>1. Served(heap, g, blocks[i], ptr, size)
        BY <1>4, <3>1
      <4>2. Served(heap, heap', blocks[i], ptr, size)
        BY <2>5, <4>1, ServedPainted, Zenon
      <4> QED BY <4>1, <4>2 DEF Served
    <3>3. Sound(heap')
      BY <3>2 DEF Served
    <3>4. Owned(heap', blocks', block_sizes')
      <4>1. Owned(heap', [blocks EXCEPT ![i] = ptr], [block_sizes EXCEPT ![i] = size])
        BY <1>2, <1>3, <3>2, Handed
      <4> QED BY <2>7, <4>1 DEF b2, z2
    <3>5. ranges' = Payloads(b2, z2)
      BY <1>4, <1>5, <1>10, <2>1, <3>1, RestOf
    <3>6. \A j \in Indices : j # i /\ b2[j] # NULL => Preserved(g, j, b2[j], z2[j])
      <4> SUFFICES ASSUME NEW j \in Indices, j # i, b2[j] # NULL
                   PROVE  Preserved(g, j, b2[j], z2[j])
        OBVIOUS
      <4>1. b2[j] = blocks[j] /\ z2[j] = block_sizes[j]
        BY <1>5
      <4>2. Written(heap, blocks, block_sizes)
        BY DEF IInv, Books
      <4>3. Preserved(g, j, blocks[j], block_sizes[j])
        BY <1>2, <1>4, <3>1, <4>1, <4>2, StillWritten
      <4> QED BY <4>1, <4>3
    <3>7. Written(m, b2, z2)
      <4>1. m = memset(g, i, b2[i], z2[i]) /\ b2[i] # NULL
        BY <1>4, <1>5, <2>2
      <4> QED BY <1>5, <3>1, <3>2, <3>6, <4>1, MemsetWritten
    <3>8. Written(heap', b2, z2)
      <4>1. heap' = Seen(m, Payloads(b2, z2))
        BY <2>1, <2>2, <3>5
      <4> QED BY <1>5, <2>3, <3>7, <4>1, SeenWritten
    <3> QED BY <2>7, <3>3, <3>4, <3>5, <3>8
  <2>11. Books'
    <3>1. phase' = "valid" /\ errors' \subseteq Failures
      BY <2>1 DEF IInv, Books
    <3> QED BY <1>8, <2>7, <2>10, <3>1 DEF Books, Usable
  <2> QED BY <2>9, <2>11 DEF IInv
<1> QED BY <1>11, <1>12

(* eval_mm_valid on an alloc line of the trace.                            *)
LEMMA ValidAllocInv ==
    ASSUME IInv, NEW i \in Indices, NEW size \in Requests, ValidAlloc(i, size)
    PROVE  IInv'
<1>1. phase = "valid" /\ ~ heap.wrapped /\ blocks[i] = NULL
  BY DEF ValidAlloc, InUse
<1>2. PICK g : g = mm_malloc(heap, size).heap
  OBVIOUS
<1>3. PICK ptr : ptr = mm_malloc(heap, size).ptr
  OBVIOUS
<1>4. CASE ptr = NULL
  <2>1. Reject("mm_malloc failed")
    BY <1>3, <1>4 DEF ValidAlloc
  <2> QED BY <2>1, ResetInv DEF Rejections
<1>5. CASE ptr # NULL
  <2>1. Checked(g, ranges, i, ptr, size)
    BY <1>2, <1>3, <1>5, Zenon DEF ValidAlloc
  <2>2. /\ IsHeap(heap) /\ Sound(heap) /\ Owned(heap, blocks, block_sizes)
        /\ blocks \in [Indices -> Addr] /\ block_sizes \in [Indices -> Nat]
    BY <1>1, UsableFacts DEF Usable
  <2>3. size \in Nat /\ size <= size
    BY DriverAssumption
  <2>4. Answer(heap, g, blocks[i], ptr, size) /\ ~ g.wrapped
    BY <1>1, <1>2, <1>3, <1>5, <2>2, <2>3, MallocAnswer
  <2>5. Preserved(g, i, ptr, Lesser(size, block_sizes[i]))
    <3>1. block_sizes[i] = 0
      BY <1>1 DEF IInv, Books
    <3>2. Lesser(size, block_sizes[i]) = 0
      BY <2>3, <3>1 DEF Lesser
    <3>3. DOMAIN g.data = -1 .. MAX_HEAP /\ MAX_HEAP \in Int
      BY <2>4, Numbers DEF Answer, IsHeap
    <3>4. ptr \in Int
      BY <2>4, Numbers DEF Answer
    <3>5. \A a \in -1 .. MAX_HEAP : ptr <= a => ~ (DSIZE * a < DSIZE * ptr + 0)
      BY <3>3, <3>4 DEF DSIZE
    <3> QED BY <3>2, <3>3, <3>5 DEF Preserved
  <2>6. ranges = Rest(blocks, block_sizes, i) /\ ranges \subseteq Ranges
    <3>1. ranges = Payloads(blocks, block_sizes)
      BY <1>1 DEF IInv, Books
    <3> QED BY <1>1, <3>1, RestOf DEF IInv, Types
  <2> QED BY <1>1, <2>1, <2>4, <2>5, <2>6, CheckedInv
<1> QED BY <1>4, <1>5

(* eval_mm_valid on a realloc line.                                        *)
LEMMA ValidReallocInv ==
    ASSUME IInv, NEW i \in Indices, NEW size \in Requests, ValidRealloc(i, size)
    PROVE  IInv'
<1>1. phase = "valid" /\ ~ heap.wrapped /\ blocks[i] # NULL
  BY DEF ValidRealloc, InUse
<1>2. PICK g : g = mm_realloc(heap, blocks[i], size).heap
  OBVIOUS
<1>3. PICK ptr : ptr = mm_realloc(heap, blocks[i], size).ptr
  OBVIOUS
<1>4. CASE ptr = NULL
  <2>1. Reject("mm_realloc failed")
    BY <1>3, <1>4 DEF ValidRealloc
  <2> QED BY <2>1, ResetInv DEF Rejections
<1>5. CASE ptr # NULL
  <2> DEFINE used == remove_range(ranges, blocks[i])
  <2>1. Checked(g, used, i, ptr, size)
    BY <1>2, <1>3, <1>5, Zenon DEF ValidRealloc
  <2>2. /\ IsHeap(heap) /\ Sound(heap) /\ Owned(heap, blocks, block_sizes)
        /\ blocks \in [Indices -> Addr] /\ block_sizes \in [Indices -> Nat]
        /\ blocks[i] \in Used(heap)
    BY <1>1, UsableFacts DEF Usable
  <2>3. size \in Nat /\ size <= size /\ size \in Int
    BY DriverAssumption
  <2>4. Answer(heap, g, blocks[i], ptr, size) /\ Carried(heap, g, blocks[i], ptr, size)
    BY <1>1, <1>2, <1>3, <1>5, <2>2, <2>3, ReallocAnswer
  <2>5. Preserved(g, i, ptr, Lesser(size, block_sizes[i]))
    <3>1. /\ block_sizes[i] \in Nat
          /\ block_sizes[i] <= DSIZE * SizeOf(heap, blocks[i]) - DSIZE
          /\ Preserved(heap, i, blocks[i], block_sizes[i])
      BY <1>1, <2>2 DEF Owned, IInv, Books, Written
    <3>2. IsHeap(g) /\ ptr \in Addr
      BY <2>4 DEF Answer
    <3> QED BY <2>2, <2>3, <2>4, <3>1, <3>2, CarriedPreserved
  <2>6. used = Rest(blocks, block_sizes, i) /\ used \subseteq Ranges
    <3>1. ranges = Payloads(blocks, block_sizes)
      BY <1>1 DEF IInv, Books
    <3>2. used \subseteq ranges
      BY DEF remove_range
    <3>3. ranges \subseteq Ranges
      BY DEF IInv, Types
    <3> QED BY <1>1, <2>2, <3>1, <3>2, <3>3, RestRemoved
  <2> HIDE DEF used
  <2> QED BY <1>1, <2>1, <2>4, <2>5, <2>6, CheckedInv
<1> QED BY <1>4, <1>5

(* eval_mm_valid on a free line.                                           *)
LEMMA ValidFreeInv ==
    ASSUME IInv, NEW i \in Indices, ValidFree(i)
    PROVE  IInv'
<1>1. phase = "valid" /\ ~ heap.wrapped /\ blocks[i] # NULL
  BY DEF ValidFree, InUse
<1>2. PICK g : g = mm_free(heap, blocks[i])
  OBVIOUS
<1>3. /\ ranges' = remove_range(ranges, blocks[i])
      /\ heap' = Seen(g, ranges')
      /\ Remember(i, NULL, 0)
      /\ UNCHANGED <<phase, errors, counters>>
  BY <1>2 DEF ValidFree
<1>4. /\ IsHeap(heap) /\ Sound(heap) /\ Owned(heap, blocks, block_sizes)
      /\ blocks \in [Indices -> Addr] /\ block_sizes \in [Indices -> Nat]
      /\ blocks[i] \in Used(heap)
  BY <1>1, UsableFacts DEF Usable
<1>5. /\ Served(heap, g, blocks[i], NULL, 0) /\ Keeps(heap, g, Used(heap) \ {blocks[i]})
      /\ g.wrapped = heap.wrapped
  BY <1>2, <1>4, FreeServed
<1>6. IsHeap(g) /\ Sound(g) /\ NULL \in Addr
  BY <1>5 DEF Served
<1> DEFINE b2 == [blocks EXCEPT ![i] = NULL]
           z2 == [block_sizes EXCEPT ![i] = 0]
<1>7. /\ b2 \in [Indices -> Addr] /\ z2 \in [Indices -> Nat] /\ b2[i] = NULL /\ z2[i] = 0
      /\ \A j \in Indices : j # i => b2[j] = blocks[j] /\ z2[j] = block_sizes[j]
  BY <1>4, <1>6
<1>9. blocks' = b2 /\ block_sizes' = z2
  BY <1>3 DEF Remember
<1>10. Painted(g, heap') /\ IsHeap(heap') /\ heap'.wrapped = g.wrapped
  <2>1. Painted(g, heap')
    BY <1>3, <1>6, SeenKeeps, Zenon
  <2> QED BY <1>6, <2>1, PaintedSound
<1>11. Sound(heap') /\ Owned(heap', b2, z2)
  <2>1. Served(heap, heap', blocks[i], NULL, 0)
    BY <1>5, <1>10, ServedPainted, Zenon
  <2>2. Owned(heap', b2, z2)
    BY <1>4, <2>1, Handed
  <2> QED BY <2>1, <2>2 DEF Served
<1> HIDE DEF b2, z2
<1>8. Rest(b2, z2, i) = Rest(blocks, block_sizes, i)
  <2>1. \A j \in Indices : j # i => b2[j] = blocks[j] /\ z2[j] = block_sizes[j]
    BY <1>7
  <2> QED BY <2>1, RestSame
<1>12. ranges' = Payloads(b2, z2)
  <2>1. ranges = Payloads(blocks, block_sizes)
    BY <1>1 DEF IInv, Books
  <2>2. remove_range(ranges, blocks[i]) = Rest(blocks, block_sizes, i)
    BY <1>1, <1>4, <2>1, RestRemoved
  <2> QED BY <1>3, <1>7, <1>8, <2>2, RestOf
<1>13. Written(heap', b2, z2)
  <2>1. Written(g, b2, z2)
    <3> SUFFICES ASSUME NEW j \in Indices, b2[j] # NULL
                 PROVE  Preserved(g, j, b2[j], z2[j])
      BY DEF Written
    <3>1. j # i /\ b2[j] = blocks[j] /\ z2[j] = block_sizes[j]
      BY <1>7
    <3>2. Written(heap, blocks, block_sizes)
      BY <1>1 DEF IInv, Books
    <3>3. Preserved(g, j, blocks[j], block_sizes[j])
      BY <1>4, <1>5, <1>6, <3>1, <3>2, StillWritten
    <3> QED BY <3>1, <3>3
  <2> QED BY <1>3, <1>6, <1>7, <1>12, <2>1, SeenWritten
<1>14. Types'
  <2>1. ranges' \subseteq Ranges
    BY <1>7, <1>12, PayloadRanges
  <2> QED BY <1>3, <1>7, <1>9, <1>10, <2>1 DEF IInv, Types, counters
<1>15. \A j \in Indices : b2[j] = NULL <=> z2[j] = 0
  <2>1. \A j \in Indices : blocks[j] = NULL <=> block_sizes[j] = 0
    BY <1>1 DEF IInv, Books
  <2> QED BY <1>7, <2>1
<1>16. Books'
  <2>1. phase' = "valid" /\ errors' \subseteq Failures
    BY <1>1, <1>3 DEF IInv, Books
  <2> QED BY <1>9, <1>11, <1>12, <1>13, <1>15, <2>1 DEF Books, Usable
<1> QED BY <1>14, <1>16 DEF IInv

(* eval_mm_util on an alloc line.                                          *)
LEMMA UtilAllocInv ==
    ASSUME IInv, NEW i \in Indices, NEW size \in Requests, UtilAlloc(i, size)
    PROVE  IInv'
<1>1. phase = "util" /\ ~ heap.wrapped /\ blocks[i] = NULL
  BY DEF UtilAlloc, InUse
<1>2. PICK g : g = mm_malloc(heap, size).heap
  OBVIOUS
<1>3. PICK ptr : ptr = mm_malloc(heap, size).ptr
  OBVIOUS
<1>4. CASE ptr = NULL
  <2>1. Exit("mm_malloc failed")
    BY <1>3, <1>4 DEF UtilAlloc
  <2> QED BY <1>1, <2>1, ExitInv DEF Failures, Rejections
<1>5. CASE ptr # NULL
  <2>1. /\ heap' = Seen(g, {}) /\ Remember(i, ptr, size)
        /\ total_size' = total_size + size
        /\ max_total_size' = Greater(total_size', max_total_size)
        /\ UNCHANGED <<phase, ranges, errors>>
    BY <1>2, <1>3, <1>5, Zenon DEF UtilAlloc
  <2>2. IsHeap(heap) /\ Sound(heap)
    BY <1>1, UsableFacts DEF Usable
  <2>3. size \in Nat /\ size <= size /\ size # 0
    BY DriverAssumption
  <2>4. Answer(heap, g, blocks[i], ptr, size)
    BY <1>1, <1>2, <1>3, <1>5, <2>2, <2>3, MallocAnswer
  <2>5. block_sizes[i] = 0 /\ total_size \in Nat
    BY <1>1 DEF IInv, Books, Types
  <2>6. total_size' = total_size - block_sizes[i] + size
    BY <2>1, <2>3, <2>5
  <2>7. IsHeap(g) /\ ptr \in Addr /\ (~ g.wrapped => Served(heap, g, blocks[i], ptr, size))
    BY <2>4 DEF Answer
  <2> QED BY <1>1, <1>5, <2>1, <2>3, <2>6, <2>7, UtilInv
<1> QED BY <1>4, <1>5

(* eval_mm_util on a realloc line.                                         *)
LEMMA UtilReallocInv ==
    ASSUME IInv, NEW i \in Indices, NEW size \in Requests, UtilRealloc(i, size)
    PROVE  IInv'
<1>1. phase = "util" /\ ~ heap.wrapped /\ blocks[i] # NULL
  BY DEF UtilRealloc, InUse
<1>2. PICK g : g = mm_realloc(heap, blocks[i], size).heap
  OBVIOUS
<1>3. PICK ptr : ptr = mm_realloc(heap, blocks[i], size).ptr
  OBVIOUS
<1>4. CASE ptr = NULL
  <2>1. Exit("mm_realloc failed")
    BY <1>3, <1>4 DEF UtilRealloc
  <2> QED BY <1>1, <2>1, ExitInv DEF Failures, Rejections
<1>5. CASE ptr # NULL
  <2>1. /\ heap' = Seen(g, {}) /\ Remember(i, ptr, size)
        /\ total_size' = total_size + (size - block_sizes[i])
        /\ max_total_size' = Greater(total_size', max_total_size)
        /\ UNCHANGED <<phase, ranges, errors>>
    BY <1>2, <1>3, <1>5, Zenon DEF UtilRealloc
  <2>2. IsHeap(heap) /\ Sound(heap) /\ blocks[i] \in Used(heap)
    BY <1>1, UsableFacts DEF Usable
  <2>3. size \in Nat /\ size <= size /\ size # 0
    BY DriverAssumption
  <2>4. Answer(heap, g, blocks[i], ptr, size)
    BY <1>1, <1>2, <1>3, <1>5, <2>2, <2>3, ReallocAnswer
  <2>5. block_sizes[i] \in Nat /\ total_size \in Nat
    BY DEF IInv, Types
  <2>6. total_size' = total_size - block_sizes[i] + size
    BY <2>1, <2>3, <2>5
  <2>7. IsHeap(g) /\ ptr \in Addr /\ (~ g.wrapped => Served(heap, g, blocks[i], ptr, size))
    BY <2>4 DEF Answer
  <2> QED BY <1>1, <1>5, <2>1, <2>3, <2>6, <2>7, UtilInv
<1> QED BY <1>4, <1>5

(* eval_mm_util on a free line.                                            *)
LEMMA UtilFreeInv ==
    ASSUME IInv, NEW i \in Indices, UtilFree(i)
    PROVE  IInv'
<1>1. phase = "util" /\ ~ heap.wrapped /\ blocks[i] # NULL
  BY DEF UtilFree, InUse
<1>2. PICK g : g = mm_free(heap, blocks[i])
  OBVIOUS
<1>3. /\ heap' = Seen(g, {}) /\ Remember(i, NULL, 0)
      /\ total_size' = total_size - block_sizes[i]
      /\ max_total_size' = max_total_size /\ UNCHANGED <<phase, ranges, errors>>
  BY <1>2 DEF UtilFree
<1>4. IsHeap(heap) /\ Sound(heap) /\ blocks[i] \in Used(heap)
  BY <1>1, UsableFacts DEF Usable
<1>5. Served(heap, g, blocks[i], NULL, 0)
  BY <1>2, <1>4, FreeServed
<1>6. IsHeap(g) /\ NULL \in Addr
  BY <1>5 DEF Served
<1>7. block_sizes[i] \in Nat /\ total_size \in Nat
  BY DEF IInv, Types
<1>8. total_size' = total_size - block_sizes[i] + 0
  BY <1>3, <1>7
<1> QED BY <1>1, <1>3, <1>5, <1>6, <1>8, UtilInv

(* eval_mm_speed on an alloc line.                                         *)
LEMMA SpeedAllocInv ==
    ASSUME IInv, NEW i \in Indices, NEW size \in Requests, SpeedAlloc(i, size)
    PROVE  IInv'
<1>1. phase = "speed" /\ ~ heap.wrapped /\ blocks[i] = NULL
  BY DEF SpeedAlloc, InUse
<1>2. PICK g : g = mm_malloc(heap, size).heap
  OBVIOUS
<1>3. PICK ptr : ptr = mm_malloc(heap, size).ptr
  OBVIOUS
<1>4. CASE ptr = NULL
  <2>1. Exit("mm_malloc error")
    BY <1>3, <1>4 DEF SpeedAlloc
  <2> QED BY <1>1, <2>1, ExitInv DEF Failures
<1>5. CASE ptr # NULL
  <2>1. /\ heap' = Seen(g, {}) /\ blocks' = [blocks EXCEPT ![i] = ptr]
        /\ UNCHANGED <<phase, ranges, block_sizes, counters, errors>>
    BY <1>2, <1>3, <1>5, Zenon DEF SpeedAlloc
  <2>2. IsHeap(heap) /\ Sound(heap)
    BY <1>1, UsableFacts DEF Usable
  <2>3. 0 \in Nat /\ 0 <= size
    BY DriverAssumption
  <2>4. Answer(heap, g, blocks[i], ptr, 0)
    BY <1>1, <1>2, <1>3, <1>5, <2>2, <2>3, MallocAnswer
  <2>5. IsHeap(g) /\ ptr \in Addr /\ (~ g.wrapped => Served(heap, g, blocks[i], ptr, 0))
    BY <2>4 DEF Answer
  <2> QED BY <1>1, <2>1, <2>5, SpeedInv
<1> QED BY <1>4, <1>5

(* eval_mm_speed on a realloc line.                                        *)
LEMMA SpeedReallocInv ==
    ASSUME IInv, NEW i \in Indices, NEW size \in Requests, SpeedRealloc(i, size)
    PROVE  IInv'
<1>1. phase = "speed" /\ ~ heap.wrapped /\ blocks[i] # NULL
  BY DEF SpeedRealloc, InUse
<1>2. PICK g : g = mm_realloc(heap, blocks[i], size).heap
  OBVIOUS
<1>3. PICK ptr : ptr = mm_realloc(heap, blocks[i], size).ptr
  OBVIOUS
<1>4. CASE ptr = NULL
  <2>1. Exit("mm_realloc error")
    BY <1>3, <1>4 DEF SpeedRealloc
  <2> QED BY <1>1, <2>1, ExitInv DEF Failures
<1>5. CASE ptr # NULL
  <2>1. /\ heap' = Seen(g, {}) /\ blocks' = [blocks EXCEPT ![i] = ptr]
        /\ UNCHANGED <<phase, ranges, block_sizes, counters, errors>>
    BY <1>2, <1>3, <1>5, Zenon DEF SpeedRealloc
  <2>2. IsHeap(heap) /\ Sound(heap) /\ blocks[i] \in Used(heap)
    BY <1>1, UsableFacts DEF Usable
  <2>3. 0 \in Nat /\ 0 <= size
    BY DriverAssumption
  <2>4. Answer(heap, g, blocks[i], ptr, 0)
    BY <1>1, <1>2, <1>3, <1>5, <2>2, <2>3, ReallocAnswer
  <2>5. IsHeap(g) /\ ptr \in Addr /\ (~ g.wrapped => Served(heap, g, blocks[i], ptr, 0))
    BY <2>4 DEF Answer
  <2> QED BY <1>1, <2>1, <2>5, SpeedInv
<1> QED BY <1>4, <1>5

(* eval_mm_speed on a free line.                                           *)
LEMMA SpeedFreeInv ==
    ASSUME IInv, NEW i \in Indices, SpeedFree(i)
    PROVE  IInv'
<1>1. phase = "speed" /\ ~ heap.wrapped /\ blocks[i] # NULL
  BY DEF SpeedFree, InUse
<1>2. PICK g : g = mm_free(heap, blocks[i])
  OBVIOUS
<1>3. /\ heap' = Seen(g, {}) /\ blocks' = [blocks EXCEPT ![i] = NULL]
      /\ UNCHANGED <<phase, ranges, block_sizes, counters, errors>>
  BY <1>2 DEF SpeedFree
<1>4. IsHeap(heap) /\ Sound(heap) /\ blocks[i] \in Used(heap)
  BY <1>1, UsableFacts DEF Usable
<1>5. Served(heap, g, blocks[i], NULL, 0)
  BY <1>2, <1>4, FreeServed
<1>6. IsHeap(g) /\ NULL \in Addr
  BY <1>5 DEF Served
<1> QED BY <1>1, <1>3, <1>5, <1>6, SpeedInv

(* Every step of the driver keeps the invariant.                           *)
LEMMA NextInv == IInv /\ [Next]_vars => IInv'
<1> SUFFICES ASSUME IInv, [Next]_vars
             PROVE  IInv'
  OBVIOUS
<1>1. CASE NextEvaluation
  BY <1>1, StartInv DEF NextEvaluation
<1>2. CASE \E i \in Indices : ValidFree(i) \/ UtilFree(i) \/ SpeedFree(i)
  BY <1>2, ValidFreeInv, UtilFreeInv, SpeedFreeInv
<1>3. CASE \E i \in Indices : \E size \in Requests : ValidAlloc(i, size) \/ ValidRealloc(i, size)
  BY <1>3, ValidAllocInv, ValidReallocInv
<1>4. CASE \E i \in Indices : \E size \in Requests : UtilAlloc(i, size) \/ UtilRealloc(i, size)
  BY <1>4, UtilAllocInv, UtilReallocInv
<1>5. CASE \E i \in Indices : \E size \in Requests : SpeedAlloc(i, size) \/ SpeedRealloc(i, size)
  BY <1>5, SpeedAllocInv, SpeedReallocInv
<1>6. CASE UNCHANGED vars
  BY <1>6 DEF vars, IInv, Types, Books, Usable
<1> QED BY <1>1, <1>2, <1>3, <1>4, <1>5, <1>6, Zenon DEF Next

(* The heap is in order and the driver's books agree with it.              *)
THEOREM Invariant == Spec => []IInv
<1>1. Init => IInv
  BY InitInv
<1>2. IInv /\ [Next]_vars => IInv'
  BY NextInv
<1> QED BY <1>1, <1>2, PTL DEF Spec

-----------------------------------------------------------------------------
(* What that says of every state.                                          *)

(* A heap in order, as mm_check walks it.                                  *)
LEMMA InOrder ==
    ASSUME IInv, Usable
    PROVE  IsHeap(heap) /\ Tiling(heap) /\ Holds(heap, Free(heap)) /\ Blocks(heap) = Blk(heap)
<1>1. IsHeap(heap) /\ Sound(heap)
  BY UsableFacts
<1>2. Tiling(heap) /\ Holds(heap, Free(heap))
  BY <1>1 DEF Sound
<1> QED BY <1>1, <1>2, BlocksAre

(* Every variable has its type.                                            *)
THEOREM TypeCorrect == Spec => []TypeOK
<1>1. IInv => TypeOK
  BY DEF IInv, Types, TypeOK, IsHeap, Tags
<1> QED BY <1>1, Invariant, PTL

(* The heap is tiled by its blocks, each with a header and a footer that   *)
(* agree: what every routine of mm.c relies on to find the neighbours.     *)
THEOREM AlwaysTiled == Spec => []Tiled
<1>1. IInv => Tiled
  <2> SUFFICES ASSUME IInv, Usable
               PROVE  /\ heap.hdr[heap.brk] = Epilogue
                      /\ \A p \in Blk(heap) : /\ SizeOf(heap, p) >= MIN_BLK_SIZE
                                              /\ FTRP(heap, p) = heap.hdr[p]
                                              /\ NEXT_BLKP(heap, p) \in Blk(heap) \cup {heap.brk}
    BY InOrder DEF Tiled
  <2>1. IsHeap(heap) /\ Tiling(heap)
    BY InOrder
  <2>2. heap.hdr[heap.brk] = Epilogue
    BY <2>1 DEF Tiling, Framed
  <2>3. ASSUME NEW p \in Blk(heap)
        PROVE  /\ SizeOf(heap, p) >= MIN_BLK_SIZE
               /\ FTRP(heap, p) = heap.hdr[p]
               /\ NEXT_BLKP(heap, p) \in Blk(heap) \cup {heap.brk}
    BY <2>1, BlockFacts DEF Edge, MIN_BLK_SIZE
  <2> QED BY <2>2, <2>3
<1> QED BY <1>1, Invariant, PTL

(* A list that names each of its members once is as long as they are many. *)
LEMMA OnceEach ==
    ASSUME NEW l, l \in Seq(Addr), \A j, k \in DOMAIN l : j < k => l[j] # l[k]
    PROVE  Cardinality(ToSet(l)) = Len(l)
<1>1. Len(l) \in Nat /\ DOMAIN l = 1 .. Len(l) /\ ToSet(l) = {l[k] : k \in 1 .. Len(l)}
  BY DEF ToSet
<1>2. \A j, k \in 1 .. Len(l) : l[j] = l[k] => j = k
  BY <1>1
<1>3. l \in [1 .. Len(l) -> ToSet(l)] /\ \A x \in ToSet(l) : \E k \in 1 .. Len(l) : l[k] = x
  BY <1>1
<1>4. l \in Surjection(1 .. Len(l), ToSet(l)) /\ l \in Injection(1 .. Len(l), ToSet(l))
  BY <1>1, <1>2, <1>3 DEF Surjection, Injection, IsInjective
<1>5. IsFiniteSet(1 .. Len(l)) /\ Cardinality(1 .. Len(l)) = Len(l)
  <2>1. 1 \in Int /\ Len(l) \in Int
    BY <1>1
  <2>2. /\ IsFiniteSet(1 .. Len(l))
        /\ Cardinality(1 .. Len(l)) = IF 1 > Len(l) THEN 0 ELSE Len(l) - 1 + 1
    BY <2>1, FS_Interval, Zenon
  <2> QED BY <1>1, <2>2
<1>6. Cardinality(ToSet(l)) = Cardinality(1 .. Len(l))
  BY <1>4, <1>5, FS_Surjection, Zenon
<1> QED BY <1>5, <1>6

(* The lists hold the free blocks, each once, in its list, in ascending    *)
(* order, and nothing else: insert_free_block and delete_free_block keep   *)
(* them so, whatever routine calls them.                                   *)
THEOREM AlwaysListed == Spec => []ListsExact
<1>1. IInv => ListsExact
  <2> SUFFICES ASSUME IInv, Usable
               PROVE  /\ mm_check(heap) \subseteq {"contiguous"}
                      /\ Listed(heap) \subseteq Blk(heap)
                      /\ \A i \in DOMAIN heap.lists :
                           /\ Cardinality(ToSet(heap.lists[i])) = Len(heap.lists[i])
                           /\ IsSorted(heap.lists[i], LAMBDA p, q : SizeOf(heap, p) <= SizeOf(heap, q))
    BY InOrder, Zenon DEF ListsExact
  <2>1. /\ IsHeap(heap) /\ Tiling(heap) /\ Holds(heap, Free(heap))
        /\ Blocks(heap) = Blk(heap)
    BY InOrder
  <2>2. DOMAIN heap.lists = Levels /\ \A i \in Levels : heap.lists[i] \in Seq(Addr)
    BY <2>1 DEF IsHeap
  <2>3. ASSUME NEW i \in Levels
        PROVE  InList(heap, heap.lists[i], i, Free(heap))
    BY <2>1 DEF Holds
  <2>4. Listed(heap) \subseteq Free(heap)
    <3>1. \A i \in Levels : ToSet(heap.lists[i]) \subseteq Free(heap)
      BY <2>3 DEF InList, ToSet
    <3> QED BY <2>2, <3>1 DEF Listed
  <2>5. \A p \in Free(heap) : p \in ToSet(heap.lists[get_seg_level(SizeOf(heap, p))])
    <3> SUFFICES ASSUME NEW p \in Free(heap)
                 PROVE  p \in ToSet(heap.lists[get_seg_level(SizeOf(heap, p))])
      OBVIOUS
    <3>1. p \in Blk(heap)
      BY DEF Free
    <3>2. SizeOf(heap, p) \in Int
      BY <2>1, <3>1, BlockFacts
    <3>3. PICK i : i = get_seg_level(SizeOf(heap, p))
      OBVIOUS
    <3>4. i \in Levels
      BY <3>2, <3>3, LevelOf
    <3>5. \E k \in DOMAIN heap.lists[i] : heap.lists[i][k] = p
      BY <2>3, <3>3, <3>4 DEF InList
    <3> QED BY <3>3, <3>5 DEF ToSet
  <2>6. "unlisted" \notin mm_check(heap)
    BY <2>1, <2>5 DEF mm_check, Free
  <2>7. "allocated" \notin mm_check(heap)
    BY <2>4 DEF mm_check, Free
  <2>8. mm_check(heap) \subseteq {"contiguous"}
    BY <2>6, <2>7 DEF mm_check
  <2>9. ASSUME NEW i \in Levels
        PROVE  Cardinality(ToSet(heap.lists[i])) = Len(heap.lists[i])
    <3>1. \A j, k \in DOMAIN heap.lists[i] : j < k => heap.lists[i][j] # heap.lists[i][k]
      BY <2>3, <2>9 DEF InList
    <3> QED BY <2>2, <3>1, OnceEach
  <2>10. ASSUME NEW i \in Levels
         PROVE  IsSorted(heap.lists[i], LAMBDA p, q : SizeOf(heap, p) <= SizeOf(heap, q))
    <3>1. DOMAIN heap.lists[i] = 1 .. Len(heap.lists[i])
      BY <2>2
    <3>2. \A j, k \in 1 .. Len(heap.lists[i]) :
            j < k => SizeOf(heap, heap.lists[i][j]) <= SizeOf(heap, heap.lists[i][k])
      BY <2>3, <3>1 DEF InList
    <3> QED BY <3>2 DEF IsSorted
  <2>11. Listed(heap) \subseteq Blk(heap)
    BY <2>4 DEF Free
  <2> QED BY <2>2, <2>8, <2>9, <2>10, <2>11
<1> QED BY <1>1, Invariant, PTL

(* find_fit, which searches level after level and stops at the first block *)
(* that is large enough, returns the smallest of all that are.             *)
THEOREM BestFit == Spec => []FindFitIsBest
<1>1. IInv => FindFitIsBest
  <2> SUFFICES ASSUME IInv, Usable, NEW request \in Requests, NEW size, size = asizeOf(request),
                      NEW fit, fit = find_fit(heap, size),
                      NEW fits, fits = {p \in Blocks(heap) : ~IsAlloc(heap, p) /\ SizeOf(heap, p) >= size}
               PROVE  IF fits = {} THEN fit = NULL
                      ELSE fit \in fits /\ \A p \in fits : SizeOf(heap, fit) <= SizeOf(heap, p)
    BY Zenon DEF FindFitIsBest
  <2>1. IsHeap(heap) /\ Tiling(heap) /\ Sound(heap) /\ Blocks(heap) = Blk(heap)
    BY InOrder DEF Sound
  <2>2. size \in Int
    BY DriverAssumption, AsizeOf
  <2>3. fits = {p \in Free(heap) : SizeOf(heap, p) >= size}
    BY <2>1 DEF Free
  <2>4. \A p \in Free(heap) : SizeOf(heap, p) \in Int
    BY <2>1, BlockFacts DEF Free
  <2>5. \/ fit = NULL /\ \A p \in Free(heap) : SizeOf(heap, p) < size
        \/ /\ fit \in Free(heap) /\ SizeOf(heap, fit) >= size
           /\ \A p \in Free(heap) : SizeOf(heap, p) >= size => SizeOf(heap, fit) <= SizeOf(heap, p)
    BY <2>1, <2>2, FindFit, Zenon
  <2> QED BY <2>2, <2>3, <2>4, <2>5
<1> QED BY <1>1, Invariant, PTL

(* Every allocated block belongs to one index of the trace and has room    *)
(* for what that index asked for.                                          *)
THEOREM Ownership == Spec => []BlocksOwned
<1>1. IInv => BlocksOwned
  <2> SUFFICES ASSUME IInv, Usable
               PROVE  BlocksOwned
    BY DEF BlocksOwned
  <2>1. Blocks(heap) = Blk(heap) /\ Owned(heap, blocks, block_sizes)
    BY InOrder, UsableFacts
  <2> QED BY <2>1 DEF BlocksOwned, Owned, Used, InUse
<1> QED BY <1>1, Invariant, PTL

(* eval_mm_valid rejects a trace only when the memory is used up or a size *)
(* wrapped: no payload leaves the heap or overlaps another, and a block    *)
(* that mm_realloc moves keeps what was written to it.                     *)
THEOREM OnlyFullIsRejected == Spec => []RejectsOnlyFull
<1>1. IInv => RejectsOnlyFull
  BY DEF IInv, Books, RejectsOnlyFull, Failures, Rejections
<1> QED BY <1>1, Invariant, PTL

(* The utilization eval_mm_util reports is at most 1.                      *)
THEOREM Utilization == Spec => []UtilAtMostOne
<1>1. IInv => UtilAtMostOne
  BY DEF IInv, Books, UtilAtMostOne
<1> QED BY <1>1, Invariant, PTL

(* A refused request found neither a free block nor memory, and the heap   *)
(* is as before: mm_realloc does not give up the old block first.          *)
THEOREM RefusedIsHarmless == Spec => []RefusalKeepsHeap
<1>1. IInv => RefusalKeepsHeap
  <2> SUFFICES ASSUME IInv, Usable, NEW size \in Requests
               PROVE  /\ mm_malloc(heap, size).ptr = NULL =>
                           mm_malloc(heap, size).heap = heap /\ NoRoomFor(size)
                      /\ \A i \in Indices : InUse(i) /\ mm_realloc(heap, blocks[i], size).ptr = NULL =>
                           mm_realloc(heap, blocks[i], size).heap = heap /\ NoRoomFor(size)
    BY Zenon DEF RefusalKeepsHeap
  <2>1. /\ IsHeap(heap) /\ Sound(heap) /\ Blocks(heap) = Blk(heap)
        /\ \A i \in Indices : InUse(i) => blocks[i] \in Used(heap)
    BY InOrder, UsableFacts DEF InUse
  <2>2. size \in Int /\ 1 <= size /\ size <= INT_MAX
    <3>1. INT_MAX \in Int
      BY DEF INT_MAX
    <3> QED BY <3>1, DriverAssumption
  <2>3. Refused(heap, size) => NoRoomFor(size)
    BY <2>1 DEF Refused, NoRoomFor, Free
  <2>4. mm_malloc(heap, size).ptr = NULL =>
          mm_malloc(heap, size).heap = heap /\ Refused(heap, size)
    <3> DEFINE g   == mm_malloc(heap, size).heap
               ptr == mm_malloc(heap, size).ptr
    <3>1. (ptr = NULL /\ g = heap /\ Refused(heap, size)) \/ Allocated(heap, g, ptr, size)
      BY <2>1, <2>2, Malloc, Zenon
    <3> QED BY <3>1 DEF Allocated
  <2>5. ASSUME NEW i \in Indices, InUse(i), mm_realloc(heap, blocks[i], size).ptr = NULL
        PROVE  mm_realloc(heap, blocks[i], size).heap = heap /\ Refused(heap, size)
    <3> DEFINE g   == mm_realloc(heap, blocks[i], size).heap
               ptr == mm_realloc(heap, blocks[i], size).ptr
    <3>1. \/ ptr = NULL /\ g = heap /\ Refused(heap, size)
          \/ /\ Outcome(heap, g, blocks[i], ptr, size)
             /\ ~ g.wrapped => ptr < blocks[i] \/ StaysCoalesced(heap, g)
      BY <2>1, <2>2, <2>5, Realloc, Zenon
    <3> QED BY <2>5, <3>1 DEF Outcome, Reallocated, Misled
  <2> QED BY <2>3, <2>4, <2>5
<1> QED BY <1>1, Invariant, PTL

-----------------------------------------------------------------------------
(* Where free blocks side by side come from.                               *)

(* What the driver writes between two calls does not bring mm_check to     *)
(* report them, nor does a routine that coalesces.                         *)
LEMMA NoNewPair ==
    ASSUME NEW h, IsHeap(h), Sound(h), NEW g, IsHeap(g), Sound(g), StaysCoalesced(h, g),
           NEW k, Painted(g, k)
    PROVE  "contiguous" \in mm_check(k) => "contiguous" \in mm_check(h)
<1>1. IsHeap(k) /\ Tiling(k) /\ Tiling(h)
  BY PaintedSound DEF Sound
<1>2. Alone(g, {}) <=> Alone(k, {})
  BY SameAlone DEF Painted
<1>3. /\ "contiguous" \in mm_check(k) <=> ~ Alone(k, {})
      /\ "contiguous" \in mm_check(h) <=> ~ Alone(h, {})
  BY <1>1, ReportsPairs
<1> QED BY <1>2, <1>3 DEF StaysCoalesced

(* A step that brings mm_check to report them moved a block down.          *)
PairOnlyByMove ==
  /\ ~heap'.wrapped
  /\ "contiguous" \in mm_check(heap') \ mm_check(heap)
  => \E i \in Indices : InUse(i) /\ NULL < blocks'[i] /\ blocks'[i] < blocks[i]

(* mm_malloc answered and the driver wrote its payload.                    *)
LEMMA AllocPairs ==
    ASSUME IInv, Usable, NEW size \in Requests, NEW ptr, ptr = mm_malloc(heap, size).ptr, ptr # NULL,
           NEW g, g = mm_malloc(heap, size).heap, IsHeap(g) => Painted(g, heap')
    PROVE  PairOnlyByMove
<1>1. IsHeap(heap) /\ Sound(heap)
  BY UsableFacts
<1>2. Allocated(heap, g, ptr, size)
  <2>1. size \in Int /\ 1 <= size
    BY DriverAssumption
  <2>2. \/ ptr = NULL /\ g = heap
        \/ Allocated(heap, g, ptr, size)
    BY <1>1, <2>1, Malloc, Zenon
  <2> QED BY <2>2
<1>3. IsHeap(g) /\ Sound(g) /\ StaysCoalesced(heap, g)
  BY <1>2 DEF Allocated, Becomes
<1>4. "contiguous" \in mm_check(heap') => "contiguous" \in mm_check(heap)
  BY <1>1, <1>3, NoNewPair
<1> QED BY <1>4 DEF PairOnlyByMove

(* mm_realloc answered: what it splits off is coalesced but for a block    *)
(* that moved down.                                                        *)
LEMMA ReallocPairs ==
    ASSUME IInv, Usable, NEW i \in Indices, blocks[i] # NULL,
           NEW size \in Requests, NEW ptr, ptr = mm_realloc(heap, blocks[i], size).ptr, ptr # NULL,
           NEW g, g = mm_realloc(heap, blocks[i], size).heap,
           IsHeap(g) => Painted(g, heap') /\ blocks' = [blocks EXCEPT ![i] = ptr]
    PROVE  PairOnlyByMove
<1>1. IsHeap(heap) /\ Sound(heap) /\ blocks[i] \in Used(heap) /\ blocks \in [Indices -> Addr]
  BY UsableFacts
<1>2. /\ Outcome(heap, g, blocks[i], ptr, size)
      /\ ~ g.wrapped => ptr < blocks[i] \/ StaysCoalesced(heap, g)
  <2>1. size \in Int /\ 1 <= size /\ size <= INT_MAX
    <3>1. INT_MAX \in Int
      BY DEF INT_MAX
    <3> QED BY <3>1, DriverAssumption
  <2>2. \/ ptr = NULL /\ g = heap
        \/ /\ Outcome(heap, g, blocks[i], ptr, size)
           /\ ~ g.wrapped => ptr < blocks[i] \/ StaysCoalesced(heap, g)
    BY <1>1, <2>1, Realloc, Zenon
  <2> QED BY <2>2
<1>3. IsHeap(g) /\ ptr \in Addr /\ (~ g.wrapped => Sound(g))
  BY <1>2 DEF Outcome, Reallocated, Misled, Becomes
<1>4. Painted(g, heap') /\ blocks'[i] = ptr /\ heap'.wrapped = g.wrapped
  <2>1. Painted(g, heap') /\ blocks'[i] = ptr
    BY <1>1, <1>3
  <2> QED BY <1>3, <2>1, PaintedSound
<1>5. CASE ptr < blocks[i]
  <2>1. NULL < ptr
    BY <1>3, Numbers DEF NULL
  <2> QED BY <1>4, <1>5, <2>1 DEF PairOnlyByMove, InUse
<1>6. CASE ~ (ptr < blocks[i])
  <2> SUFFICES ASSUME ~ heap'.wrapped
               PROVE  "contiguous" \in mm_check(heap') => "contiguous" \in mm_check(heap)
    BY DEF PairOnlyByMove
  <2>1. Sound(g) /\ StaysCoalesced(heap, g)
    BY <1>2, <1>3, <1>4, <1>6
  <2> QED BY <1>1, <1>3, <1>4, <2>1, NoNewPair
<1> QED BY <1>5, <1>6

(* mm_free coalesces.                                                      *)
LEMMA FreePairs ==
    ASSUME IInv, Usable, NEW i \in Indices, blocks[i] # NULL,
           NEW g, g = mm_free(heap, blocks[i]), IsHeap(g) => Painted(g, heap')
    PROVE  PairOnlyByMove
<1>1. IsHeap(heap) /\ Sound(heap) /\ blocks[i] \in Used(heap)
  BY UsableFacts
<1>2. Becomes(heap, g, {blocks[i]}, {}) /\ StaysCoalesced(heap, g)
  BY <1>1, MmFree
<1>3. IsHeap(g) /\ Sound(g)
  BY <1>2 DEF Becomes
<1>4. "contiguous" \in mm_check(heap') => "contiguous" \in mm_check(heap)
  BY <1>1, <1>2, <1>3, NoNewPair
<1> QED BY <1>4 DEF PairOnlyByMove

(* An empty memory has none.                                               *)
LEMMA ResetPairs ==
    ASSUME heap' = mem_reset_brk
    PROVE  PairOnlyByMove
<1>1. "contiguous" \notin mm_check(heap')
  BY NoBlocks DEF mm_check
<1> QED BY <1>1 DEF PairOnlyByMove

(* Neither has the heap an evaluation starts on.                           *)
LEMMA RestartPairs ==
    ASSUME NEW next, Restart(next)
    PROVE  PairOnlyByMove
<1>1. IsHeap(heap') /\ Tiling(heap') /\ Alone(heap', {})
  BY Initialized DEF Restart, Sound
<1>2. "contiguous" \notin mm_check(heap')
  BY <1>1, ReportsPairs
<1> QED BY <1>2 DEF PairOnlyByMove

(* The checks of eval_mm_valid reject the trace or write the payload.      *)
LEMMA CheckedPaints ==
    ASSUME NEW g, IsHeap(g), NEW used, NEW i, NEW ptr, NEW size, Checked(g, used, i, ptr, size)
    PROVE  \/ heap' = mem_reset_brk
           \/ Painted(g, heap') /\ blocks' = [blocks EXCEPT ![i] = ptr]
<1>1. \/ \E why : Reject(why)
      \/ heap' = Seen(memset(g, i, ptr, size), ranges') /\ Remember(i, ptr, size)
  BY Zenon DEF Checked
<1>2. CASE \E why : Reject(why)
  BY <1>2 DEF Reject
<1>3. CASE heap' = Seen(memset(g, i, ptr, size), ranges') /\ Remember(i, ptr, size)
  <2>1. PICK m : m = memset(g, i, ptr, size)
    OBVIOUS
  <2>2. Painted(g, m) /\ IsHeap(m)
    BY <2>1, Memset DEF Painted
  <2>3. Painted(m, heap')
    BY <1>3, <2>1, <2>2, SeenKeeps, Zenon
  <2>4. Painted(g, heap')
    BY <2>2, <2>3, PaintedOn
  <2> QED BY <1>3, <2>4 DEF Remember
<1> QED BY <1>1, <1>2, <1>3

(* The other evaluations write none.                                       *)
LEMMA SeenPaints ==
    ASSUME NEW g, NEW used, heap' = Seen(g, used)
    PROVE  IsHeap(g) => Painted(g, heap')
BY SeenKeeps, Zenon

(* eval_mm_valid on an alloc line.                                         *)
LEMMA ValidAllocPairs ==
    ASSUME IInv, NEW i \in Indices, NEW size \in Requests, ValidAlloc(i, size)
    PROVE  PairOnlyByMove
<1>1. Usable
  BY DEF ValidAlloc, Usable
<1>2. PICK g : g = mm_malloc(heap, size).heap
  OBVIOUS
<1>3. PICK ptr : ptr = mm_malloc(heap, size).ptr
  OBVIOUS
<1>4. CASE ptr = NULL
  <2>1. heap' = mem_reset_brk
    BY <1>3, <1>4 DEF ValidAlloc, Reject
  <2> QED BY <2>1, ResetPairs
<1>5. CASE ptr # NULL
  <2>1. Checked(g, ranges, i, ptr, size)
    BY <1>2, <1>3, <1>5, Zenon DEF ValidAlloc
  <2>2. IsHeap(g) => heap' = mem_reset_brk \/ Painted(g, heap')
    BY <2>1, CheckedPaints
  <2> QED BY <1>1, <1>2, <1>3, <1>5, <2>2, AllocPairs, ResetPairs
<1> QED BY <1>4, <1>5

(* eval_mm_valid on a realloc line.                                        *)
LEMMA ValidReallocPairs ==
    ASSUME IInv, NEW i \in Indices, NEW size \in Requests, ValidRealloc(i, size)
    PROVE  PairOnlyByMove
<1>1. Usable /\ blocks[i] # NULL
  BY DEF ValidRealloc, Usable, InUse
<1>2. PICK g : g = mm_realloc(heap, blocks[i], size).heap
  OBVIOUS
<1>3. PICK ptr : ptr = mm_realloc(heap, blocks[i], size).ptr
  OBVIOUS
<1>4. CASE ptr = NULL
  <2>1. heap' = mem_reset_brk
    BY <1>3, <1>4 DEF ValidRealloc, Reject
  <2> QED BY <2>1, ResetPairs
<1>5. CASE ptr # NULL
  <2> DEFINE used == remove_range(ranges, blocks[i])
  <2>1. Checked(g, used, i, ptr, size)
    BY <1>2, <1>3, <1>5, Zenon DEF ValidRealloc
  <2> HIDE DEF used
  <2>2. IsHeap(g) => \/ heap' = mem_reset_brk
                     \/ Painted(g, heap') /\ blocks' = [blocks EXCEPT ![i] = ptr]
    BY <2>1, CheckedPaints
  <2> QED BY <1>1, <1>2, <1>3, <1>5, <2>2, ReallocPairs, ResetPairs
<1> QED BY <1>4, <1>5

(* eval_mm_util and eval_mm_speed on an alloc line.                        *)
LEMMA OtherAllocPairs ==
    ASSUME IInv, NEW i \in Indices, NEW size \in Requests, UtilAlloc(i, size) \/ SpeedAlloc(i, size)
    PROVE  PairOnlyByMove
<1>1. Usable
  BY DEF UtilAlloc, SpeedAlloc, Usable
<1>2. PICK g : g = mm_malloc(heap, size).heap
  OBVIOUS
<1>3. PICK ptr : ptr = mm_malloc(heap, size).ptr
  OBVIOUS
<1>4. CASE ptr = NULL
  <2>1. heap' = heap
    BY <1>3, <1>4 DEF UtilAlloc, SpeedAlloc, Exit
  <2> QED BY <2>1 DEF PairOnlyByMove
<1>5. CASE ptr # NULL
  <2>1. heap' = Seen(g, {})
    BY <1>2, <1>3, <1>5, Zenon DEF UtilAlloc, SpeedAlloc
  <2>2. IsHeap(g) => Painted(g, heap')
    BY <2>1, SeenPaints
  <2> QED BY <1>1, <1>2, <1>3, <1>5, <2>2, AllocPairs
<1> QED BY <1>4, <1>5

(* eval_mm_util and eval_mm_speed on a realloc line.                       *)
LEMMA OtherReallocPairs ==
    ASSUME IInv, NEW i \in Indices, NEW size \in Requests, UtilRealloc(i, size) \/ SpeedRealloc(i, size)
    PROVE  PairOnlyByMove
<1>1. Usable /\ blocks[i] # NULL
  BY DEF UtilRealloc, SpeedRealloc, Usable, InUse
<1>2. PICK g : g = mm_realloc(heap, blocks[i], size).heap
  OBVIOUS
<1>3. PICK ptr : ptr = mm_realloc(heap, blocks[i], size).ptr
  OBVIOUS
<1>4. CASE ptr = NULL
  <2>1. heap' = heap
    BY <1>3, <1>4 DEF UtilRealloc, SpeedRealloc, Exit
  <2> QED BY <2>1 DEF PairOnlyByMove
<1>5. CASE ptr # NULL
  <2>1. heap' = Seen(g, {}) /\ blocks' = [blocks EXCEPT ![i] = ptr]
    BY <1>2, <1>3, <1>5, Zenon DEF UtilRealloc, SpeedRealloc, Remember
  <2>2. IsHeap(g) => Painted(g, heap')
    BY <2>1, SeenPaints
  <2> QED BY <1>1, <1>2, <1>3, <1>5, <2>1, <2>2, ReallocPairs
<1> QED BY <1>4, <1>5

(* Any evaluation on a free line.                                          *)
LEMMA AnyFreePairs ==
    ASSUME IInv, NEW i \in Indices, ValidFree(i) \/ UtilFree(i) \/ SpeedFree(i)
    PROVE  PairOnlyByMove
<1>1. Usable /\ blocks[i] # NULL
  BY DEF ValidFree, UtilFree, SpeedFree, Usable, InUse
<1>2. PICK g : g = mm_free(heap, blocks[i])
  OBVIOUS
<1>3. \E used : heap' = Seen(g, used)
  BY <1>2 DEF ValidFree, UtilFree, SpeedFree
<1>4. IsHeap(g) => Painted(g, heap')
  BY <1>3, SeenPaints
<1> QED BY <1>1, <1>2, <1>4, FreePairs

(* Two free blocks come to lie side by side only by a mm_realloc that      *)
(* moved its block down into the previous one: mm_malloc, mm_free and      *)
(* every other way of mm_realloc coalesce what they free.                  *)
THEOREM OnlyMovesLeavePairs == Spec => ContiguousOnlyByMove
<1>1. IInv /\ Next => PairOnlyByMove
  <2> SUFFICES ASSUME IInv, Next
               PROVE  PairOnlyByMove
    OBVIOUS
  <2>1. CASE NextEvaluation
    BY <2>1, RestartPairs DEF NextEvaluation
  <2>2. CASE \E i \in Indices : ValidFree(i) \/ UtilFree(i) \/ SpeedFree(i)
    BY <2>2, AnyFreePairs
  <2>3. CASE \E i \in Indices : \E size \in Requests : ValidAlloc(i, size) \/ ValidRealloc(i, size)
    BY <2>3, ValidAllocPairs, ValidReallocPairs
  <2>4. CASE \E i \in Indices : \E size \in Requests : UtilAlloc(i, size) \/ SpeedAlloc(i, size)
    BY <2>4, OtherAllocPairs
  <2>5. CASE \E i \in Indices : \E size \in Requests : UtilRealloc(i, size) \/ SpeedRealloc(i, size)
    BY <2>5, OtherReallocPairs
  <2> QED BY <2>1, <2>2, <2>3, <2>4, <2>5, Zenon DEF Next
<1>2. IInv /\ [Next]_vars => [PairOnlyByMove]_vars
  BY <1>1
<1>3. [PairOnlyByMove]_vars
        <=> [/\ ~heap'.wrapped
             /\ "contiguous" \in mm_check(heap') \ mm_check(heap)
             => \E i \in Indices : InUse(i) /\ NULL < blocks'[i] /\ blocks'[i] < blocks[i]]_vars
  BY DEF PairOnlyByMove
<1> QED BY <1>2, <1>3, Invariant, PTL DEF Spec, ContiguousOnlyByMove
=============================================================================
