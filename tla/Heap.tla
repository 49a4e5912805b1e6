-------------------------------- MODULE Heap --------------------------------
(***************************************************************************)
(* The allocator of malloclab: mm.c over the simulated memory of memlib.c. *)
(* A heap is a record and every routine of mm.c an operator from the heap  *)
(* it finds to the heap it leaves.  Addresses and block sizes are counted  *)
(* in double words (DSIZE, 8 bytes), requests in bytes.                    *)
(*                                                                         *)
(*   brk      the first address above the heap (mem_brk)                   *)
(*   hdr[a]   the header of the block whose payload starts at a            *)
(*   ftr[a]   the footer of the block that ends where a starts             *)
(*   lists[i] the segregated list of level i, from its root on             *)
(*   data[a]  the payload byte the driver finds in double word a           *)
(*   wrapped  TRUE when mm_realloc has been misled by a wrapped size       *)
(*                                                                         *)
(* Words inside a block read NoTag: what an earlier block left there is    *)
(* payload now.                                                            *)
(***************************************************************************)
EXTENDS Integers, Sequences, FiniteSets, SequencesExt

CONSTANTS MAX_HEAP,    \* size of the simulated memory
          CHUNKSIZE    \* least growth of the heap

DSIZE        == 8
N_SEGLIST    == 11
MIN_BLK_SIZE == 2
NULL         == 0            \* address 0 is padding: no block starts there
blk_start    == N_SEGLIST + 3
SIZE_WRAP    == 536870912    \* 2^32 bytes, where a size_t wraps
INT_MAX      == 2147483647   \* the largest int

\* 20 MB and 4 KB in config.h and mm.c: mm_init succeeds.
ASSUME HeapAssumption == /\ MAX_HEAP \in Nat /\ CHUNKSIZE \in Nat
                         /\ CHUNKSIZE >= MIN_BLK_SIZE
                         /\ blk_start + CHUNKSIZE <= MAX_HEAP
                         /\ MAX_HEAP < SIZE_WRAP

Addr         == 0 .. MAX_HEAP
Junk         == -1           \* a byte that the driver did not write

Lesser(a, b)  == IF a < b THEN a ELSE b
Greater(a, b) == IF a > b THEN a ELSE b

\* The difference of two block sizes: a size_t, so it wraps below zero.
Difference(a, b) == (a - b) % SIZE_WRAP

PACK(size, alloc) == [size |-> size, alloc |-> alloc]
NoTag    == PACK(0, FALSE)
Epilogue == PACK(0, TRUE)

asizeOf(size) == IF size <= DSIZE THEN 2
                 ELSE (size + DSIZE + (DSIZE - 1)) \div DSIZE
-----------------------------------------------------------------------------
\* The headers or the footers with tag at one address and none between the
\* bounds of the block.
PutTag(tags, at, tag, start, end) ==
  [a \in Addr |-> IF a = at THEN tag
                  ELSE IF start < a /\ a < end THEN NoTag ELSE tags[a]]

\* Header and footer of a block; what they enclose is payload.
PutTags(h, bp, size, alloc) ==
  [h EXCEPT !.hdr = PutTag(@, bp, PACK(size, alloc), bp, bp + size),
            !.ftr = PutTag(@, bp + size, PACK(size, alloc), bp, bp + size),
            !.data[bp - 1] = Junk, !.data[bp + size - 1] = Junk]

SizeOf(h, bp)    == h.hdr[bp].size
IsAlloc(h, bp)   == h.hdr[bp].alloc
NEXT_BLKP(h, bp) == bp + h.hdr[bp].size
PREV_BLKP(h, bp) == bp - h.ftr[bp].size
FTRP(h, bp)      == h.ftr[bp + h.hdr[bp].size]

\* The list that blocks of a size are in: the first whose limit is not below
\* it, or the last.
LIMITS == <<2, 4, 8, 16, 32, 64, 128, 256, 512, 1024>>
get_seg_level(size) == Cardinality({i \in DOMAIN LIMITS : size > LIMITS[i]})

\* Where the search of insert_free_block and of find_fit stops in a list: the
\* first block that is not smaller than size; 0 when all are.
FirstNotSmaller(h, level, size) ==
  SelectInSeq(h.lists[level], LAMBDA q : SizeOf(h, q) >= size)

insert_free_block_First(h, bp) ==
  [h EXCEPT !.lists[get_seg_level(SizeOf(h, bp))] = <<bp>> \o @, !.data[bp] = Junk]

\* Before the first block of its list that is not smaller.
insert_free_block(h, bp) ==
  LET size  == SizeOf(h, bp)
      level == get_seg_level(size)
      p     == FirstNotSmaller(h, level, size)
  IN [h EXCEPT !.lists[level] = IF p = 0 THEN Append(@, bp) ELSE InsertAt(@, p, bp),
               !.data[bp] = Junk]

\* The links of the block take it out of whichever list holds it.
delete_free_block(h, bp) ==
  [h EXCEPT !.lists = [i \in DOMAIN @ |-> RemoveFirst(@[i], bp)]]

\* The lists from the level of size up that hold a block large enough.
Candidates(h, size) ==
  {i \in get_seg_level(size) .. N_SEGLIST - 1 : FirstNotSmaller(h, i, size) # 0}

find_fit_SameLevel(h, size) ==
  LET level == get_seg_level(size)
      p     == FirstNotSmaller(h, level, size)
  IN IF p = 0 THEN NULL ELSE h.lists[level][p]

find_fit(h, size) ==
  LET level == Min(Candidates(h, size))
  IN IF Candidates(h, size) = {} THEN NULL
     ELSE h.lists[level][FirstNotSmaller(h, level, size)]

coalesce_NextOnly(h, bp) ==
  LET next == NEXT_BLKP(h, bp)
      merged == delete_free_block(delete_free_block(h, next), bp)
  IN IF IsAlloc(h, next) THEN [heap |-> h, ptr |-> bp]
     ELSE [heap |-> insert_free_block(
             PutTags(merged, bp, SizeOf(h, bp) + SizeOf(h, next), FALSE), bp), ptr |-> bp]

\* Merge the free block bp with its free neighbours; the result is listed.
coalesce(h, bp) ==
  LET prev == PREV_BLKP(h, bp)
      next == NEXT_BLKP(h, bp)
      prev_alloc == FTRP(h, prev).alloc
      next_alloc == IsAlloc(h, next)
      start  == IF prev_alloc THEN bp ELSE prev
      size   == SizeOf(h, bp) + (IF prev_alloc THEN 0 ELSE SizeOf(h, prev))
                              + (IF next_alloc THEN 0 ELSE SizeOf(h, next))
      h1     == IF prev_alloc THEN h ELSE delete_free_block(h, prev)
      h2     == IF next_alloc THEN h1 ELSE delete_free_block(h1, next)
      h3     == PutTags(delete_free_block(h2, bp), start, size, FALSE)
  IN IF prev_alloc /\ next_alloc THEN [heap |-> h, ptr |-> bp]
     ELSE [heap |-> insert_free_block(h3, start), ptr |-> start]
-----------------------------------------------------------------------------
mem_sbrk(h, incr) ==
  IF h.brk + incr > MAX_HEAP THEN [heap |-> h, ptr |-> -1]
  ELSE [heap |-> [h EXCEPT !.brk = @ + incr], ptr |-> h.brk]

\* A new free block in place of the epilogue, and a new epilogue behind it.
extend_heap(h, size) ==
  LET more == mem_sbrk(h, size)
      bp   == more.ptr
      h1   == PutTags(more.heap, bp, size, FALSE)
      h2   == [h1 EXCEPT !.hdr[bp + size] = Epilogue]
  IN IF bp = -1 THEN [heap |-> h, ptr |-> NULL]
     ELSE coalesce(insert_free_block(h2, bp), bp)

\* The memory after mem_reset_brk: nothing it still holds is read.
mem_reset_brk == [brk  |-> 0, wrapped |-> FALSE,
                  hdr  |-> [a \in Addr |-> NoTag], ftr |-> [a \in Addr |-> NoTag],
                  data |-> [a \in -1 .. MAX_HEAP |-> Junk],
                  lists |-> [i \in 0 .. N_SEGLIST - 1 |-> <<>>]]

\* Padding, roots, prologue and epilogue, then a first free block.
\* ptr is NULL when the memory is too small for them.
mm_init ==
  LET root == mem_sbrk(mem_reset_brk, blk_start)
      h    == [PutTags(root.heap, blk_start - 1, 1, TRUE)
                 EXCEPT !.hdr[blk_start] = Epilogue]
  IN IF root.ptr = -1 THEN [heap |-> root.heap, ptr |-> NULL]
     ELSE extend_heap(h, CHUNKSIZE)

place_Tight(h, bp, asize) ==
  LET rest  == SizeOf(h, bp) - asize
      taken == PutTags(delete_free_block(h, bp), bp, asize, TRUE)
  IN IF rest < MIN_BLK_SIZE THEN taken
     ELSE insert_free_block(PutTags(taken, bp + asize, rest, FALSE), bp + asize)

\* A block of asize at the start of the block bp; the rest, if it can be a
\* block, stays free.
place(h, bp, asize) ==
  LET start_size     == SizeOf(h, bp)
      remaining_size == Difference(start_size, asize)
      taken     == IF IsAlloc(h, bp) THEN h ELSE delete_free_block(h, bp)
      remaining == bp + asize
      split     == PutTags(PutTags(taken, bp, asize, TRUE), remaining, remaining_size, FALSE)
  IN IF remaining_size >= MIN_BLK_SIZE
     THEN coalesce(insert_free_block(split, remaining), remaining).heap
     ELSE PutTags(taken, bp, start_size, TRUE)

mm_malloc(h, size) ==
  LET asize == asizeOf(size)
      fit   == find_fit(h, asize)
      more  == extend_heap(h, Greater(asize, CHUNKSIZE))
  IN IF size = 0 THEN [heap |-> h, ptr |-> NULL]
     ELSE IF fit # NULL THEN [heap |-> place(h, fit, asize), ptr |-> fit]
     ELSE IF more.ptr = NULL THEN [heap |-> h, ptr |-> NULL]
     ELSE [heap |-> place(more.heap, more.ptr, asize), ptr |-> more.ptr]

mm_free(h, ptr) ==
  IF ptr = NULL THEN h
  ELSE IF ~IsAlloc(h, ptr) THEN h
  ELSE coalesce(insert_free_block(PutTags(h, ptr, SizeOf(h, ptr), FALSE), ptr), ptr).heap
-----------------------------------------------------------------------------
CopyPayload_Short(h, from, to, size) ==
  [h EXCEPT !.data[to] = h.data[from]]

\* The bytes that mm_realloc moves from the block at from to the one at to:
\* what was asked for, or the whole old payload when that is less.
CopyPayload(h, from, to, size) ==
  LET bytes == Lesser(DSIZE * SizeOf(h, from) - DSIZE, size)
      units == (bytes + DSIZE - 1) \div DSIZE
  IN [h EXCEPT !.data = [a \in DOMAIN @ |->
        IF to <= a /\ a < to + units THEN h.data[from + a - to] ELSE h.data[a]]]

\* Case 1.2: the end of a block that shrinks becomes a free block.
SplitOff(h, bp, asize, rest) ==
  insert_free_block(PutTags(PutTags(h, bp, asize, TRUE), bp + asize, rest, FALSE),
                    bp + asize)

ShrinkBlock(h, bp, asize) ==
  LET rest == Difference(SizeOf(h, bp), asize)
  IN IF rest < MIN_BLK_SIZE THEN h
     ELSE coalesce(SplitOff(h, bp, asize, rest), bp + asize).heap

\* Cases 2.1, 2.2 and 2.3 compare a difference that may have wrapped with 0.
\* If it did, the tags they write lie in other blocks; from then on the heap
\* is no heap, and wrapped says so.
GrowIntoNext(h, bp, asize) ==
  LET next  == NEXT_BLKP(h, bp)
      whole == SizeOf(h, bp) + SizeOf(h, next)
      rest  == Difference(whole, asize)
      h1    == delete_free_block(h, next)
  IN IF whole < asize THEN [h EXCEPT !.wrapped = TRUE]
     ELSE IF rest >= MIN_BLK_SIZE
     THEN coalesce(SplitOff(h1, bp, asize, rest), bp + asize).heap
     ELSE PutTags(h1, bp, whole, TRUE)

\* No coalescing here: the block behind the rest may be free.
MoveIntoPrev(h, bp, asize, size) ==
  LET prev  == PREV_BLKP(h, bp)
      whole == SizeOf(h, bp) + SizeOf(h, prev)
      rest  == Difference(whole, asize)
      h1    == CopyPayload(delete_free_block(h, prev), bp, prev, size)
  IN IF whole < asize THEN [h1 EXCEPT !.wrapped = TRUE]
     ELSE IF rest >= MIN_BLK_SIZE THEN SplitOff(h1, prev, asize, rest)
     ELSE PutTags(h1, prev, whole, TRUE)

\* With rest < MIN_BLK_SIZE the code writes tags that leave next out.
MoveIntoBoth(h, bp, asize, size) ==
  LET prev  == PREV_BLKP(h, bp)
      next  == NEXT_BLKP(h, bp)
      whole == SizeOf(h, bp) + SizeOf(h, prev) + SizeOf(h, next)
      rest  == Difference(whole, asize)
      h1    == CopyPayload(delete_free_block(delete_free_block(h, prev), next), bp, prev, size)
  IN IF whole < asize THEN [h1 EXCEPT !.wrapped = TRUE]
     ELSE IF rest >= MIN_BLK_SIZE THEN SplitOff(h1, prev, asize, rest)
     ELSE PutTags(h1, prev, SizeOf(h, bp) + SizeOf(h, prev), TRUE)

MoveAway_KeepsOld(h, bp, size) ==
  LET new == mm_malloc(h, size)
  IN IF new.ptr = NULL THEN new
     ELSE [heap |-> CopyPayload(new.heap, bp, new.ptr, size), ptr |-> new.ptr]

MoveAway_FreesAnyway(h, bp, size) ==
  LET new    == mm_malloc(h, size)
      copied == IF new.ptr = NULL THEN h ELSE CopyPayload(new.heap, bp, new.ptr, size)
  IN [heap |-> mm_free(copied, bp), ptr |-> new.ptr]

\* Case 2.4: a new block, the payload copied, the old block freed.
MoveAway(h, bp, size) ==
  LET new == mm_malloc(h, size)
  IN IF new.ptr = NULL THEN [heap |-> new.heap, ptr |-> NULL]
     ELSE [heap |-> mm_free(CopyPayload(new.heap, bp, new.ptr, size), bp), ptr |-> new.ptr]

mm_realloc(h, ptr, size) ==
  LET asize == asizeOf(size)
      prev  == PREV_BLKP(h, ptr)
      next  == NEXT_BLKP(h, ptr)
      own   == SizeOf(h, ptr)
      nextFits == /\ ~IsAlloc(h, next)
                  /\ Difference(own + SizeOf(h, next), asize) > 0
      prevFits == /\ ~IsAlloc(h, prev)
                  /\ Difference(own + SizeOf(h, prev), asize) > 0
      bothFit  == /\ ~IsAlloc(h, prev) /\ ~IsAlloc(h, next)
                  /\ Difference(own + SizeOf(h, prev) + SizeOf(h, next), asize) > 0
  IN IF size = 0 THEN [heap |-> mm_free(h, ptr), ptr |-> NULL]
     ELSE IF ptr = NULL THEN mm_malloc(h, size)
     ELSE IF own >= asize THEN [heap |-> ShrinkBlock(h, ptr, asize), ptr |-> ptr]
     ELSE IF nextFits THEN [heap |-> GrowIntoNext(h, ptr, asize), ptr |-> ptr]
     ELSE IF prevFits THEN [heap |-> MoveIntoPrev(h, ptr, asize, size), ptr |-> prev]
     ELSE IF bothFit THEN [heap |-> MoveIntoBoth(h, ptr, asize, size), ptr |-> prev]
     ELSE MoveAway(h, ptr, size)
-----------------------------------------------------------------------------
\* The blocks as mm_check and printblocks walk them, from blk_start to the
\* epilogue.
Blocks(h) ==
  LET from[p \in Addr] ==
        IF h.hdr[p] \in {Epilogue, NoTag} THEN {} ELSE {p} \cup from[NEXT_BLKP(h, p)]
  IN from[blk_start]

Listed(h) == UNION {ToSet(h.lists[i]) : i \in DOMAIN h.lists}

\* What mm_check reports of a heap.
mm_check(h) ==
  {e \in {"unlisted", "contiguous", "allocated"} :
     \/ /\ e = "unlisted"
        /\ \E p \in Blocks(h) : /\ ~IsAlloc(h, p)
                                /\ p \notin ToSet(h.lists[get_seg_level(SizeOf(h, p))])
     \/ /\ e = "contiguous"
        /\ \E p \in Blocks(h) : ~IsAlloc(h, p) /\ ~IsAlloc(h, NEXT_BLKP(h, p))
     \/ /\ e = "allocated"
        /\ \E p \in Listed(h) : IsAlloc(h, p)}
=============================================================================
