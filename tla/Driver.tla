------------------------------- MODULE Driver -------------------------------
(***************************************************************************)
(* mdriver.c running traces on the allocator of module Heap.  A trace is   *)
(* checked (eval_mm_valid), then, when it passed, its use of space is      *)
(* measured (eval_mm_util) and its speed (eval_mm_speed), each time on a   *)
(* fresh heap.  The model does not remember the trace: each of the three   *)
(* runs takes requests of its own, so what holds here holds in particular  *)
(* of runs that repeat one trace.  Requests follow the rule of the trace   *)
(* files: an index is allocated when it is not in use, and reallocated and *)
(* freed when it is.                                                       *)
(*                                                                         *)
(* The driver stops using the heap, in the model, once mm_realloc was      *)
(* misled by a wrapped size (heap.wrapped): the driver's own checks of     *)
(* that request still happen, what follows is not modelled.                *)
(***************************************************************************)
EXTENDS Heap

CONSTANTS Indices,     \* the block indices of the traces
          Requests     \* the sizes they ask for, in bytes

\* The sizes of a trace are of type int.
ASSUME DriverAssumption == /\ Requests \subseteq 1 .. INT_MAX
                           /\ Junk \notin Indices

VARIABLES heap,
          phase,            \* which of the three evaluations runs, or how it ended
          ranges,           \* the payloads the driver knows of
          blocks,           \* trace->blocks; NULL for an index not in use
          block_sizes,      \* trace->block_sizes; 0 for an index not in use
          total_size, max_total_size,
          errors            \* what malloc_error reported of the trace

vars == <<heap, phase, ranges, blocks, block_sizes, total_size, max_total_size, errors>>

counters == <<total_size, max_total_size>>

Ranges == [lo : Int, hi : Int]

Init == /\ heap = mm_init.heap /\ phase = "valid"
        /\ ranges = {}
        /\ blocks = [i \in Indices |-> NULL]
        /\ block_sizes = [i \in Indices |-> 0]
        /\ total_size = 0 /\ max_total_size = 0
        /\ errors = {}

InUse(i) == blocks[i] # NULL

\* What lies outside of the payloads in use is never looked at.
Seen(h, used) ==
  [h EXCEPT !.data = [a \in DOMAIN @ |->
     IF \E r \in used : r.lo <= DSIZE * a /\ DSIZE * a <= r.hi THEN @[a] ELSE Junk]]

Payload(lo, size) == [lo |-> DSIZE * lo, hi |-> DSIZE * lo + size - 1]

memset(h, i, lo, size) ==
  [h EXCEPT !.data = [a \in DOMAIN @ |->
     IF lo <= a /\ DSIZE * a < DSIZE * lo + size THEN i ELSE @[a]]]

\* What add_range finds wrong with a payload, the first of its tests first.
\* A payload that encloses another passes.
rangeErrors(h, used, r) ==
  IF r.lo < 0 \/ r.hi > DSIZE * h.brk - 1 THEN {"outside heap"}
  ELSE IF \E p \in used : r.lo \in p.lo .. p.hi \/ r.hi \in p.lo .. p.hi
  THEN {"overlaps"}
  ELSE {}

remove_range(used, lo) == {r \in used : r.lo # DSIZE * lo}

\* The first bytes of a reallocated block still hold its index.
Preserved(h, i, lo, size) ==
  \A a \in DOMAIN h.data : lo <= a /\ DSIZE * a < DSIZE * lo + size => h.data[a] = i
-----------------------------------------------------------------------------
Reject(why) == /\ phase' = "rejected" /\ errors' = {why}
               /\ heap' = mem_reset_brk /\ ranges' = {}
               /\ blocks' = [i \in Indices |-> NULL]
               /\ block_sizes' = [i \in Indices |-> 0]
               /\ UNCHANGED counters

Remember(i, lo, size) == /\ blocks' = [blocks EXCEPT ![i] = lo]
                         /\ block_sizes' = [block_sizes EXCEPT ![i] = size]

Checked(h, used, i, lo, size) ==
  LET r == Payload(lo, size)
  IN IF rangeErrors(h, used, r) # {}
     THEN IF h.wrapped THEN Reject("wrapped") ELSE \E e \in rangeErrors(h, used, r) : Reject(e)
     ELSE IF ~Preserved(h, i, lo, Lesser(size, block_sizes[i]))
     THEN Reject("data not preserved")
     ELSE /\ ranges' = used \cup {r}
          /\ heap' = Seen(memset(h, i, lo, size), ranges')
          /\ Remember(i, lo, size)
          /\ UNCHANGED <<phase, errors, counters>>

ValidAlloc(i, size) ==
  LET new == mm_malloc(heap, size)
  IN /\ phase = "valid" /\ ~heap.wrapped /\ ~InUse(i)
     /\ IF new.ptr = NULL THEN Reject("mm_malloc failed")
        ELSE Checked(new.heap, ranges, i, new.ptr, size)

ValidRealloc(i, size) ==
  LET new == mm_realloc(heap, blocks[i], size)
  IN /\ phase = "valid" /\ ~heap.wrapped /\ InUse(i)
     /\ IF new.ptr = NULL THEN Reject("mm_realloc failed")
        ELSE Checked(new.heap, remove_range(ranges, blocks[i]), i, new.ptr, size)

ValidFree(i) ==
  /\ phase = "valid" /\ ~heap.wrapped /\ InUse(i)
  /\ ranges' = remove_range(ranges, blocks[i])
  /\ heap' = Seen(mm_free(heap, blocks[i]), ranges')
  /\ Remember(i, NULL, 0)
  /\ UNCHANGED <<phase, errors, counters>>

\* app_error ends the program.
Exit(why) == /\ phase' = "exited" /\ errors' = {why}
             /\ UNCHANGED <<heap, ranges, blocks, block_sizes, counters>>

UtilAlloc(i, size) ==
  LET new == mm_malloc(heap, size)
  IN /\ phase = "util" /\ ~heap.wrapped /\ ~InUse(i)
     /\ IF new.ptr = NULL THEN Exit("mm_malloc failed")
        ELSE /\ heap' = Seen(new.heap, {})
             /\ Remember(i, new.ptr, size)
             /\ total_size' = total_size + size
             /\ max_total_size' = Greater(total_size', max_total_size)
             /\ UNCHANGED <<phase, ranges, errors>>

UtilRealloc_NoOldSize(i, newsize) ==
  LET new == mm_realloc(heap, blocks[i], newsize)
  IN /\ phase = "util" /\ ~heap.wrapped /\ InUse(i) /\ new.ptr # NULL
     /\ heap' = Seen(new.heap, {})
     /\ Remember(i, new.ptr, newsize)
     /\ total_size' = total_size + newsize
     /\ max_total_size' = Greater(total_size', max_total_size)
     /\ UNCHANGED <<phase, ranges, errors>>

UtilRealloc(i, newsize) ==
  LET new == mm_realloc(heap, blocks[i], newsize)
  IN /\ phase = "util" /\ ~heap.wrapped /\ InUse(i)
     /\ IF new.ptr = NULL THEN Exit("mm_realloc failed")
        ELSE /\ heap' = Seen(new.heap, {})
             /\ Remember(i, new.ptr, newsize)
             /\ total_size' = total_size + (newsize - block_sizes[i])
             /\ max_total_size' = Greater(total_size', max_total_size)
             /\ UNCHANGED <<phase, ranges, errors>>

UtilFree_Block(i) ==
  /\ phase = "util" /\ ~heap.wrapped /\ InUse(i)
  /\ heap' = Seen(mm_free(heap, blocks[i]), {})
  /\ Remember(i, NULL, 0)
  /\ total_size' = total_size - DSIZE * SizeOf(heap, blocks[i])
  /\ UNCHANGED <<phase, ranges, max_total_size, errors>>

UtilFree(i) ==
  /\ phase = "util" /\ ~heap.wrapped /\ InUse(i)
  /\ heap' = Seen(mm_free(heap, blocks[i]), {})
  /\ Remember(i, NULL, 0)
  /\ total_size' = total_size - block_sizes[i]
  /\ UNCHANGED <<phase, ranges, max_total_size, errors>>

\* The speed run keeps no sizes.
SpeedAlloc(i, size) ==
  LET new == mm_malloc(heap, size)
  IN /\ phase = "speed" /\ ~heap.wrapped /\ ~InUse(i)
     /\ IF new.ptr = NULL THEN Exit("mm_malloc error")
        ELSE /\ heap' = Seen(new.heap, {})
             /\ blocks' = [blocks EXCEPT ![i] = new.ptr]
             /\ UNCHANGED <<phase, ranges, block_sizes, counters, errors>>

SpeedRealloc(i, newsize) ==
  LET new == mm_realloc(heap, blocks[i], newsize)
  IN /\ phase = "speed" /\ ~heap.wrapped /\ InUse(i)
     /\ IF new.ptr = NULL THEN Exit("mm_realloc error")
        ELSE /\ heap' = Seen(new.heap, {})
             /\ blocks' = [blocks EXCEPT ![i] = new.ptr]
             /\ UNCHANGED <<phase, ranges, block_sizes, counters, errors>>

SpeedFree(i) ==
  /\ phase = "speed" /\ ~heap.wrapped /\ InUse(i)
  /\ heap' = Seen(mm_free(heap, blocks[i]), {})
  /\ blocks' = [blocks EXCEPT ![i] = NULL]
  /\ UNCHANGED <<phase, ranges, block_sizes, counters, errors>>
-----------------------------------------------------------------------------
\* The next evaluation: of the same trace, or of the next trace after the
\* speed run, which fsecs repeats, or after a trace that failed.  Nobody
\* reads the ranges again before eval_mm_valid clears them.
Restart(next) ==
  /\ phase' = next
  /\ heap' = mm_init.heap
  /\ ranges' = {}
  /\ blocks' = [i \in Indices |-> NULL]
  /\ block_sizes' = [i \in Indices |-> 0]
  /\ total_size' = 0 /\ max_total_size' = 0
  /\ errors' = {}

NextEvaluation ==
  \/ phase = "valid" /\ ~heap.wrapped /\ Restart("util")
  \/ phase = "util" /\ ~heap.wrapped /\ Restart("speed")
  \/ phase = "speed" /\ ~heap.wrapped /\ (Restart("speed") \/ Restart("valid"))
  \/ phase = "rejected" /\ Restart("valid")

Next == \/ NextEvaluation
        \/ \E i \in Indices :
             \/ ValidFree(i) \/ UtilFree(i) \/ SpeedFree(i)
             \/ \E size \in Requests :
                  \/ ValidAlloc(i, size) \/ ValidRealloc(i, size)
                  \/ UtilAlloc(i, size) \/ UtilRealloc(i, size)
                  \/ SpeedAlloc(i, size) \/ SpeedRealloc(i, size)

Spec == Init /\ [][Next]_vars
-----------------------------------------------------------------------------
Usable == phase # "rejected" /\ ~heap.wrapped

\* Every variable has its type.
TypeOK ==
  /\ phase \in {"valid", "util", "speed", "rejected", "exited"}
  /\ ranges \subseteq Ranges
  /\ blocks \in [Indices -> Addr] /\ block_sizes \in [Indices -> Nat]
  /\ total_size \in Nat /\ max_total_size \in Nat
  /\ heap.brk \in Addr /\ heap.wrapped \in BOOLEAN
  /\ heap.hdr \in [Addr -> [size : Addr, alloc : BOOLEAN]]
  /\ heap.ftr \in [Addr -> [size : Addr, alloc : BOOLEAN]]

\* Every routine of mm.c leaves the heap tiled: from blk_start to the epilogue
\* at the break one block follows another, none smaller than MIN_BLK_SIZE,
\* each with a footer that repeats its header.
Tiled ==
  Usable => LET B == Blocks(heap)
            IN /\ heap.hdr[heap.brk] = Epilogue
               /\ \A p \in B : /\ SizeOf(heap, p) >= MIN_BLK_SIZE
                               /\ FTRP(heap, p) = heap.hdr[p]
                               /\ NEXT_BLKP(heap, p) \in B \cup {heap.brk}

\* mm_check would never report a free block that its list lacks or an
\* allocated block in a list; and each list holds what it holds once, in
\* ascending order, as insert_free_block means it to.
ListsExact ==
  Usable => /\ mm_check(heap) \subseteq {"contiguous"}
            /\ Listed(heap) \subseteq Blocks(heap)
            /\ \A i \in DOMAIN heap.lists : LET list == heap.lists[i] IN
                 /\ Cardinality(ToSet(list)) = Len(list)
                 /\ IsSorted(list, LAMBDA p, q : SizeOf(heap, p) <= SizeOf(heap, q))

\* find_fit is a best fit: what it returns is the smallest free block of the
\* heap that is large enough, and it finds one if there is one.
FindFitIsBest ==
  Usable => \A size \in {asizeOf(request) : request \in Requests} :
    LET fit  == find_fit(heap, size)
        fits == {p \in Blocks(heap) : ~IsAlloc(heap, p) /\ SizeOf(heap, p) >= size}
    IN IF fits = {} THEN fit = NULL
       ELSE fit \in fits /\ \A p \in fits : SizeOf(heap, fit) <= SizeOf(heap, p)

\* Every allocated block belongs to one index, which mm_malloc or mm_realloc
\* gave it to, and has room for what that index asked for: no block is
\* leaked, handed out twice or freed behind its owner's back.
BlocksOwned ==
  Usable =>
    /\ {p \in Blocks(heap) : IsAlloc(heap, p)} = {blocks[i] : i \in {j \in Indices : InUse(j)}}
    /\ \A i, j \in Indices : InUse(i) /\ blocks[i] = blocks[j] => i = j
    /\ \A i \in Indices : InUse(i) => block_sizes[i] <= DSIZE * SizeOf(heap, blocks[i]) - DSIZE

\* The checks of eval_mm_valid reject a trace only when the memory is used up
\* or a size wrapped: payloads stay inside the heap, do not overlap and keep
\* their data when mm_realloc moves them.
RejectsOnlyFull ==
  errors \subseteq {"mm_malloc failed", "mm_realloc failed", "wrapped",
                   "mm_malloc error", "mm_realloc error"}

\* The utilization eval_mm_util computes is a share: the high water mark of
\* the requests is never above the size of the heap.
UtilAtMostOne == phase = "util" /\ ~heap.wrapped => max_total_size <= DSIZE * heap.brk

NoRoomFor(size) ==
  /\ \A p \in Blocks(heap) : ~IsAlloc(heap, p) => SizeOf(heap, p) < asizeOf(size)
  /\ heap.brk + Greater(asizeOf(size), CHUNKSIZE) > MAX_HEAP

\* mm_malloc and mm_realloc refuse a request only when no free block has room
\* for it and mem_sbrk no memory, and leave the heap, and so the old block, as
\* it was.
RefusalKeepsHeap ==
  Usable => \A size \in Requests :
    LET refused(new) == new.ptr = NULL => new.heap = heap /\ NoRoomFor(size)
    IN /\ refused(mm_malloc(heap, size))
       /\ \A i \in Indices : InUse(i) => refused(mm_realloc(heap, blocks[i], size))

\* Two free blocks lie side by side, the second error of mm_check, only after
\* a mm_realloc that moved its block down into the previous one: every other
\* routine coalesces what it frees.
ContiguousOnlyByMove ==
  [][/\ ~heap'.wrapped
     /\ "contiguous" \in mm_check(heap') \ mm_check(heap)
     => \E i \in Indices : InUse(i) /\ NULL < blocks'[i] /\ blocks'[i] < blocks[i]]_vars

\* "The payload must not overlap any other payloads", says add_range.
RangesDisjoint ==
  \A p, q \in ranges : p # q => p.hi < q.lo \/ q.hi < p.lo
=============================================================================
