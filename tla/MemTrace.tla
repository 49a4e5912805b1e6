------------------------------ MODULE MemTrace ------------------------------
(***************************************************************************)
(* The memory tracers of linklab: malloc, calloc, realloc and free of      *)
(* memtrace.c, which stand between a program and the C library.  The three *)
(* variants are part 1 (totals only), part 2 (totals and the block list;   *)
(* part 3 has the same file) and the bonus part (which does not pass on a  *)
(* free of what is not allocated).  The program may call anything with any *)
(* pointer, the library may fail, move a block or hand a freed address out *)
(* again.  Addresses are small numbers, NULL is 0; the log lines are left  *)
(* out, except for the reports of illegal and double frees.                *)
(***************************************************************************)
EXTENDS MemList, FiniteSetsExt

CONSTANTS Ptrs,       \* the addresses the library hands out
          Sizes,      \* the sizes the program asks for
          MaxCalls,   \* bound: calls that allocate
          MaxDrops    \* bound: how far a counter may fall below 0

\* A pointer has finitely many values.
ASSUME TraceAssumption == /\ Ptrs \subseteq Nat \ {0} /\ IsFiniteSet(Ptrs)
                          /\ Sizes \subseteq Nat
                          /\ MaxCalls \in Nat /\ MaxDrops \in Nat

VARIABLES variant,    \* which library is loaded
          live,       \* the library's blocks: the size of each, Dead if free
          list,       \* the tracer's list
          n_calls,    \* n_malloc + n_calloc + n_realloc
          n_allocb, n_freeb,
          report,     \* what the last call reported of its argument
          status      \* of the program

vars == <<variant, live, list, n_calls, n_allocb, n_freeb, report, status>>

NULL == 0
Dead == -1

\* The constructor makes an empty list before the program runs.
Init == /\ variant \in {"part1", "part2", "bonus"}
        /\ live = [p \in Ptrs |-> Dead] /\ list = new_list
        /\ n_calls = 0 /\ n_allocb = 0 /\ n_freeb = 0
        /\ report = "none" /\ status = "running"

IsLive(p) == p \in Ptrs /\ live[p] # Dead

\* The library's malloc, calloc and realloc of NULL: any address that is not
\* in use, or NULL.
LibAllocates(size, res) ==
  \/ res = NULL /\ live' = live
  \/ res \in Ptrs /\ ~IsLive(res) /\ live' = [live EXCEPT ![res] = size]

\* The library's realloc of a block: it fails, or resizes the block where it
\* is or elsewhere; with size 0 it frees the block and returns NULL.
LibReallocates(p, size, res) ==
  IF size = 0 THEN res = NULL /\ live' = [live EXCEPT ![p] = Dead]
  ELSE \/ res = NULL /\ live' = live
       \/ /\ res = p \/ (res \in Ptrs /\ ~IsLive(res))
          /\ live' = [live EXCEPT ![p] = Dead, ![res] = size]

\* A free or realloc of what the library did not hand out is undefined: the
\* run ends here.
Undefined == status' = "undefined" /\ live' = live

LibReallocatesAny(p, size, res) ==
  \/ p = NULL /\ LibAllocates(size, res) /\ UNCHANGED status
  \/ IsLive(p) /\ LibReallocates(p, size, res) /\ UNCHANGED status
  \/ p # NULL /\ ~IsLive(p) /\ res = NULL /\ Undefined

LibFrees(p) ==
  \/ p = NULL /\ live' = live /\ UNCHANGED status
  \/ IsLive(p) /\ live' = [live EXCEPT ![p] = Dead] /\ UNCHANGED status
  \/ p # NULL /\ ~IsLive(p) /\ Undefined

Runs(v) == variant \in v /\ status = "running" /\ UNCHANGED variant

Counts(size) == /\ n_calls < MaxCalls
                /\ n_calls' = n_calls + 1 /\ n_allocb' = n_allocb + size

Freed_Net(size) == n_freeb' = n_freeb - size
Freed(size) == n_freeb' = n_freeb + size

Pointers == Ptrs \cup {NULL}
-----------------------------------------------------------------------------
\* Part 1.
malloc_part1(size) ==
  /\ Runs({"part1"}) /\ Counts(size)
  /\ \E res \in Pointers : LibAllocates(size, res)
  /\ UNCHANGED <<list, n_freeb, report, status>>

calloc_part1(nmemb, size) ==
  /\ Runs({"part1"}) /\ Counts(nmemb * size)
  /\ \E res \in Pointers : LibAllocates(nmemb * size, res)
  /\ UNCHANGED <<list, n_freeb, report, status>>

realloc_part1(p, size) ==
  /\ Runs({"part1"}) /\ Counts(size)
  /\ \E res \in Pointers : LibReallocatesAny(p, size, res)
  /\ UNCHANGED <<list, n_freeb, report>>

free_part1(p) ==
  /\ Runs({"part1"}) /\ LibFrees(p)
  /\ UNCHANGED <<list, n_calls, n_allocb, n_freeb, report>>

\* Part 2; malloc and calloc are the same in the bonus part.  A NULL that the
\* library returns is listed like a block.
malloc(size) ==
  /\ Runs({"part2", "bonus"}) /\ Counts(size)
  /\ \E res \in Pointers : LibAllocates(size, res) /\ list' = alloc(list, res, size)
  /\ report' = "none" /\ UNCHANGED <<n_freeb, status>>

calloc(nmemb, size) ==
  /\ Runs({"part2", "bonus"}) /\ Counts(nmemb * size)
  /\ \E res \in Pointers : /\ LibAllocates(nmemb * size, res)
                           /\ list' = alloc(list, res, nmemb * size)
  /\ report' = "none" /\ UNCHANGED <<n_freeb, status>>

cntOf(i)  == IF i = 0 THEN 0 ELSE list[i].cnt
sizeOf(i) == IF cntOf(i) > 0 THEN list[i].size ELSE 0

realloc_part2(p, size) ==
  /\ Runs({"part2"}) /\ Counts(size)
  /\ Freed(sizeOf(find(list, p)))
  /\ \E res \in Pointers : /\ LibReallocatesAny(p, size, res)
                           /\ list' = alloc(dealloc(list, p), res, size)
  /\ UNCHANGED report

\* The counter of a pointer without an item is looked for through NULL.
free_part2(p) ==
  /\ Runs({"part2"})
  /\ IF placeOf(list, p) = 0
     THEN status' = "segv" /\ UNCHANGED <<live, list, n_freeb>>
     ELSE /\ list[placeOf(list, p)].cnt > -MaxDrops
          /\ list' = dealloc(list, p)
          /\ Freed(list[placeOf(list, p)].size)
          /\ LibFrees(p)
  /\ UNCHANGED <<n_calls, n_allocb, report>>
-----------------------------------------------------------------------------
\* The bonus part.
realloc_bonus(p, size) ==
  LET i == find(list, p)
  IN /\ Runs({"bonus"}) /\ Counts(size)
     /\ \/ /\ cntOf(i) > 0
           /\ Freed(list[i].size) /\ report' = "none"
           /\ \E res \in Pointers : /\ LibReallocatesAny(p, size, res)
                                    /\ list' = alloc(dealloc(list, p), res, size)
        \/ /\ cntOf(i) = 0
           /\ Freed(0) /\ UNCHANGED status
           /\ report' = IF i = 0 THEN "ill_free" ELSE "double_free"
           /\ \E res \in Pointers : /\ LibAllocates(size, res)
                                    /\ list' = alloc(list, res, size)

free_bonus_Unlisted(p) ==
  LET i == find(list, p)
  IN /\ Runs({"bonus"})
     /\ report' = IF i = 0 THEN "ill_free" ELSE "none"
     /\ IF i = 0 THEN UNCHANGED <<live, list, n_freeb, status>>
        ELSE list' = dealloc(list, p) /\ Freed(list[i].size) /\ LibFrees(p)
     /\ UNCHANGED <<n_calls, n_allocb>>

free_bonus_Uncounted(p) ==
  LET i == find(list, p)
  IN /\ Runs({"bonus"})
     /\ report' = IF i = 0 THEN "ill_free" ELSE IF list[i].cnt = 0 THEN "double_free" ELSE "none"
     /\ Freed(0)
     /\ IF report' = "none" THEN list' = dealloc(list, p) /\ LibFrees(p)
        ELSE UNCHANGED <<live, list, status>>
     /\ UNCHANGED <<n_calls, n_allocb>>

free_bonus(p) ==
  LET i == find(list, p)
  IN /\ Runs({"bonus"})
     /\ \/ /\ cntOf(i) = 0
           /\ report' = IF i = 0 THEN "ill_free" ELSE "double_free"
           /\ UNCHANGED <<live, list, n_freeb, status>>
        \/ /\ cntOf(i) # 0
           /\ list' = dealloc(list, p)
           /\ Freed(list[i].size) /\ report' = "none"
           /\ LibFrees(p)
     /\ UNCHANGED <<n_calls, n_allocb>>

\* The destructor: the average is an integer division by the calls, and the
\* list is freed after what its counters call non-freed has been logged.
Leaks == {list[k].ptr : k \in {j \in DOMAIN list : list[j].cnt # 0}}

fini == /\ status = "running"
        /\ status' = IF n_calls = 0 THEN "sigfpe" ELSE "ended"
        /\ UNCHANGED <<variant, live, list, n_calls, n_allocb, n_freeb, report>>

Next == \/ fini
        \/ \E size \in Sizes :
             \/ malloc_part1(size) \/ malloc(size)
             \/ \E nmemb \in 0 .. 2 : calloc_part1(nmemb, size) \/ calloc(nmemb, size)
             \/ \E p \in Pointers :
                  realloc_part1(p, size) \/ realloc_part2(p, size) \/ realloc_bonus(p, size)
        \/ \E p \in Pointers : free_part1(p) \/ free_part2(p) \/ free_bonus(p)

Spec == Init /\ [][Next]_vars
-----------------------------------------------------------------------------
\* Every variable has its type.
TypeOK ==
  /\ variant \in {"part1", "part2", "bonus"}
  /\ live \in [Ptrs -> Nat \cup {Dead}]
  /\ \A k \in DOMAIN list : list[k] \in [ptr : Pointers, size : Nat, cnt : Int]
  /\ n_calls \in Nat /\ n_allocb \in Nat /\ n_freeb \in Nat
  /\ report \in {"none", "ill_free", "double_free"}
  /\ status \in {"running", "ended", "sigfpe", "segv", "undefined"}

\* The items stay in strictly ascending order of their addresses, so that the
\* search of find, which stops at the first item above, misses none and no
\* address has two items.
ListOrdered == \A j, k \in DOMAIN list : j < k => list[j].ptr < list[k].ptr

\* The tracer lists blocks and works.
Tracing == variant # "part1" /\ status \in {"running", "ended"}

NoNull == placeOf(list, NULL) = 0

Counted(p) == cntOf(placeOf(list, p)) > 0

\* An address whose counter is above 0 is a block the library holds, of the size
\* in its item, counted once, whatever the program frees and the library
\* reuses; and as long as no call returned NULL every block has such an item,
\* so that what fini reports as non-freed is what leaked.
CountersAreBlocks ==
  Tracing =>
    /\ \A p \in Ptrs : Counted(p) => Item(p, live[p], 1) = list[placeOf(list, p)] /\ IsLive(p)
    /\ NoNull => Leaks = {p \in Ptrs : IsLive(p)}

\* The totals balance as long as no call returned NULL: allocated less freed
\* bytes are the bytes of the blocks that are in use.
Balanced ==
  Tracing /\ NoNull =>
    n_allocb - n_freeb = MapThenSumSet(LAMBDA p : IF IsLive(p) THEN live[p] ELSE 0, Ptrs)

\* The bonus part keeps every misuse from the library: it neither crashes nor
\* frees what is not allocated, not even after failed calls.
MisuseStopped == variant = "bonus" => status \notin {"segv", "undefined"}

\* The bonus part reports a free exactly when its block is not allocated, as
\* long as no call returned NULL.
MisuseReported ==
  [][\A p \in Ptrs : free_bonus(p) /\ NoNull => (report' = "none" <=> IsLive(p))]_vars
=============================================================================
