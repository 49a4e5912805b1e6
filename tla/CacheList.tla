----------------------------- MODULE CacheList -----------------------------
(***************************************************************************)
(* The list of cached objects, src/proxylab/proxylab/cache.c: nodes linked *)
(* by prev and next, with the oldest at head and the newest at tail, and   *)
(* the totals that limit it.  One critical section of the proxy runs after *)
(* the other here (module Proxy has the lock); two threads that missed the *)
(* same object may both insert it, so an insertion may come at any time.   *)
(*                                                                         *)
(* The routines are functions of the list, a record whose field segv says  *)
(* that NULL has been dereferenced.  An object is its name, which is what  *)
(* isSame compares (host and path without regard to case, and no port),    *)
(* and its size.                                                           *)
(***************************************************************************)
EXTENDS Naturals, Sequences, FiniteSetsExt

CONSTANTS Nodes,      \* addresses that malloc may return for an item
          Names,      \* what requests ask for
          Sizes,      \* sizes of fetched objects
          NULL,
          MAX_CACHE_SIZE, MAX_OBJECT_SIZE

ASSUME CacheListAssumption ==
    /\ NULL \notin Nodes \cup Names /\ IsFiniteSet(Nodes)
    /\ Sizes \subseteq Nat \ {0}
    /\ MAX_CACHE_SIZE \in Nat /\ MAX_OBJECT_SIZE \in 0 .. MAX_CACHE_SIZE

VARIABLES cache,     \* the list and its totals
          new        \* the item that insert_cache makes room for

vars == <<cache, new>>

Pointer == Nodes \cup {NULL}

Nothing == [node |-> NULL, name |-> NULL, size |-> 0]

TypeOK ==
    /\ cache \in [head : Pointer, tail : Pointer,
                  prev : [Nodes -> Pointer], next : [Nodes -> Pointer],
                  name : [Nodes -> Names \cup {NULL}], size : [Nodes -> Nat],
                  total_size : 0 .. MAX_CACHE_SIZE, num_CachedItem : Nat, segv : BOOLEAN]
    /\ new \in [node : Pointer, name : Names \cup {NULL}, size : Sizes \cup {0}]

(* cache_init                                                              *)
Init ==
    /\ cache = [head |-> NULL, tail |-> NULL,
                prev |-> [n \in Nodes |-> NULL], next |-> [n \in Nodes |-> NULL],
                name |-> [n \in Nodes |-> NULL], size |-> [n \in Nodes |-> 0],
                total_size |-> 0, num_CachedItem |-> 0, segv |-> FALSE]
    /\ new = Nothing

-----------------------------------------------------------------------------
(* The list from tail along prev, as find_cache walks it; it ends at NULL. *)

Steps == 0 .. Cardinality(Nodes)

Walk(L) == LET at[i \in Steps] == IF i = 0 THEN L.tail
                                  ELSE IF at[i - 1] = NULL THEN NULL ELSE L.prev[at[i - 1]]
           IN  at

Ends(L) == \E i \in Steps : Walk(L)[i] = NULL

(* Where the walk ends, or as far as it is looked at if it never does.     *)
Length(L) == IF Ends(L) THEN Min({i \in Steps : Walk(L)[i] = NULL}) ELSE Cardinality(Nodes)

Chain(L) == [i \in 1 .. Length(L) |-> Walk(L)[i - 1]]

InChain(L) == {Chain(L)[i] : i \in DOMAIN Chain(L)}

Allocated(L) == {n \in Nodes : L.size[n] # 0}

-----------------------------------------------------------------------------
(* remove_LRU                                                              *)

Crash(L) == [L EXCEPT !.segv = TRUE]

(* The totals, and free_CachedItem.                                        *)
Unlisted(L, n) ==
    [L EXCEPT !.total_size = @ - L.size[n], !.num_CachedItem = @ - 1,
              !.prev[n] = NULL, !.next[n] = NULL, !.name[n] = NULL, !.size[n] = 0]

(* Mutant: the size of the removed item stays in the total.                *)
remove_LRU_KeepsTotal(L) ==
    IF L.num_CachedItem = 0 THEN L
    ELSE IF L.num_CachedItem = 1
         THEN [Unlisted([L EXCEPT !.head = NULL, !.tail = NULL], L.head)
                 EXCEPT !.total_size = L.total_size]
    ELSE IF L.next[L.head] = NULL THEN Crash(L)
    ELSE [Unlisted([L EXCEPT !.head = L.next[L.head], !.prev[L.next[L.head]] = NULL], L.head)
            EXCEPT !.total_size = L.total_size]

(* Mutant: the new head still points back at the removed item.             *)
remove_LRU_KeepsLink(L) ==
    IF L.num_CachedItem = 0 THEN L
    ELSE IF L.num_CachedItem = 1
         THEN Unlisted([L EXCEPT !.head = NULL, !.tail = NULL], L.head)
    ELSE IF L.next[L.head] = NULL THEN Crash(L)
    ELSE Unlisted([L EXCEPT !.head = L.next[L.head]], L.head)

remove_LRU(L) ==
    IF L.num_CachedItem = 0 THEN L
    ELSE IF L.num_CachedItem = 1
         THEN Unlisted([L EXCEPT !.head = NULL, !.tail = NULL], L.head)
    ELSE IF L.next[L.head] = NULL THEN Crash(L)
    ELSE Unlisted([L EXCEPT !.head = L.next[L.head], !.prev[L.next[L.head]] = NULL], L.head)

-----------------------------------------------------------------------------
(* move_to_end and find_cache                                              *)

(* Behind the tail, as both move_to_end and insert_cache put it.           *)
AtEnd(L, n) == [L EXCEPT !.prev[n] = L.tail, !.next[L.tail] = n, !.tail = n, !.next[n] = NULL]

UnlinkHead(L, n) == [L EXCEPT !.prev[L.next[n]] = NULL]

UnlinkMiddle(L, n) == [L EXCEPT !.prev[L.next[n]] = L.prev[n], !.next[L.prev[n]] = L.next[n]]

(* Mutant: the newer neighbour is not linked to the older one.             *)
move_to_end_HalfUnlinked(L, n) ==
    IF L.next[n] = NULL THEN L
    ELSE IF n = L.head THEN AtEnd(UnlinkHead(L, n), n)
    ELSE IF L.prev[n] = NULL THEN Crash(L)
    ELSE AtEnd([L EXCEPT !.next[L.prev[n]] = L.next[n]], n)

move_to_end(L, n) ==
    IF L.next[n] = NULL THEN L
    ELSE IF n = L.head THEN AtEnd(UnlinkHead(L, n), n)
    ELSE IF L.prev[n] = NULL THEN Crash(L)
    ELSE AtEnd(UnlinkMiddle(L, n), n)

(* The newest item of that name.                                           *)
Found(L, name) == {i \in DOMAIN Chain(L) : L.name[Chain(L)[i]] = name}

find_cache(L, name) ==
    IF Found(L, name) = {} THEN L ELSE move_to_end(L, Chain(L)[Min(Found(L, name))])

-----------------------------------------------------------------------------
(* insert_cache, from its loop on.                                         *)

(* Mutant: the loop does not look at the size of the new item.             *)
IsFull_OldTotal(L, size) == L.total_size > MAX_CACHE_SIZE

IsFull(L, size) == L.total_size + size > MAX_CACHE_SIZE

(* Mutant: the size is not added to the total.                             *)
Linked_Uncounted(L, item) ==
    LET I == [L EXCEPT !.name[item.node] = item.name, !.size[item.node] = item.size,
                       !.num_CachedItem = @ + 1]
    IN  IF L.num_CachedItem = 0
        THEN [I EXCEPT !.head = item.node, !.tail = item.node]
        ELSE AtEnd(I, item.node)

Linked(L, item) ==
    LET I == [L EXCEPT !.name[item.node] = item.name, !.size[item.node] = item.size,
                       !.total_size = @ + item.size, !.num_CachedItem = @ + 1]
    IN  IF L.num_CachedItem = 0
        THEN [I EXCEPT !.head = item.node, !.tail = item.node]
        ELSE AtEnd(I, item.node)

-----------------------------------------------------------------------------
(* The critical sections: a lookup, and an insertion, whose loop may take  *)
(* several steps.                                                          *)

Lookup(name) ==
    /\ new = Nothing /\ ~ cache.segv
    /\ cache' = find_cache(cache, name)
    /\ UNCHANGED new

(* create_CI, and the test of the size at the start of insert_cache: an    *)
(* object that is too large is not inserted, nor freed.                    *)
CreateItem(name, size) ==
    /\ new = Nothing /\ ~ cache.segv
    /\ size <= MAX_OBJECT_SIZE
    /\ \E n \in Nodes \ Allocated(cache) : new' = [node |-> n, name |-> name, size |-> size]
    /\ UNCHANGED cache

MakeRoom ==
    /\ new # Nothing /\ ~ cache.segv
    /\ IsFull(cache, new.size)
    /\ cache' = remove_LRU(cache)
    /\ UNCHANGED new

InsertItem ==
    /\ new # Nothing /\ ~ cache.segv
    /\ ~ IsFull(cache, new.size)
    /\ cache' = Linked(cache, new)
    /\ new' = Nothing

Next ==
    \/ \E name \in Names : Lookup(name) \/ \E size \in Sizes : CreateItem(name, size)
    \/ MakeRoom \/ InsertItem

Spec == Init /\ [][Next]_vars

(* The thread that inserts is scheduled.                                   *)
FairSpec == Spec /\ WF_vars(MakeRoom \/ InsertItem)

-----------------------------------------------------------------------------
(* Properties.                                                             *)

(* total_size and num_CachedItem are those of the items that are not freed, *)
(* also of the ones that move_to_end has dropped from the list.            *)
Accounted ==
    /\ cache.num_CachedItem = Cardinality(Allocated(cache))
    /\ cache.total_size = FoldSet(LAMBDA n, sum : cache.size[n] + sum, 0, Allocated(cache))

(* A walk from tail ends, sees no freed item, and could be walked back;    *)
(* head is on it, as the item that remove_LRU frees must be.               *)
WellLinked ==
    LET C == Chain(cache)
    IN  /\ Ends(cache)
        /\ InChain(cache) \subseteq Allocated(cache)
        /\ \A i \in 1 .. Len(C) - 1 : cache.next[C[i + 1]] = C[i]
        /\ C # <<>> => cache.next[cache.tail] = NULL
        /\ cache.num_CachedItem # 0 => cache.head \in InChain(cache)

(* A lookup searches the items from the last used one on.                  *)
R == INSTANCE Recency WITH order <- Chain(cache)

RefinesRecency == R!Spec

(* The loop of insert_cache that makes room ends.                          *)
InsertEnds == new # Nothing ~> (new = Nothing \/ cache.segv)

-----------------------------------------------------------------------------
(* What the comments of cache.c say, and the code does not do.             *)

(* "to keep LRU" (find_cache): a lookup reorders the list; it neither      *)
(* loses an item nor fails.                                                *)
LookupKeepsItems ==
    [][new = Nothing /\ UNCHANGED new
          => ~ cache'.segv /\ InChain(cache') = InChain(cache)]_vars

=============================================================================
