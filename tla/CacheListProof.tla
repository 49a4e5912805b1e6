--------------------------- MODULE CacheListProof ---------------------------
(***************************************************************************)
(* The proxy's list of cached objects keeps its links and its totals and   *)
(* is in order of use, although lookups drop items from it: for every      *)
(* finite set of nodes, all names and sizes and every limit.  What the     *)
(* proofs carry through the steps is the sequence C of nodes that the      *)
(* pointers stand for (Chained), and a sum of the sizes of every set of    *)
(* nodes (Sums), of which total_size is one.                               *)
(***************************************************************************)
EXTENDS CacheList, Integers, ListLemmas, FiniteSetTheorems

Lists == [head : Pointer, tail : Pointer,
          prev : [Nodes -> Pointer], next : [Nodes -> Pointer],
          name : [Nodes -> Names \cup {NULL}], size : [Nodes -> Nat],
          total_size : Nat, num_CachedItem : Nat, segv : BOOLEAN]

(* C is the list from tail to its oldest item.                             *)
Distinct(C) == \A i, j \in 1 .. Len(C) : C[i] = C[j] => i = j

Chained(L, C) ==
    /\ C \in Seq(Nodes) /\ Distinct(C)
    /\ L.tail = IF C = <<>> THEN NULL ELSE C[1]
    /\ \A i \in 1 .. Len(C) : L.prev[C[i]] = IF i < Len(C) THEN C[i + 1] ELSE NULL
    /\ \A i \in 1 .. Len(C) : L.next[C[i]] = IF i = 1 THEN NULL ELSE C[i - 1]
    /\ \A i \in 1 .. Len(C) : C[i] \in Allocated(L)
    /\ Allocated(L) # {} => \E i \in 1 .. Len(C) : L.head = C[i]

(* The freed nodes point nowhere.                                          *)
Freed(L) == \A n \in Nodes \ Allocated(L) : L.prev[n] = NULL /\ L.next[n] = NULL

Totals(L, G) ==
    /\ Sums(Nodes, L.size, G)
    /\ L.num_CachedItem = Cardinality(Allocated(L))
    /\ L.total_size = G[Allocated(L)]

Fine(L, C, G) == L \in Lists /\ Chained(L, C) /\ Freed(L) /\ Totals(L, G)

IInv == /\ \E C, G : Fine(cache, C, G)
        /\ cache.total_size <= MAX_CACHE_SIZE
        /\ new = Nothing \/ (/\ new \in [node : Nodes, name : Names, size : Sizes]
                             /\ new.node \notin Allocated(cache))
-----------------------------------------------------------------------------
(* What the chain is read from.                                            *)

(* The function that Walk defines.                                         *)
IsWalk(L, f) == f = [i \in Steps |-> IF i = 0 THEN L.tail
                                     ELSE IF f[i - 1] = NULL THEN NULL ELSE L.prev[f[i - 1]]]

(* A chain has no more items than there are nodes.                         *)
LEMMA ChainFits ==
    ASSUME NEW C \in Seq(Nodes), Distinct(C)
    PROVE  Len(C) \in Steps /\ Cardinality(Nodes) \in Nat
<1>1. C \in [1 .. Len(C) -> Nodes] /\ Len(C) \in Nat
  BY LenProperties
<1>2. C \in Injection(1 .. Len(C), Nodes)
  BY <1>1, Zenon DEF Distinct, Injection, IsInjective
<1>3. IsFiniteSet(Nodes)
  BY CacheListAssumption
<1>4. Cardinality(1 .. Len(C)) <= Cardinality(Nodes)
  BY <1>2, <1>3, FS_Injection
<1>5. Cardinality(1 .. Len(C)) = Len(C)
  <2>1. 1 \in Int /\ Len(C) \in Int /\ (1 > Len(C) => Len(C) = 0) /\ Len(C) - 1 + 1 = Len(C)
    BY <1>1
  <2>2. Cardinality(1 .. Len(C)) = IF 1 > Len(C) THEN 0 ELSE Len(C) - 1 + 1
    BY <2>1, FS_Interval
  <2> QED BY <2>1, <2>2
<1>6. Cardinality(Nodes) \in Nat
  BY <1>3, FS_CardinalityType
<1> QED BY <1>1, <1>4, <1>5, <1>6 DEF Steps

(* The pointers are walked along C.                                        *)
LEMMA WalkIs ==
    ASSUME NEW L, NEW C, Chained(L, C)
    PROVE  Walk(L) = [i \in Steps |-> IF i < Len(C) THEN C[i + 1] ELSE NULL]
<1>1. C \in Seq(Nodes) /\ Len(C) \in Nat /\ Len(C) \in Steps /\ Cardinality(Nodes) \in Nat
  BY ChainFits, LenProperties DEF Chained
<1> PICK F : F = [i \in Steps |-> IF i < Len(C) THEN C[i + 1] ELSE NULL]
  OBVIOUS
<1>2. \A i \in 1 .. Len(C) : C[i] \in Nodes /\ C[i] # NULL
  BY <1>1, ElementOfSeq, CacheListAssumption
<1>3. C = <<>> <=> Len(C) = 0
  BY <1>1, EmptySeq
<1>4. Steps \subseteq Nat /\ \A i \in Steps : i # 0 => i - 1 \in Steps
  BY <1>1 DEF Steps
<1>5. \A i \in Steps : F[i] = IF i = 0 THEN L.tail
                              ELSE IF F[i - 1] = NULL THEN NULL ELSE L.prev[F[i - 1]]
  <2> SUFFICES ASSUME NEW i \in Steps
               PROVE  F[i] = IF i = 0 THEN L.tail
                             ELSE IF F[i - 1] = NULL THEN NULL ELSE L.prev[F[i - 1]]
    OBVIOUS
  <2>1. CASE i = 0
    <3>1. L.tail = IF C = <<>> THEN NULL ELSE C[1]
      BY DEF Chained
    <3> QED BY <2>1, <3>1, <1>1, <1>3
  <2>2. CASE i # 0 /\ i - 1 < Len(C)
    <3>1. i \in 1 .. Len(C) /\ i - 1 \in Steps /\ i - 1 + 1 = i
      BY <2>2, <1>1, <1>4
    <3>2. F[i - 1] = C[i] /\ C[i] # NULL
      BY <2>2, <3>1, <1>2
    <3>3. L.prev[C[i]] = IF i < Len(C) THEN C[i + 1] ELSE NULL
      BY <3>1 DEF Chained
    <3> QED BY <2>2, <3>2, <3>3
  <2>3. CASE i # 0 /\ ~ (i - 1 < Len(C))
    <3>1. i - 1 \in Steps /\ ~ (i < Len(C))
      BY <2>3, <1>1, <1>4
    <3> QED BY <2>3, <3>1
  <2> QED BY <2>1, <2>2, <2>3
<1>6. IsWalk(L, F)
  BY <1>5 DEF IsWalk
<1>7. ASSUME NEW f, IsWalk(L, f)
      PROVE  f = F
  <2>1. /\ DOMAIN f = Steps /\ f = [i \in Steps |-> f[i]]
        /\ \A i \in Steps : f[i] = IF i = 0 THEN L.tail
                                   ELSE IF f[i - 1] = NULL THEN NULL ELSE L.prev[f[i - 1]]
    BY <1>7 DEF IsWalk
  <2> PICK S : S = {i \in Steps : f[i] # F[i]}
    OBVIOUS
  <2>2. S = {}
    <3> SUFFICES ASSUME S # {} PROVE FALSE
      OBVIOUS
    <3>1. S \in SUBSET Nat
      BY <1>4
    <3>2. PICK m \in S : \A k \in S : m <= k
      BY <3>1, LeastOfSet
    <3>3. m \in Steps /\ m \in Nat /\ f[m] # F[m]
      BY <3>2, <1>4
    <3>4. m # 0 => f[m - 1] = F[m - 1]
      <4> SUFFICES ASSUME m # 0 PROVE f[m - 1] = F[m - 1]
        OBVIOUS
      <4>1. m - 1 \in Steps /\ ~ (m <= m - 1)
        BY <3>3, <1>4
      <4> QED BY <4>1, <3>2
    <3>5. f[m] = IF m = 0 THEN L.tail
                 ELSE IF f[m - 1] = NULL THEN NULL ELSE L.prev[f[m - 1]]
      BY <3>3, <2>1
    <3>6. F[m] = IF m = 0 THEN L.tail
                 ELSE IF F[m - 1] = NULL THEN NULL ELSE L.prev[F[m - 1]]
      BY <3>3, <1>5
    <3> QED BY <3>3, <3>4, <3>5, <3>6
  <2> QED BY <2>1, <2>2
<1>8. Walk(L) = CHOOSE f : IsWalk(L, f)
  BY DEF Walk, IsWalk
<1>9. (CHOOSE f : IsWalk(L, f)) = F
  BY <1>6, <1>7
<1> QED BY <1>8, <1>9

(* The chain that is read from the pointers is C.                          *)
LEMMA ChainIs ==
    ASSUME NEW L, NEW C, Chained(L, C)
    PROVE  Ends(L) /\ Chain(L) = C
<1>1. C \in Seq(Nodes) /\ Len(C) \in Nat /\ Len(C) \in Steps /\ Cardinality(Nodes) \in Nat
  BY ChainFits, LenProperties DEF Chained
<1>2. Walk(L) = [i \in Steps |-> IF i < Len(C) THEN C[i + 1] ELSE NULL]
  BY WalkIs
<1>3. \A i \in 1 .. Len(C) : C[i] # NULL
  BY <1>1, ElementOfSeq, CacheListAssumption
<1> PICK S : S = {i \in Steps : Walk(L)[i] = NULL}
  OBVIOUS
<1>4. Len(C) \in S
  BY <1>1, <1>2
<1>5. \A i \in S : i \in Nat /\ Len(C) <= i
  <2> SUFFICES ASSUME NEW i \in S PROVE i \in Nat /\ Len(C) <= i
    OBVIOUS
  <2>1. i \in Nat /\ i \in Steps /\ Walk(L)[i] = NULL
    BY <1>1 DEF Steps
  <2>2. i < Len(C) => C[i + 1] # NULL
    BY <2>1, <1>1, <1>3
  <2> QED BY <2>1, <2>2, <1>1, <1>2
<1>6. Min(S) = Len(C)
  <2>1. S \in SUBSET Nat
    BY <1>5
  <2>2. Min(S) \in S /\ Min(S) <= Len(C)
    BY <2>1, <1>4, LeastOfSet
  <2> QED BY <2>2, <1>1, <1>5
<1>7. Ends(L) /\ Length(L) = Len(C)
  <2>1. Ends(L)
    BY <1>4 DEF Ends
  <2> QED BY <2>1, <1>6 DEF Length
<1>8. \A i \in 1 .. Len(C) : Walk(L)[i - 1] = C[i]
  BY <1>1, <1>2 DEF Steps
<1>9. Chain(L) = [i \in 1 .. Len(C) |-> C[i]]
  BY <1>7, <1>8 DEF Chain
<1>10. C = [i \in 1 .. Len(C) |-> C[i]]
  BY <1>1, LenProperties
<1> QED BY <1>7, <1>9, <1>10
-----------------------------------------------------------------------------
(* What each routine makes of the pointers.                                *)

(* AtEnd, field by field.                                                  *)
IsAtEnd(L, n, M) ==
    /\ M \in Lists
    /\ M.head = L.head /\ M.tail = n
    /\ M.prev = [L.prev EXCEPT ![n] = L.tail]
    /\ M.next = [[L.next EXCEPT ![L.tail] = n] EXCEPT ![n] = NULL]
    /\ M.name = L.name /\ M.size = L.size
    /\ M.total_size = L.total_size
    /\ M.num_CachedItem = L.num_CachedItem
    /\ M.segv = L.segv

(* Linking a node behind the tail, field by field.                         *)
LEMMA AtEndIs ==
    ASSUME NEW L \in Lists, NEW n \in Nodes, L.tail \in Nodes
    PROVE  IsAtEnd(L, n, AtEnd(L, n))
BY DEF AtEnd, Lists, Pointer, IsAtEnd

(* UnlinkHead and UnlinkMiddle, field by field.                            *)
LEMMA UnlinkIs ==
    ASSUME NEW L \in Lists, NEW n \in Nodes, L.next[n] \in Nodes
    PROVE  /\ UnlinkHead(L, n) \in Lists
           /\ UnlinkHead(L, n) = [L EXCEPT !.prev = UnlinkHead(L, n).prev]
           /\ UnlinkHead(L, n).prev = [L.prev EXCEPT ![L.next[n]] = NULL]
           /\ L.prev[n] \in Nodes =>
                 /\ UnlinkMiddle(L, n) \in Lists
                 /\ UnlinkMiddle(L, n) = [L EXCEPT !.prev = UnlinkMiddle(L, n).prev,
                                                   !.next = UnlinkMiddle(L, n).next]
                 /\ UnlinkMiddle(L, n).prev = [L.prev EXCEPT ![L.next[n]] = L.prev[n]]
                 /\ UnlinkMiddle(L, n).next = [L.next EXCEPT ![L.prev[n]] = L.next[n]]
<1>1. UnlinkHead(L, n) \in Lists
  BY DEF UnlinkHead, Lists, Pointer
<1>2. /\ UnlinkHead(L, n) = [L EXCEPT !.prev = UnlinkHead(L, n).prev]
      /\ UnlinkHead(L, n).prev = [L.prev EXCEPT ![L.next[n]] = NULL]
  BY DEF UnlinkHead, Lists, Pointer
<1>3. ASSUME L.prev[n] \in Nodes
      PROVE  /\ UnlinkMiddle(L, n) \in Lists
             /\ UnlinkMiddle(L, n) = [L EXCEPT !.prev = UnlinkMiddle(L, n).prev,
                                               !.next = UnlinkMiddle(L, n).next]
             /\ UnlinkMiddle(L, n).prev = [L.prev EXCEPT ![L.next[n]] = L.prev[n]]
             /\ UnlinkMiddle(L, n).next = [L.next EXCEPT ![L.prev[n]] = L.next[n]]
  BY <1>3 DEF UnlinkMiddle, Lists, Pointer
<1> QED BY <1>1, <1>2, <1>3

(* The chain D of M is the chain C of L with item k put before the others  *)
(* that stay.                                                              *)
MovedOn(C, k) == [i \in 1 .. Len(C) |-> IF i = 1 THEN C[k] ELSE IF i <= k THEN C[i - 1] ELSE C[i]]

CutOn(C, k) == [i \in 1 .. k |-> IF i = 1 THEN C[k] ELSE C[i - 1]]

(* They are sequences of nodes, without repetition.                        *)
LEMMA MovedSeq ==
    ASSUME NEW C \in Seq(Nodes), Distinct(C), NEW k \in 1 .. Len(C)
    PROVE  /\ MovedOn(C, k) \in Seq(Nodes) /\ Len(MovedOn(C, k)) = Len(C)
           /\ CutOn(C, k) \in Seq(Nodes) /\ Len(CutOn(C, k)) = k
           /\ Distinct(MovedOn(C, k)) /\ Distinct(CutOn(C, k))
<1>1. Len(C) \in Nat /\ \A i \in 1 .. Len(C) : C[i] \in Nodes
  BY ElementOfSeq, LenProperties
<1> PICK D : D = MovedOn(C, k)
  OBVIOUS
<1> PICK E : E = CutOn(C, k)
  OBVIOUS
<1>2. D \in Seq(Nodes) /\ Len(D) = Len(C)
  <2>1. D \in [1 .. Len(C) -> Nodes]
    BY <1>1 DEF MovedOn
  <2> QED BY <1>1, <2>1
<1>3. E \in Seq(Nodes) /\ Len(E) = k
  <2>1. E \in [1 .. k -> Nodes]
    BY <1>1 DEF CutOn
  <2> QED BY <1>1, <2>1
<1>4. \A i, j \in 1 .. Len(C) : C[i] = C[j] => i = j
  BY DEF Distinct
<1>5. Distinct(D)
  <2> SUFFICES ASSUME NEW i \in 1 .. Len(C), NEW j \in 1 .. Len(C), D[i] = D[j]
               PROVE  i = j
    BY <1>2 DEF Distinct
  <2> DEFINE At(h) == IF h = 1 THEN k ELSE IF h <= k THEN h - 1 ELSE h
  <2>1. At(i) \in 1 .. Len(C) /\ At(j) \in 1 .. Len(C) /\ D[i] = C[At(i)] /\ D[j] = C[At(j)]
    BY <1>1 DEF MovedOn
  <2>2. At(i) = At(j)
    <3> HIDE DEF At
    <3> QED BY <2>1, <1>4
  <2> QED BY <2>2, <1>1
<1>6. Distinct(E)
  <2> SUFFICES ASSUME NEW i \in 1 .. k, NEW j \in 1 .. k, E[i] = E[j]
               PROVE  i = j
    BY <1>3 DEF Distinct
  <2> DEFINE At(h) == IF h = 1 THEN k ELSE h - 1
  <2>1. At(i) \in 1 .. Len(C) /\ At(j) \in 1 .. Len(C) /\ E[i] = C[At(i)] /\ E[j] = C[At(j)]
    BY <1>1 DEF CutOn
  <2>2. At(i) = At(j)
    <3> HIDE DEF At
    <3> QED BY <2>1, <1>4
  <2> QED BY <2>2, <1>1
<1> QED BY <1>2, <1>3, <1>5, <1>6

(* What a chain says of its items, for the provers.                        *)
LEMMA ChainFacts ==
    ASSUME NEW L \in Lists, NEW C, Chained(L, C)
    PROVE  /\ C \in Seq(Nodes) /\ Len(C) \in Nat /\ Distinct(C)
           /\ \A i \in 1 .. Len(C) : C[i] \in Nodes /\ C[i] # NULL /\ C[i] \in Allocated(L)
           /\ \A i, j \in 1 .. Len(C) : C[i] = C[j] => i = j
           /\ Len(C) > 0 => L.tail = C[1] /\ L.tail \in Nodes
           /\ Len(C) = 0 => L.tail = NULL /\ C = <<>>
           /\ \A i \in 1 .. Len(C) : i < Len(C) => L.prev[C[i]] = C[i + 1]
           /\ \A i \in 1 .. Len(C) : i = Len(C) => L.prev[C[i]] = NULL
           /\ \A i \in 1 .. Len(C) : i # 1 => L.next[C[i]] = C[i - 1]
           /\ \A i \in 1 .. Len(C) : i = 1 => L.next[C[i]] = NULL
           /\ Allocated(L) # {} => \E i \in 1 .. Len(C) : L.head = C[i]
<1>1. C \in Seq(Nodes) /\ Len(C) \in Nat /\ (C = <<>> <=> Len(C) = 0)
  BY LenProperties, EmptySeq DEF Chained
<1>2. \A i \in 1 .. Len(C) : C[i] \in Nodes /\ C[i] # NULL
  BY <1>1, ElementOfSeq, CacheListAssumption
<1>3. /\ Len(C) > 0 => L.tail = C[1] /\ L.tail \in Nodes
      /\ Len(C) = 0 => L.tail = NULL /\ C = <<>>
  BY <1>1, <1>2 DEF Chained
<1>4. /\ Distinct(C) /\ \A i, j \in 1 .. Len(C) : C[i] = C[j] => i = j
      /\ \A i \in 1 .. Len(C) : C[i] \in Allocated(L)
      /\ Allocated(L) # {} => \E i \in 1 .. Len(C) : L.head = C[i]
  BY DEF Chained, Distinct
<1>5. \A i \in 1 .. Len(C) : L.prev[C[i]] = IF i < Len(C) THEN C[i + 1] ELSE NULL
  BY DEF Chained
<1>6. \A i \in 1 .. Len(C) : L.next[C[i]] = IF i = 1 THEN NULL ELSE C[i - 1]
  BY DEF Chained
<1> QED BY <1>1, <1>2, <1>3, <1>4, <1>5, <1>6

(* A list that differs from L in the links alone keeps its totals.         *)
SameItems(L, M) ==
    /\ M \in Lists /\ M.head = L.head /\ M.name = L.name /\ M.size = L.size
    /\ M.total_size = L.total_size /\ M.num_CachedItem = L.num_CachedItem

(* Relinking items keeps their sums and which nodes are allocated.         *)
LEMMA Relinked ==
    ASSUME NEW L, NEW C, NEW G, Fine(L, C, G), NEW M, SameItems(L, M), NEW D, Chained(M, D),
           \A n \in Nodes \ Allocated(L) : M.prev[n] = L.prev[n] /\ M.next[n] = L.next[n]
    PROVE  Fine(M, D, G) /\ Allocated(M) = Allocated(L)
<1>1. Allocated(M) = Allocated(L)
  BY DEF SameItems, Allocated
<1>2. Freed(M)
  BY <1>1 DEF Fine, Freed
<1>3. Totals(M, G)
  BY <1>1 DEF Fine, Totals, SameItems
<1> QED BY <1>1, <1>2, <1>3 DEF Fine, SameItems

(* move_to_end of the oldest known item: what is older is dropped.         *)
LEMMA MoveHead ==
    ASSUME NEW L, NEW C, NEW G, Fine(L, C, G), NEW k \in 2 .. Len(C), L.head = C[k],
           NEW M, M = AtEnd(UnlinkHead(L, C[k]), C[k])
    PROVE  SameItems(L, M) /\ M.segv = L.segv /\ Fine(M, CutOn(C, k), G)
<1>1. L \in Lists /\ Chained(L, C)
  BY DEF Fine
<1>2. /\ C \in Seq(Nodes) /\ Len(C) \in Nat /\ Distinct(C)
      /\ \A i \in 1 .. Len(C) : C[i] \in Nodes /\ C[i] # NULL /\ C[i] \in Allocated(L)
      /\ \A i, j \in 1 .. Len(C) : C[i] = C[j] => i = j
      /\ L.tail = C[1] /\ L.tail \in Nodes
      /\ \A i \in 1 .. Len(C) : i < Len(C) => L.prev[C[i]] = C[i + 1]
      /\ \A i \in 1 .. Len(C) : i # 1 => L.next[C[i]] = C[i - 1]
      /\ \A i \in 1 .. Len(C) : i = 1 => L.next[C[i]] = NULL
  BY <1>1, ChainFacts
<1> PICK D : D = CutOn(C, k)
  OBVIOUS
<1>3. D \in Seq(Nodes) /\ Len(D) = k /\ Distinct(D)
  BY <1>2, MovedSeq
<1>4. k \in 1 .. Len(C) /\ k - 1 \in 1 .. Len(C) /\ 1 \in 1 .. Len(C) /\ k \in Nat
  BY <1>2
<1>5. D[1] = C[k] /\ \A i \in 2 .. k : D[i] = C[i - 1]
  BY <1>4 DEF CutOn
<1> PICK n \in Nodes : n = C[k]
  BY <1>2, <1>4
<1>6. L.next[n] = C[k - 1] /\ L.next[n] \in Nodes /\ n # C[k - 1]
  BY <1>2, <1>4
<1> PICK U : U = UnlinkHead(L, n)
  OBVIOUS
<1>7. /\ U \in Lists /\ U.tail = L.tail /\ U.next = L.next /\ SameItems(L, U) /\ U.segv = L.segv
      /\ U.prev = [L.prev EXCEPT ![C[k - 1]] = NULL]
  <2>1. U \in Lists /\ U = [L EXCEPT !.prev = U.prev] /\ U.prev = [L.prev EXCEPT ![L.next[n]] = NULL]
    BY <1>1, <1>6, UnlinkIs
  <2> QED BY <2>1, <1>1, <1>6 DEF SameItems, Lists
<1>8. /\ M \in Lists /\ SameItems(U, M) /\ M.tail = n /\ M.segv = U.segv
      /\ M.prev = [U.prev EXCEPT ![n] = L.tail]
      /\ M.next = [[U.next EXCEPT ![L.tail] = n] EXCEPT ![n] = NULL]
  <2>1. M = AtEnd(U, n) /\ U.tail \in Nodes
    BY <1>2, <1>7
  <2>2. IsAtEnd(U, n, M)
    BY <2>1, <1>7, AtEndIs
  <2> QED BY <2>2, <1>7 DEF SameItems, IsAtEnd
<1>9. SameItems(L, M) /\ M.segv = L.segv
  BY <1>7, <1>8 DEF SameItems
<1>10. \A x \in Nodes :
          /\ M.prev[x] = IF x = C[k] THEN C[1] ELSE IF x = C[k - 1] THEN NULL ELSE L.prev[x]
          /\ M.next[x] = IF x = C[k] THEN NULL ELSE IF x = C[1] THEN C[k] ELSE L.next[x]
  <2>1. L.prev \in [Nodes -> Pointer] /\ L.next \in [Nodes -> Pointer]
    BY <1>1 DEF Lists
  <2>2. C[1] \in Nodes /\ C[k - 1] \in Nodes
    BY <1>2, <1>4
  <2>3. M.prev = [[L.prev EXCEPT ![C[k - 1]] = NULL] EXCEPT ![C[k]] = C[1]]
    BY <1>2, <1>7, <1>8
  <2>4. M.next = [[L.next EXCEPT ![C[1]] = C[k]] EXCEPT ![C[k]] = NULL]
    BY <1>2, <1>7, <1>8
  <2> QED BY <2>1, <2>2, <2>3, <2>4, <1>6
<1>11. \A i \in 1 .. k : M.prev[D[i]] = IF i < k THEN D[i + 1] ELSE NULL
  <2> SUFFICES ASSUME NEW i \in 1 .. k
               PROVE  M.prev[D[i]] = IF i < k THEN D[i + 1] ELSE NULL
    OBVIOUS
  <2>1. CASE i = 1
    <3>1. D[2] = C[1]
      BY <1>5
    <3> QED BY <2>1, <3>1, <1>2, <1>4, <1>5, <1>10
  <2>2. CASE i # 1 /\ i < k
    <3>1. D[i] = C[i - 1] /\ D[i + 1] = C[i] /\ i - 1 \in 1 .. Len(C) /\ i - 1 # k /\ i - 1 # k - 1
      BY <2>2, <1>2, <1>5
    <3>2. L.prev[C[i - 1]] = C[i] /\ C[i - 1] # C[k] /\ C[i - 1] # C[k - 1] /\ C[i - 1] \in Nodes
      BY <3>1, <1>2, <1>4
    <3> QED BY <2>2, <3>1, <3>2, <1>10
  <2>3. CASE i = k
    <3>1. D[i] = C[k - 1] /\ C[k - 1] # C[k] /\ C[k - 1] \in Nodes
      BY <2>3, <1>2, <1>4, <1>5
    <3> QED BY <2>3, <3>1, <1>10
  <2> QED BY <2>1, <2>2, <2>3
<1>12. \A i \in 1 .. k : M.next[D[i]] = IF i = 1 THEN NULL ELSE D[i - 1]
  <2> SUFFICES ASSUME NEW i \in 1 .. k
               PROVE  M.next[D[i]] = IF i = 1 THEN NULL ELSE D[i - 1]
    OBVIOUS
  <2>1. CASE i = 1
    BY <2>1, <1>2, <1>4, <1>5, <1>10
  <2>2. CASE i = 2
    <3>1. D[i] = C[1] /\ D[i - 1] = C[k] /\ C[1] # C[k] /\ C[1] \in Nodes
      BY <2>2, <1>2, <1>4, <1>5
    <3> QED BY <2>2, <3>1, <1>10
  <2>3. CASE i > 2
    <3>1. D[i] = C[i - 1] /\ D[i - 1] = C[i - 2] /\ i - 1 \in 1 .. Len(C) /\ i - 1 # k /\ i - 1 # 1
          /\ (i - 1) - 1 = i - 2
      BY <2>3, <1>2, <1>5
    <3>2. L.next[C[i - 1]] = C[i - 2] /\ C[i - 1] # C[k] /\ C[i - 1] # C[1] /\ C[i - 1] \in Nodes
      BY <3>1, <1>2, <1>4
    <3> QED BY <2>3, <3>1, <3>2, <1>10
  <2> QED BY <2>1, <2>2, <2>3
<1>13. Allocated(M) = Allocated(L) /\ \A i \in 1 .. k : D[i] \in Allocated(M)
  <2>1. Allocated(M) = Allocated(L)
    BY <1>9 DEF SameItems, Allocated
  <2>2. ASSUME NEW i \in 1 .. k PROVE D[i] \in Allocated(L)
    <3>1. CASE i = 1
      BY <3>1, <1>2, <1>4, <1>5
    <3>2. CASE i # 1
      <4>1. i - 1 \in 1 .. Len(C) /\ i \in 2 .. k
        BY <3>2, <1>2, <1>4
      <4> QED BY <4>1, <1>2, <1>5
    <3> QED BY <3>1, <3>2
  <2> QED BY <2>1, <2>2
<1>14. Chained(M, D)
  <2>1. M.tail = IF D = <<>> THEN NULL ELSE D[1]
    <3>1. D # <<>>
      BY <1>3, <1>4, EmptySeq
    <3> QED BY <3>1, <1>5, <1>8
  <2>2. \E i \in 1 .. Len(D) : M.head = D[i]
    BY <1>3, <1>4, <1>5, <1>9 DEF SameItems
  <2> QED BY <2>1, <2>2, <1>3, <1>11, <1>12, <1>13 DEF Chained
<1>15. \A x \in Nodes \ Allocated(L) : M.prev[x] = L.prev[x] /\ M.next[x] = L.next[x]
  BY <1>2, <1>4, <1>10
<1> QED BY <1>9, <1>14, <1>15, Relinked

(* move_to_end of an item between two others.                              *)
LEMMA MoveMiddle ==
    ASSUME NEW L, NEW C, NEW G, Fine(L, C, G), NEW k \in 2 .. Len(C) - 1,
           NEW M, M = AtEnd(UnlinkMiddle(L, C[k]), C[k])
    PROVE  SameItems(L, M) /\ M.segv = L.segv /\ Fine(M, MovedOn(C, k), G)
<1>1. L \in Lists /\ Chained(L, C)
  BY DEF Fine
<1>2. /\ C \in Seq(Nodes) /\ Len(C) \in Nat /\ Distinct(C)
      /\ \A i \in 1 .. Len(C) : C[i] \in Nodes /\ C[i] # NULL /\ C[i] \in Allocated(L)
      /\ \A i, j \in 1 .. Len(C) : C[i] = C[j] => i = j
      /\ L.tail = C[1] /\ L.tail \in Nodes
      /\ \A i \in 1 .. Len(C) : i < Len(C) => L.prev[C[i]] = C[i + 1]
      /\ \A i \in 1 .. Len(C) : i = Len(C) => L.prev[C[i]] = NULL
      /\ \A i \in 1 .. Len(C) : i # 1 => L.next[C[i]] = C[i - 1]
      /\ \A i \in 1 .. Len(C) : i = 1 => L.next[C[i]] = NULL
      /\ Allocated(L) # {} => \E i \in 1 .. Len(C) : L.head = C[i]
  BY <1>1, ChainFacts, SMTT(30)
<1> PICK m \in Nat : m = Len(C)
  BY <1>2
<1> PICK D : D = MovedOn(C, k)
  OBVIOUS
<1>4. /\ k \in 1 .. m /\ k - 1 \in 1 .. m /\ 1 \in 1 .. m /\ k + 1 \in 1 .. m /\ k \in Nat
      /\ m > 2 /\ k > 1 /\ k < m
  BY <1>2
<1>3. D \in Seq(Nodes) /\ Len(D) = m /\ Distinct(D)
  BY <1>2, <1>4, MovedSeq
<1>5. /\ D[1] = C[k]
      /\ \A i \in 1 .. m : i # 1 /\ i <= k => D[i] = C[i - 1]
      /\ \A i \in 1 .. m : i > k => D[i] = C[i]
  BY <1>4 DEF MovedOn
<1> PICK n \in Nodes : n = C[k]
  BY <1>2, <1>4
<1>6. /\ L.next[n] = C[k - 1] /\ L.next[n] \in Nodes /\ L.prev[n] = C[k + 1] /\ L.prev[n] \in Nodes
      /\ n # C[k - 1] /\ n # C[k + 1] /\ C[1] # C[k + 1] /\ C[1] # n
  BY <1>2, <1>4
<1> PICK U : U = UnlinkMiddle(L, n)
  OBVIOUS
<1>7. /\ U \in Lists /\ U.tail = L.tail /\ SameItems(L, U) /\ U.segv = L.segv
      /\ U.prev = [L.prev EXCEPT ![C[k - 1]] = C[k + 1]]
      /\ U.next = [L.next EXCEPT ![C[k + 1]] = C[k - 1]]
  <2>1. /\ U \in Lists /\ U = [L EXCEPT !.prev = U.prev, !.next = U.next]
        /\ U.prev = [L.prev EXCEPT ![L.next[n]] = L.prev[n]]
        /\ U.next = [L.next EXCEPT ![L.prev[n]] = L.next[n]]
    BY <1>1, <1>6, UnlinkIs
  <2> QED BY <2>1, <1>1, <1>6 DEF SameItems, Lists
<1>8. /\ M \in Lists /\ SameItems(U, M) /\ M.tail = n /\ M.segv = U.segv
      /\ M.prev = [U.prev EXCEPT ![n] = L.tail]
      /\ M.next = [[U.next EXCEPT ![L.tail] = n] EXCEPT ![n] = NULL]
  <2>1. M = AtEnd(U, n) /\ U.tail \in Nodes
    BY <1>2, <1>7
  <2>2. IsAtEnd(U, n, M)
    BY <2>1, <1>7, AtEndIs
  <2> QED BY <2>2, <1>7 DEF SameItems, IsAtEnd
<1>9. SameItems(L, M) /\ M.segv = L.segv
  BY <1>7, <1>8 DEF SameItems
<1>10. \A x \in Nodes :
          /\ M.prev[x] = IF x = C[k] THEN C[1] ELSE IF x = C[k - 1] THEN C[k + 1] ELSE L.prev[x]
          /\ M.next[x] = IF x = C[k] THEN NULL ELSE IF x = C[1] THEN C[k]
                         ELSE IF x = C[k + 1] THEN C[k - 1] ELSE L.next[x]
  <2>1. L.prev \in [Nodes -> Pointer] /\ L.next \in [Nodes -> Pointer]
    BY <1>1 DEF Lists
  <2>2. C[1] \in Nodes /\ C[k - 1] \in Nodes /\ C[k + 1] \in Nodes
    BY <1>2, <1>4
  <2>3. M.prev = [[L.prev EXCEPT ![C[k - 1]] = C[k + 1]] EXCEPT ![C[k]] = C[1]]
    BY <1>2, <1>7, <1>8
  <2>4. M.next = [[[L.next EXCEPT ![C[k + 1]] = C[k - 1]] EXCEPT ![C[1]] = C[k]]
                    EXCEPT ![C[k]] = NULL]
    BY <1>2, <1>7, <1>8
  <2> QED BY <2>1, <2>2, <2>3, <2>4, <1>6
<1>11. \A i \in 1 .. m : M.prev[D[i]] = IF i < m THEN D[i + 1] ELSE NULL
  <2> SUFFICES ASSUME NEW i \in 1 .. m
               PROVE  M.prev[D[i]] = IF i < m THEN D[i + 1] ELSE NULL
    OBVIOUS
  <2>1. CASE i = 1
    <3>1. D[2] = C[1]
      BY <1>4, <1>5
    <3> QED BY <2>1, <3>1, <1>2, <1>4, <1>5, <1>10
  <2>2. CASE i # 1 /\ i < k
    <3>1. D[i] = C[i - 1] /\ D[i + 1] = C[i] /\ i - 1 \in 1 .. m /\ i - 1 # k /\ i - 1 # k - 1
      BY <2>2, <1>4, <1>5
    <3>2. L.prev[C[i - 1]] = C[i] /\ C[i - 1] # C[k] /\ C[i - 1] # C[k - 1] /\ C[i - 1] \in Nodes
      <4>1. i - 1 < Len(C) /\ (i - 1) + 1 = i
        BY <2>2, <1>4
      <4> QED BY <3>1, <4>1, <1>2, <1>4
    <3> QED BY <2>2, <3>1, <3>2, <1>4, <1>10
  <2>3. CASE i = k
    <3>1. D[i] = C[k - 1] /\ D[i + 1] = C[k + 1] /\ C[k - 1] # C[k] /\ C[k - 1] \in Nodes
      BY <2>3, <1>2, <1>4, <1>5, <1>6
    <3> QED BY <2>3, <3>1, <1>4, <1>10
  <2>4. CASE i > k
    <3>1. D[i] = C[i] /\ (i < m => D[i + 1] = C[i + 1]) /\ i # k /\ i # k - 1
      <4>1. i < m => i + 1 \in 1 .. m /\ i + 1 > k
        BY <2>4, <1>4
      <4>2. i # k /\ i # k - 1
        BY <2>4, <1>4
      <4> QED BY <4>1, <4>2, <2>4, <1>5
    <3>2. C[i] # C[k] /\ C[i] # C[k - 1] /\ C[i] \in Nodes
      BY <3>1, <1>2, <1>4
    <3>3. M.prev[C[i]] = L.prev[C[i]]
      BY <3>2, <1>10
    <3> QED BY <3>1, <3>3, <1>2
  <2> QED BY <2>1, <2>2, <2>3, <2>4
<1>12. \A i \in 1 .. m : M.next[D[i]] = IF i = 1 THEN NULL ELSE D[i - 1]
  <2> SUFFICES ASSUME NEW i \in 1 .. m
               PROVE  M.next[D[i]] = IF i = 1 THEN NULL ELSE D[i - 1]
    OBVIOUS
  <2>1. CASE i = 1
    BY <2>1, <1>2, <1>4, <1>5, <1>10
  <2>2. CASE i = 2
    <3>1. D[i] = C[1] /\ D[i - 1] = C[k] /\ C[1] # C[k] /\ C[1] \in Nodes
      BY <2>2, <1>2, <1>4, <1>5, <1>6
    <3> QED BY <2>2, <3>1, <1>10
  <2>3. CASE i > 2 /\ i <= k
    <3>1. D[i] = C[i - 1] /\ D[i - 1] = C[i - 2] /\ i - 1 \in 1 .. m /\ i - 1 # k /\ i - 1 # 1
          /\ (i - 1) - 1 = i - 2 /\ i - 1 # k + 1
      BY <2>3, <1>4, <1>5
    <3>2. L.next[C[i - 1]] = C[i - 2] /\ C[i - 1] # C[k] /\ C[i - 1] # C[1] /\ C[i - 1] \in Nodes
          /\ C[i - 1] # C[k + 1]
      <4>1. L.next[C[i - 1]] = C[(i - 1) - 1]
        BY <3>1, <1>2
      <4>2. C[i - 1] # C[k] /\ C[i - 1] # C[1] /\ C[i - 1] \in Nodes /\ C[i - 1] # C[k + 1]
        BY <3>1, <1>2, <1>4
      <4> QED BY <3>1, <4>1, <4>2
    <3> QED BY <2>3, <3>1, <3>2, <1>10
  <2>4. CASE i = k + 1
    <3>1. D[i] = C[k + 1] /\ D[i - 1] = C[k - 1] /\ C[k + 1] \in Nodes
      BY <2>4, <1>2, <1>4, <1>5
    <3> QED BY <2>4, <3>1, <1>4, <1>6, <1>10
  <2>5. CASE i > k + 1
    <3>1. D[i] = C[i] /\ D[i - 1] = C[i - 1] /\ i # 1 /\ i # k /\ i # k + 1
      BY <2>5, <1>4, <1>5
    <3>2. C[i] # C[k] /\ C[i] # C[1] /\ C[i] # C[k + 1] /\ C[i] \in Nodes /\ L.next[C[i]] = C[i - 1]
      BY <3>1, <1>2, <1>4
    <3> QED BY <3>1, <3>2, <1>10
  <2> QED BY <2>1, <2>2, <2>3, <2>4, <2>5, <1>4
<1>13. Allocated(M) = Allocated(L) /\ \A i \in 1 .. m : D[i] \in Allocated(M)
  <2>1. Allocated(M) = Allocated(L)
    BY <1>9 DEF SameItems, Allocated
  <2>2. \A i \in 1 .. m : i # 1 => i - 1 \in 1 .. m
    OBVIOUS
  <2> QED BY <2>1, <2>2, <1>2, <1>4, <1>5
<1>14. Chained(M, D)
  <2>1. M.tail = IF D = <<>> THEN NULL ELSE D[1]
    <3>1. D # <<>>
      BY <1>3, <1>4, EmptySeq
    <3> QED BY <3>1, <1>5, <1>8
  <2>2. \E i \in 1 .. m : M.head = D[i]
    <3>1. PICK h \in 1 .. m : L.head = C[h]
      BY <1>2, <1>4
    <3>2. h = k => M.head = D[1]
      BY <3>1, <1>5, <1>9 DEF SameItems
    <3>3. h < k => M.head = D[h + 1] /\ h + 1 \in 1 .. m
      BY <3>1, <1>4, <1>5, <1>9 DEF SameItems
    <3>4. h > k => M.head = D[h]
      BY <3>1, <1>5, <1>9 DEF SameItems
    <3> QED BY <3>2, <3>3, <3>4, <1>4
  <2> QED BY <2>1, <2>2, <1>3, <1>11, <1>12, <1>13 DEF Chained
<1>15. \A x \in Nodes \ Allocated(L) : M.prev[x] = L.prev[x] /\ M.next[x] = L.next[x]
  BY <1>2, <1>4, <1>10
<1> QED BY <1>9, <1>14, <1>15, Relinked

(* The places where move_to_end leaves the list as it is, or fails.        *)
LEMMA Crashed ==
    ASSUME NEW L, NEW C, NEW G, Fine(L, C, G), NEW M, M = L \/ M = Crash(L)
    PROVE  SameItems(L, M) /\ Fine(M, C, G)
<1>1. L \in Lists /\ Chained(L, C)
  BY DEF Fine
<1>2. /\ SameItems(L, M) /\ M.prev = L.prev /\ M.next = L.next /\ M.tail = L.tail
  BY <1>1 DEF Crash, Lists, SameItems
<1>3. Allocated(M) = Allocated(L)
  BY <1>2 DEF SameItems, Allocated
<1>4. Chained(M, C)
  BY <1>1, <1>2, <1>3 DEF Chained, SameItems
<1> QED BY <1>2, <1>4, Relinked

(* move_to_end moves an item in front of the others that stay.             *)
LEMMA MoveIs ==
    ASSUME NEW L, NEW C, NEW G, Fine(L, C, G), NEW k \in 1 .. Len(C)
    PROVE  /\ SameItems(L, move_to_end(L, C[k]))
           /\ \E D \in {C, CutOn(C, k), MovedOn(C, k)} : Fine(move_to_end(L, C[k]), D, G)
<1>1. L \in Lists /\ Chained(L, C)
  BY DEF Fine
<1>2. /\ Len(C) \in Nat
      /\ \A i \in 1 .. Len(C) : C[i] \in Nodes /\ C[i] # NULL
      /\ \A i \in 1 .. Len(C) : i < Len(C) => L.prev[C[i]] = C[i + 1]
      /\ \A i \in 1 .. Len(C) : i = Len(C) => L.prev[C[i]] = NULL
      /\ \A i \in 1 .. Len(C) : i # 1 => L.next[C[i]] = C[i - 1]
      /\ \A i \in 1 .. Len(C) : i = 1 => L.next[C[i]] = NULL
  BY <1>1, ChainFacts
<1> PICK M : M = move_to_end(L, C[k])
  OBVIOUS
<1>3. CASE k = 1
  <2>1. M = L
    BY <1>2, <1>3 DEF move_to_end
  <2> QED BY <2>1, Crashed
<1>4. CASE k # 1 /\ C[k] = L.head
  <2>1. k \in 2 .. Len(C) /\ L.next[C[k]] # NULL
    BY <1>2, <1>4
  <2>2. M = AtEnd(UnlinkHead(L, C[k]), C[k])
    BY <2>1, <1>4 DEF move_to_end
  <2>3. SameItems(L, M) /\ Fine(M, CutOn(C, k), G)
    BY <2>1, <2>2, <1>4, MoveHead
  <2> QED BY <2>3
<1>5. CASE k # 1 /\ C[k] # L.head /\ L.prev[C[k]] = NULL
  <2>1. L.next[C[k]] # NULL
    BY <1>2, <1>5
  <2>2. M = Crash(L)
    BY <2>1, <1>5 DEF move_to_end
  <2> QED BY <2>2, Crashed
<1>6. CASE k # 1 /\ C[k] # L.head /\ L.prev[C[k]] # NULL
  <2>1. k \in 2 .. Len(C) - 1 /\ L.next[C[k]] # NULL
    BY <1>2, <1>6
  <2>2. M = AtEnd(UnlinkMiddle(L, C[k]), C[k])
    BY <2>1, <1>6 DEF move_to_end
  <2>3. SameItems(L, M) /\ Fine(M, MovedOn(C, k), G)
    BY <2>1, <2>2, MoveMiddle
  <2> QED BY <2>3
<1> QED BY <1>3, <1>4, <1>5, <1>6

(* find_cache moves the item that it finds, if any.                        *)
LEMMA LookupIs ==
    ASSUME NEW L, NEW C, NEW G, Fine(L, C, G), NEW name
    PROVE  /\ SameItems(L, find_cache(L, name))
           /\ \/ Fine(find_cache(L, name), C, G)
              \/ \E k \in 1 .. Len(C) :
                    \E D \in {CutOn(C, k), MovedOn(C, k)} : Fine(find_cache(L, name), D, G)
<1>1. Chain(L) = C /\ Len(C) \in Nat /\ C \in Seq(Nodes)
  BY ChainIs, ChainFacts DEF Fine
<1>2. CASE Found(L, name) = {}
  <2>1. find_cache(L, name) = L
    BY <1>2 DEF find_cache
  <2> QED BY <2>1, Crashed
<1>3. CASE Found(L, name) # {}
  <2>1. Found(L, name) \in SUBSET (1 .. Len(C))
    BY <1>1, LenProperties DEF Found
  <2>2. PICK k \in 1 .. Len(C) : k = Min(Found(L, name))
    <3>1. Found(L, name) \in SUBSET Nat
      BY <2>1
    <3> QED BY <3>1, <2>1, <1>3, LeastOfSet
  <2>3. find_cache(L, name) = move_to_end(L, C[k])
    BY <2>2, <1>1, <1>3 DEF find_cache
  <2> QED BY <2>3, MoveIs
<1> QED BY <1>2, <1>3

-----------------------------------------------------------------------------
(* One item fewer, and one more.                                           *)

(* Cardinalities of sets of nodes.                                         *)
LEMMA Counted ==
    ASSUME NEW s \in SUBSET Nodes
    PROVE  /\ IsFiniteSet(s) /\ Cardinality(s) \in Nat
           /\ Cardinality(s) = 0 <=> s = {}
           /\ \A n \in s : Cardinality(s \ {n}) = Cardinality(s) - 1
           /\ \A n \in Nodes \ s : Cardinality(s \cup {n}) = Cardinality(s) + 1
<1>1. IsFiniteSet(s) /\ Cardinality(s) \in Nat
  BY FS_Subset, FS_CardinalityType, CacheListAssumption
<1>2. Cardinality(s) = 0 <=> s = {}
  BY <1>1, FS_EmptySet
<1>3. \A n \in s : Cardinality(s \ {n}) = Cardinality(s) - 1
  BY <1>1, FS_RemoveElement
<1>4. \A n \in Nodes \ s : Cardinality(s \cup {n}) = Cardinality(s) + 1
  BY <1>1, FS_AddElement
<1> QED BY <1>1, <1>2, <1>3, <1>4

(* M has one item fewer than L, or one more.                               *)
Drops(L, M, n) ==
    /\ M.size = [L.size EXCEPT ![n] = 0]
    /\ M.total_size = L.total_size - L.size[n]
    /\ M.num_CachedItem = L.num_CachedItem - 1

Adds(L, M, n, b) ==
    /\ M.size = [L.size EXCEPT ![n] = b]
    /\ M.total_size = L.total_size + b
    /\ M.num_CachedItem = L.num_CachedItem + 1

(* The totals without a freed item.                                        *)
LEMMA Fewer ==
    ASSUME NEW L, NEW C, NEW G, Fine(L, C, G), NEW n \in Allocated(L), NEW M, Drops(L, M, n)
    PROVE  /\ Allocated(M) = Allocated(L) \ {n}
           /\ Totals(M, Resummed(Nodes, G, n, 0))
           /\ M.total_size \in Nat /\ M.total_size <= L.total_size /\ M.num_CachedItem \in Nat
<1> USE DEF Drops
<1>1. /\ L.size \in [Nodes -> Nat] /\ n \in Nodes /\ Allocated(L) \in SUBSET Nodes
      /\ Sums(Nodes, L.size, G) /\ L.num_CachedItem = Cardinality(Allocated(L))
      /\ L.total_size = G[Allocated(L)]
  BY DEF Fine, Lists, Allocated, Totals
<1>2. Allocated(M) = Allocated(L) \ {n} /\ Allocated(M) \in SUBSET Nodes /\ n \notin Allocated(M)
  BY <1>1 DEF Allocated
<1>3. /\ G[Allocated(L)] \in Nat /\ G[Allocated(M)] \in Nat /\ L.size[n] \in Nat
      /\ G[Allocated(L)] - L.size[n] = G[Allocated(M)]
  <2> PICK w \in [Nodes -> Nat] : w = L.size
    BY <1>1
  <2> PICK s \in SUBSET Nodes : s = Allocated(L)
    BY <1>1
  <2>1. Sums(Nodes, w, G) /\ n \in s
    BY <1>1
  <2>2. G[s] = w[n] + G[s \ {n}]
    BY <2>1 DEF Sums
  <2>3. G[s] \in Nat /\ G[s \ {n}] \in Nat /\ w[n] \in Nat
    BY <2>1, <1>1 DEF Sums
  <2> QED BY <2>2, <2>3, <1>2
<1>4. Sums(Nodes, M.size, Resummed(Nodes, G, n, 0))
  BY <1>1, SumChanges
<1>5. Resummed(Nodes, G, n, 0)[Allocated(M)] = G[Allocated(M)]
  BY <1>2 DEF Resummed
<1>6. M.num_CachedItem = Cardinality(Allocated(M)) /\ M.num_CachedItem \in Nat
  BY <1>1, <1>2, Counted
<1>7. M.total_size \in Nat /\ M.total_size <= L.total_size /\ M.total_size = G[Allocated(M)]
  BY <1>1, <1>3
<1> QED BY <1>2, <1>4, <1>5, <1>6, <1>7 DEF Totals

(* The totals with a new item.                                             *)
LEMMA More ==
    ASSUME NEW L, NEW C, NEW G, Fine(L, C, G), NEW n \in Nodes \ Allocated(L), NEW b \in Nat \ {0},
           NEW M, Adds(L, M, n, b)
    PROVE  /\ Allocated(M) = Allocated(L) \cup {n}
           /\ Totals(M, Resummed(Nodes, G, n, b))
<1> USE DEF Adds
<1>1. /\ L.size \in [Nodes -> Nat] /\ Allocated(L) \in SUBSET Nodes
      /\ Sums(Nodes, L.size, G) /\ L.num_CachedItem = Cardinality(Allocated(L))
      /\ L.total_size = G[Allocated(L)]
  BY DEF Fine, Lists, Allocated, Totals
<1>2. /\ Allocated(M) = Allocated(L) \cup {n} /\ Allocated(M) \in SUBSET Nodes
      /\ Allocated(M) \ {n} = Allocated(L) /\ n \in Allocated(M)
  BY <1>1 DEF Allocated
<1>4. Sums(Nodes, M.size, Resummed(Nodes, G, n, b))
  BY <1>1, SumChanges
<1>5. Resummed(Nodes, G, n, b)[Allocated(M)] = G[Allocated(L)] + b
  BY <1>2 DEF Resummed
<1>6. M.num_CachedItem = Cardinality(Allocated(M))
  BY <1>1, <1>2, Counted
<1> QED BY <1>1, <1>2, <1>4, <1>5, <1>6 DEF Totals

(* Unlisted, field by field.                                               *)
IsUnlisted(L, n, M) ==
    /\ M.head = L.head /\ M.tail = L.tail
    /\ M.prev = [L.prev EXCEPT ![n] = NULL] /\ M.next = [L.next EXCEPT ![n] = NULL]
    /\ M.size = [L.size EXCEPT ![n] = 0]
    /\ M.total_size = L.total_size - L.size[n] /\ M.num_CachedItem = L.num_CachedItem - 1
    /\ M.total_size \in Nat /\ M.num_CachedItem \in Nat => M \in Lists

(* Taking a node out of the links, field by field.                         *)
LEMMA UnlistedIs ==
    ASSUME NEW L \in Lists, NEW n \in Nodes
    PROVE  IsUnlisted(L, n, Unlisted(L, n))
BY DEF Unlisted, Lists, Pointer, IsUnlisted

(* remove_LRU of the only item.                                            *)
LEMMA RemoveOnly ==
    ASSUME NEW L, NEW C, NEW G, Fine(L, C, G), L.num_CachedItem = 1
    PROVE  /\ remove_LRU(L).total_size <= L.total_size
           /\ Allocated(remove_LRU(L)) \subseteq Allocated(L)
           /\ \E H : Fine(remove_LRU(L), <<>>, H)
<1>1. L \in Lists /\ Chained(L, C)
  BY DEF Fine
<1>2. /\ Allocated(L) \in SUBSET Nodes /\ Cardinality(Allocated(L)) = 1
  BY DEF Fine, Totals, Allocated
<1>3. PICK n \in Allocated(L) : L.head = n
  <2>1. Allocated(L) # {}
    BY <1>2, Counted
  <2> QED BY <2>1, <1>1, ChainFacts
<1>4. n \in Nodes /\ Allocated(L) \ {n} = {}
  <2>1. /\ Allocated(L) \ {n} \in SUBSET Nodes
        /\ Cardinality(Allocated(L) \ {n}) = Cardinality(Allocated(L)) - 1
    BY <1>2, Counted
  <2>2. Cardinality(Allocated(L) \ {n}) = 0
    BY <2>1, <1>2
  <2> QED BY <2>1, <2>2, <1>2, Counted
<1> PICK U : U = [L EXCEPT !.head = NULL, !.tail = NULL]
  OBVIOUS
<1>5. /\ U \in Lists /\ U.head = NULL /\ U.tail = NULL /\ U.prev = L.prev /\ U.next = L.next
      /\ U.size = L.size /\ U.total_size = L.total_size /\ U.num_CachedItem = L.num_CachedItem
  BY <1>1 DEF Lists, Pointer
<1> PICK M : M = Unlisted(U, n)
  OBVIOUS
<1>6. remove_LRU(L) = M
  BY <1>3 DEF remove_LRU
<1>7. IsUnlisted(U, n, M)
  BY <1>4, <1>5, UnlistedIs
<1>8. /\ Allocated(M) = {} /\ Totals(M, Resummed(Nodes, G, n, 0))
      /\ M.total_size \in Nat /\ M.total_size <= L.total_size /\ M.num_CachedItem \in Nat
  <2>1. Drops(L, M, n)
    BY <1>5, <1>7 DEF IsUnlisted, Drops
  <2> QED BY <2>1, <1>4, Fewer
<1>9. M \in Lists /\ M.tail = NULL
  BY <1>5, <1>7, <1>8 DEF IsUnlisted
<1>10. Freed(M)
  <2>1. \A x \in Nodes : x # n => L.prev[x] = NULL /\ L.next[x] = NULL
    BY <1>4 DEF Fine, Freed
  <2> QED BY <2>1, <1>1, <1>5, <1>7 DEF IsUnlisted, Freed, Lists
<1>11. Chained(M, <<>>)
  BY <1>8, <1>9, EmptySeq DEF Chained, Distinct
<1> QED BY <1>6, <1>8, <1>9, <1>10, <1>11 DEF Fine

(* The items of C from the newest to the k-th.                             *)
KeptOn(C, k) == [i \in 1 .. k |-> C[i]]

(* remove_LRU of the oldest known item, with others left.                  *)
LEMMA RemoveHead ==
    ASSUME NEW L, NEW C, NEW G, Fine(L, C, G), NEW k \in 2 .. Len(C), L.head = C[k],
           NEW M,
           M = Unlisted([L EXCEPT !.head = L.next[L.head], !.prev[L.next[L.head]] = NULL], L.head)
    PROVE  /\ M.total_size <= L.total_size
           /\ Allocated(M) \subseteq Allocated(L)
           /\ \E H : Fine(M, KeptOn(C, k - 1), H)
<1>1. L \in Lists /\ Chained(L, C)
  BY DEF Fine
<1>2. /\ C \in Seq(Nodes) /\ Len(C) \in Nat /\ Distinct(C)
      /\ \A i \in 1 .. Len(C) : C[i] \in Nodes /\ C[i] # NULL /\ C[i] \in Allocated(L)
      /\ \A i, j \in 1 .. Len(C) : C[i] = C[j] => i = j
      /\ L.tail = C[1]
      /\ \A i \in 1 .. Len(C) : i < Len(C) => L.prev[C[i]] = C[i + 1]
      /\ \A i \in 1 .. Len(C) : i # 1 => L.next[C[i]] = C[i - 1]
      /\ \A i \in 1 .. Len(C) : i = 1 => L.next[C[i]] = NULL
  BY <1>1, ChainFacts
<1>4. k \in 1 .. Len(C) /\ k - 1 \in 1 .. Len(C) /\ 1 \in 1 .. Len(C) /\ k \in Nat /\ k - 1 \in Nat
  BY <1>2
<1> PICK n \in Nodes : n = C[k]
  BY <1>2, <1>4
<1> PICK p \in Nodes : p = C[k - 1]
  BY <1>2, <1>4
<1>5. L.next[n] = p /\ n # p /\ n \in Allocated(L)
  BY <1>2, <1>4
<1> PICK U : U = [L EXCEPT !.head = p, !.prev[p] = NULL]
  OBVIOUS
<1>6. /\ U \in Lists /\ U.head = p /\ U.tail = L.tail /\ U.prev = [L.prev EXCEPT ![p] = NULL]
      /\ U.next = L.next /\ U.size = L.size /\ U.total_size = L.total_size
      /\ U.num_CachedItem = L.num_CachedItem
  BY <1>1 DEF Lists, Pointer
<1>7. IsUnlisted(U, n, M)
  <2>1. M = Unlisted(U, n)
    BY <1>5
  <2> QED BY <2>1, <1>6, UnlistedIs
<1>8. /\ Allocated(M) = Allocated(L) \ {n} /\ Totals(M, Resummed(Nodes, G, n, 0))
      /\ M.total_size \in Nat /\ M.total_size <= L.total_size /\ M.num_CachedItem \in Nat
  <2>1. Drops(L, M, n)
    BY <1>6, <1>7 DEF IsUnlisted, Drops
  <2>2. n \in Allocated(L)
    BY <1>5
  <2> QED BY <2>1, <2>2, Fewer
<1>9. M \in Lists /\ M.tail = C[1] /\ M.head = p
  BY <1>2, <1>6, <1>7, <1>8 DEF IsUnlisted
<1>10. \A x \in Nodes : /\ M.prev[x] = IF x = n \/ x = p THEN NULL ELSE L.prev[x]
                        /\ M.next[x] = IF x = n THEN NULL ELSE L.next[x]
  <2>1. M.prev = [[L.prev EXCEPT ![p] = NULL] EXCEPT ![n] = NULL] /\ M.next = [L.next EXCEPT ![n] = NULL]
    BY <1>6, <1>7 DEF IsUnlisted
  <2>2. L.prev \in [Nodes -> Pointer] /\ L.next \in [Nodes -> Pointer]
    BY <1>1 DEF Lists
  <2> QED BY <2>1, <2>2
<1>11. Freed(M)
  BY <1>8, <1>10 DEF Fine, Freed
<1> PICK D : D = KeptOn(C, k - 1)
  OBVIOUS
<1>12. D \in Seq(Nodes) /\ Len(D) = k - 1 /\ \A i \in 1 .. k - 1 : D[i] = C[i]
  <2>1. D \in [1 .. k - 1 -> Nodes] /\ \A i \in 1 .. k - 1 : D[i] = C[i]
    BY <1>2, <1>4 DEF KeptOn
  <2> PICK m \in Nat : m = k - 1
    BY <1>4
  <2>2. D \in Seq(Nodes) /\ Len(D) = m
    BY <2>1
  <2> QED BY <2>1, <2>2
<1>13. \A i \in 1 .. k - 1 : i \in 1 .. Len(C) /\ i # k /\ C[i] # n /\ C[i] \in Nodes
  BY <1>2, <1>4
<1>14. Chained(M, D)
  <2>1. Distinct(D)
    BY <1>2, <1>12, <1>13 DEF Distinct
  <2>2. M.tail = IF D = <<>> THEN NULL ELSE D[1]
    <3>1. D # <<>> /\ 1 \in 1 .. k - 1
      BY <1>4, <1>12, EmptySeq
    <3> QED BY <3>1, <1>9, <1>12
  <2>3. \A i \in 1 .. k - 1 : M.prev[D[i]] = IF i < k - 1 THEN D[i + 1] ELSE NULL
    <3> SUFFICES ASSUME NEW i \in 1 .. k - 1
                 PROVE  M.prev[D[i]] = IF i < k - 1 THEN D[i + 1] ELSE NULL
      OBVIOUS
    <3>1. CASE i = k - 1
      BY <3>1, <1>10, <1>12
    <3>2. CASE i < k - 1
      <4>1. i + 1 \in 1 .. k - 1 /\ i < Len(C) /\ i # k - 1
        BY <3>2, <1>4, <1>13
      <4>2. C[i] # p /\ L.prev[C[i]] = C[i + 1]
        BY <4>1, <1>2, <1>4, <1>13
      <4> QED BY <4>1, <4>2, <3>2, <1>10, <1>12, <1>13
    <3> QED BY <3>1, <3>2, <1>4
  <2>4. \A i \in 1 .. k - 1 : M.next[D[i]] = IF i = 1 THEN NULL ELSE D[i - 1]
    <3> SUFFICES ASSUME NEW i \in 1 .. k - 1
                 PROVE  M.next[D[i]] = IF i = 1 THEN NULL ELSE D[i - 1]
      OBVIOUS
    <3>1. M.next[D[i]] = L.next[C[i]]
      BY <1>10, <1>12, <1>13
    <3>2. i # 1 => D[i - 1] = C[i - 1]
      <4>1. i # 1 => i - 1 \in 1 .. k - 1
        BY <1>4
      <4> QED BY <4>1, <1>12
    <3> QED BY <3>1, <3>2, <1>2, <1>13
  <2>5. \A i \in 1 .. k - 1 : D[i] \in Allocated(M)
    BY <1>2, <1>8, <1>12, <1>13
  <2>6. \E i \in 1 .. k - 1 : M.head = D[i]
    <3>1. k - 1 \in 1 .. k - 1
      BY <1>4
    <3> QED BY <3>1, <1>9, <1>12
  <2> QED BY <2>1, <2>2, <2>3, <2>4, <2>5, <2>6, <1>12, SMTT(30) DEF Chained
<1> QED BY <1>8, <1>9, <1>11, <1>14 DEF Fine

(* remove_LRU keeps the newest items of the list, in their order.          *)
LEMMA RemoveIs ==
    ASSUME NEW L, NEW C, NEW G, Fine(L, C, G)
    PROVE  /\ remove_LRU(L).total_size <= L.total_size
           /\ Allocated(remove_LRU(L)) \subseteq Allocated(L)
           /\ \E k \in 0 .. Len(C) : \E H : Fine(remove_LRU(L), KeptOn(C, k), H)
<1>1. L \in Lists /\ Chained(L, C) /\ L.num_CachedItem \in Nat /\ L.total_size \in Nat
      /\ L.num_CachedItem = Cardinality(Allocated(L))
  BY DEF Fine, Lists, Totals
<1>2. /\ C \in Seq(Nodes) /\ Len(C) \in Nat
      /\ \A i \in 1 .. Len(C) : i # 1 => L.next[C[i]] = C[i - 1]
      /\ \A i \in 1 .. Len(C) : i = 1 => L.next[C[i]] = NULL
      /\ Allocated(L) # {} => \E i \in 1 .. Len(C) : L.head = C[i]
  BY <1>1, ChainFacts
<1>3. KeptOn(C, Len(C)) = C /\ KeptOn(C, 0) = <<>> /\ 0 \in 0 .. Len(C) /\ Len(C) \in 0 .. Len(C)
  BY <1>2, LenProperties DEF KeptOn
<1> PICK M : M = remove_LRU(L)
  OBVIOUS
<1>4. ASSUME M = L \/ M = Crash(L)
      PROVE  /\ M.total_size <= L.total_size
             /\ Allocated(M) \subseteq Allocated(L)
             /\ \E k \in 0 .. Len(C) : \E H : Fine(M, KeptOn(C, k), H)
  <2>1. SameItems(L, M) /\ Fine(M, C, G)
    BY <1>4, Crashed
  <2>2. M.total_size <= L.total_size /\ Allocated(M) = Allocated(L)
    BY <2>1, <1>1 DEF SameItems, Allocated
  <2> QED BY <2>1, <2>2, <1>3
<1>5. CASE L.num_CachedItem = 0
  <2>1. M = L
    BY <1>5 DEF remove_LRU
  <2> QED BY <2>1, <1>4
<1>6. CASE L.num_CachedItem = 1
  BY <1>6, <1>3, RemoveOnly
<1>7. CASE L.num_CachedItem # 0 /\ L.num_CachedItem # 1
  <2>1. PICK k \in 1 .. Len(C) : L.head = C[k]
    <3>1. Allocated(L) # {}
      <4>1. Allocated(L) \in SUBSET Nodes
        BY DEF Allocated
      <4> QED BY <4>1, <1>1, <1>7, Counted
    <3> QED BY <3>1, <1>2
  <2>2. CASE k = 1
    <3>1. M = Crash(L)
      BY <2>1, <2>2, <1>2, <1>7 DEF remove_LRU
    <3> QED BY <3>1, <1>4
  <2>3. CASE k # 1
    <3>1. k \in 2 .. Len(C) /\ L.next[L.head] # NULL /\ k - 1 \in 0 .. Len(C)
      <4>1. k - 1 \in 1 .. Len(C) /\ L.next[L.head] = C[k - 1]
        BY <2>1, <2>3, <1>2
      <4>2. C[k - 1] # NULL
        BY <4>1, <1>1, ChainFacts
      <4> QED BY <4>1, <4>2, <2>3, <1>2
    <3>2. M = Unlisted([L EXCEPT !.head = L.next[L.head], !.prev[L.next[L.head]] = NULL], L.head)
      BY <3>1, <1>7 DEF remove_LRU
    <3> QED BY <3>1, <3>2, <2>1, RemoveHead
  <2> QED BY <2>2, <2>3
<1> QED BY <1>5, <1>6, <1>7

(* The chain with a new item in front.                                     *)
NewOn(C, n) == [i \in 1 .. Len(C) + 1 |-> IF i = 1 THEN n ELSE C[i - 1]]

(* The new item is filled in and counted, as in both cases of Linked.      *)
Filled(L, n, x, b) ==
    [L EXCEPT !.name[n] = x, !.size[n] = b, !.total_size = @ + b, !.num_CachedItem = @ + 1]

(* A filled item is allocated, weighs b, and is not linked yet.            *)
LEMMA FilledIs ==
    ASSUME NEW L \in Lists, NEW n \in Nodes, NEW x \in Names, NEW b \in Nat
    PROVE  /\ Filled(L, n, x, b) \in Lists /\ Adds(L, Filled(L, n, x, b), n, b)
           /\ Filled(L, n, x, b).head = L.head /\ Filled(L, n, x, b).tail = L.tail
           /\ Filled(L, n, x, b).prev = L.prev /\ Filled(L, n, x, b).next = L.next
<1>1. /\ [L.name EXCEPT ![n] = x] \in [Nodes -> Names \cup {NULL}]
      /\ [L.size EXCEPT ![n] = b] \in [Nodes -> Nat]
      /\ L.total_size + b \in Nat /\ L.num_CachedItem + 1 \in Nat
  BY DEF Lists
<1>2. Filled(L, n, x, b) = [L EXCEPT !.name = [L.name EXCEPT ![n] = x],
                                     !.size = [L.size EXCEPT ![n] = b],
                                     !.total_size = L.total_size + b,
                                     !.num_CachedItem = L.num_CachedItem + 1]
  BY DEF Filled, Lists
<1> QED BY <1>1, <1>2 DEF Lists, Adds

(* Linked into the empty list.                                             *)
LEMMA LinkFirst ==
    ASSUME NEW L \in Lists, L.num_CachedItem = 0,
           NEW item \in [node : Nodes, name : Names, size : Sizes],
           NEW M, M = Linked(L, item)
    PROVE  /\ M \in Lists /\ Adds(L, M, item.node, item.size)
           /\ M.head = item.node /\ M.tail = item.node
           /\ M.prev = L.prev /\ M.next = L.next
<1> PICK n \in Nodes, x \in Names, b \in Nat : n = item.node /\ x = item.name /\ b = item.size
  BY CacheListAssumption
<1> PICK I : I = Filled(L, n, x, b)
  OBVIOUS
<1>1. /\ I \in Lists /\ Adds(L, I, n, b) /\ I.prev = L.prev /\ I.next = L.next
  BY FilledIs
<1>2. M = [I EXCEPT !.head = n, !.tail = n]
  BY DEF Linked, Filled
<1> QED BY <1>1, <1>2 DEF Lists, Pointer, Adds

(* Linked behind the tail.                                                 *)
LEMMA LinkLast ==
    ASSUME NEW L \in Lists, L.num_CachedItem # 0, L.tail \in Nodes,
           NEW item \in [node : Nodes, name : Names, size : Sizes],
           NEW M, M = Linked(L, item)
    PROVE  /\ M \in Lists /\ Adds(L, M, item.node, item.size)
           /\ M.head = L.head /\ M.tail = item.node
           /\ M.prev = [L.prev EXCEPT ![item.node] = L.tail]
           /\ M.next = [[L.next EXCEPT ![L.tail] = item.node] EXCEPT ![item.node] = NULL]
<1> PICK n \in Nodes, x \in Names, b \in Nat : n = item.node /\ x = item.name /\ b = item.size
  BY CacheListAssumption
<1> PICK I : I = Filled(L, n, x, b)
  OBVIOUS
<1>1. /\ I \in Lists /\ Adds(L, I, n, b) /\ I.head = L.head /\ I.tail = L.tail
      /\ I.prev = L.prev /\ I.next = L.next
  BY FilledIs
<1>2. M = AtEnd(I, n)
  BY DEF Linked, Filled
<1>3. IsAtEnd(I, n, M)
  BY <1>1, <1>2, AtEndIs
<1> QED BY <1>1, <1>3 DEF IsAtEnd, Adds

(* A new item comes to stand in front.                                     *)
LEMMA LinkedIs ==
    ASSUME NEW L, NEW C, NEW G, Fine(L, C, G),
           NEW item \in [node : Nodes, name : Names, size : Sizes], item.node \notin Allocated(L)
    PROVE  /\ Linked(L, item).total_size = L.total_size + item.size
           /\ \E H : Fine(Linked(L, item), NewOn(C, item.node), H)
           /\ \A i \in 1 .. Len(C) : C[i] # item.node
<1>1. L \in Lists /\ Chained(L, C)
  BY DEF Fine
<1>2. /\ C \in Seq(Nodes) /\ Len(C) \in Nat /\ Distinct(C)
      /\ \A i \in 1 .. Len(C) : C[i] \in Nodes /\ C[i] # NULL /\ C[i] \in Allocated(L)
      /\ \A i, j \in 1 .. Len(C) : C[i] = C[j] => i = j
      /\ Len(C) > 0 => L.tail = C[1] /\ L.tail \in Nodes
      /\ \A i \in 1 .. Len(C) : i < Len(C) => L.prev[C[i]] = C[i + 1]
      /\ \A i \in 1 .. Len(C) : i = Len(C) => L.prev[C[i]] = NULL
      /\ \A i \in 1 .. Len(C) : i # 1 => L.next[C[i]] = C[i - 1]
      /\ \A i \in 1 .. Len(C) : i = 1 => L.next[C[i]] = NULL
      /\ Allocated(L) # {} => \E i \in 1 .. Len(C) : L.head = C[i]
  BY <1>1, ChainFacts
<1> PICK n \in Nodes : n = item.node
  OBVIOUS
<1> PICK b \in Nat \ {0} : b = item.size
  BY CacheListAssumption
<1> PICK M : M = Linked(L, item)
  OBVIOUS
<1>3. n \in Nodes \ Allocated(L) /\ L.prev[n] = NULL /\ L.next[n] = NULL
      /\ \A i \in 1 .. Len(C) : C[i] # n
  BY <1>2 DEF Fine, Freed
<1>4. Allocated(L) \in SUBSET Nodes /\ L.num_CachedItem = Cardinality(Allocated(L))
  BY DEF Fine, Totals, Allocated
<1>5. /\ M \in Lists /\ M.tail = n /\ Adds(L, M, n, b)
      /\ IF Len(C) = 0
         THEN M.head = n /\ M.prev = L.prev /\ M.next = L.next
         ELSE /\ M.head = L.head /\ \E i \in 1 .. Len(C) : L.head = C[i]
              /\ M.prev = [L.prev EXCEPT ![n] = C[1]]
              /\ M.next = [[L.next EXCEPT ![C[1]] = n] EXCEPT ![n] = NULL]
  <2>1. CASE L.num_CachedItem = 0
    <3>1. Allocated(L) = {}
      BY <2>1, <1>4, Counted
    <3>2. Len(C) = 0
      <4>1. Len(C) # 0 => 1 \in 1 .. Len(C)
        BY <1>2
      <4> QED BY <4>1, <3>1, <1>2
    <3>3. /\ M \in Lists /\ Adds(L, M, n, b) /\ M.head = n /\ M.tail = n
          /\ M.prev = L.prev /\ M.next = L.next
      BY <2>1, <1>1, LinkFirst
    <3> QED BY <3>2, <3>3
  <2>2. CASE L.num_CachedItem # 0
    <3>1. Allocated(L) # {}
      BY <2>2, <1>4, Counted
    <3>2. PICK i \in 1 .. Len(C) : L.head = C[i]
      BY <3>1, <1>2
    <3>3. Len(C) > 0 /\ Len(C) # 0 /\ L.tail = C[1] /\ L.tail \in Nodes
      BY <3>2, <1>2
    <3>4. /\ M \in Lists /\ Adds(L, M, n, b) /\ M.head = L.head /\ M.tail = n
          /\ M.prev = [L.prev EXCEPT ![n] = L.tail]
          /\ M.next = [[L.next EXCEPT ![L.tail] = n] EXCEPT ![n] = NULL]
      BY <2>2, <3>3, <1>1, LinkLast
    <3> QED BY <3>2, <3>3, <3>4
  <2> QED BY <2>1, <2>2
<1>6. /\ M \in Lists /\ M.tail = n /\ M.total_size = L.total_size + b
      /\ Allocated(M) = Allocated(L) \cup {n} /\ Totals(M, Resummed(Nodes, G, n, b))
  <2>1. /\ Allocated(M) = Allocated(L) \cup {n}
        /\ Totals(M, Resummed(Nodes, G, n, b))
    BY <1>3, <1>5, More
  <2> QED BY <2>1, <1>5 DEF Adds
<1>7. \A x \in Nodes :
         /\ M.prev[x] = IF x = n /\ Len(C) # 0 THEN C[1] ELSE L.prev[x]
         /\ M.next[x] = IF x = n THEN NULL ELSE IF Len(C) # 0 /\ x = C[1] THEN n ELSE L.next[x]
  <2>1. L.prev \in [Nodes -> Pointer] /\ L.next \in [Nodes -> Pointer]
    BY <1>1 DEF Lists
  <2>2. Len(C) # 0 => C[1] \in Nodes /\ C[1] # n
    <3>1. Len(C) # 0 => 1 \in 1 .. Len(C)
      BY <1>2
    <3> QED BY <3>1, <1>2, <1>3
  <2>3. CASE Len(C) = 0
    BY <2>3, <1>3, <1>5
  <2>4. CASE Len(C) # 0
    BY <2>1, <2>2, <2>4, <1>5
  <2> QED BY <2>3, <2>4
<1> PICK m \in Nat : m = Len(C) + 1
  BY <1>2
<1> PICK D : D = NewOn(C, n)
  OBVIOUS
<1>8. \A i \in 1 .. m : i # 1 => i - 1 \in 1 .. Len(C) /\ i - 1 < m
  BY <1>2
<1>9. /\ D \in Seq(Nodes) /\ Len(D) = m /\ D[1] = n
      /\ \A i \in 1 .. m : i # 1 => D[i] = C[i - 1]
  <2>1. D = [i \in 1 .. m |-> IF i = 1 THEN n ELSE C[i - 1]] /\ 1 \in 1 .. m
    BY <1>2 DEF NewOn
  <2>2. D \in [1 .. m -> Nodes]
    BY <2>1, <1>2, <1>8
  <2> QED BY <2>1, <2>2
<1>10. Chained(M, D)
  <2>1. Distinct(D)
    <3> SUFFICES ASSUME NEW i \in 1 .. m, NEW j \in 1 .. m, D[i] = D[j]
                 PROVE  i = j
      BY <1>9 DEF Distinct
    <3>1. CASE i # 1 /\ j # 1
      <4>1. C[i - 1] = C[j - 1] /\ i - 1 \in 1 .. Len(C) /\ j - 1 \in 1 .. Len(C)
        BY <3>1, <1>8, <1>9
      <4>2. i - 1 = j - 1
        BY <4>1, <1>2
      <4> QED BY <4>2
    <3> QED BY <3>1, <1>3, <1>8, <1>9
  <2>2. M.tail = IF D = <<>> THEN NULL ELSE D[1]
    <3>1. D # <<>>
      BY <1>2, <1>9, EmptySeq
    <3> QED BY <3>1, <1>6, <1>9
  <2>3. \A i \in 1 .. m : M.prev[D[i]] = IF i < m THEN D[i + 1] ELSE NULL
    <3> SUFFICES ASSUME NEW i \in 1 .. m
                 PROVE  M.prev[D[i]] = IF i < m THEN D[i + 1] ELSE NULL
      OBVIOUS
    <3>1. CASE i = 1
      <4>1. M.prev[n] = IF Len(C) # 0 THEN C[1] ELSE NULL
        BY <1>3, <1>7
      <4>2. Len(C) # 0 <=> i < m
        BY <3>1, <1>2
      <4>3. Len(C) # 0 => 2 \in 1 .. m /\ D[2] = C[1]
        <5>1. Len(C) # 0 => 2 \in 1 .. m /\ 2 # 1 /\ 2 - 1 = 1
          BY <1>2
        <5>2. 2 \in 1 .. m => D[2] = C[2 - 1]
          BY <1>9
        <5> QED BY <5>1, <5>2
      <4> QED BY <4>1, <4>2, <4>3, <3>1, <1>9
    <3>2. CASE i # 1
      <4>1. D[i] = C[i - 1] /\ i - 1 \in 1 .. Len(C) /\ C[i - 1] # n /\ C[i - 1] \in Nodes
        BY <3>2, <1>2, <1>3, <1>8, <1>9
      <4>2. M.prev[D[i]] = L.prev[C[i - 1]]
        BY <4>1, <1>7
      <4>3. i < m => /\ i - 1 < Len(C) /\ (i - 1) + 1 = i
                     /\ i + 1 \in 1 .. m /\ i + 1 # 1 /\ (i + 1) - 1 = i
        BY <3>2, <1>2
      <4>4. ~ (i < m) => i - 1 = Len(C)
        BY <3>2, <1>2
      <4>5. CASE i < m
        <5>1. L.prev[C[i - 1]] = C[i]
          BY <4>1, <4>3, <4>5, <1>2
        <5>2. D[i + 1] = C[i]
          BY <4>3, <4>5, <1>9
        <5> QED BY <4>2, <4>5, <5>1, <5>2
      <4>6. CASE ~ (i < m)
        BY <4>1, <4>2, <4>4, <4>6, <1>2
      <4> QED BY <4>5, <4>6
    <3> QED BY <3>1, <3>2
  <2>4. \A i \in 1 .. m : M.next[D[i]] = IF i = 1 THEN NULL ELSE D[i - 1]
    <3> SUFFICES ASSUME NEW i \in 1 .. m
                 PROVE  M.next[D[i]] = IF i = 1 THEN NULL ELSE D[i - 1]
      OBVIOUS
    <3>1. CASE i = 1
      BY <3>1, <1>7, <1>9
    <3>2. CASE i = 2
      <4>1. D[i] = C[1] /\ D[i - 1] = n /\ 1 \in 1 .. Len(C) /\ C[1] # n /\ C[1] \in Nodes /\ Len(C) # 0
        <5>1. i - 1 = 1 /\ 1 \in 1 .. Len(C) /\ Len(C) # 0
          BY <3>2, <1>2, <1>8
        <5>2. D[i] = C[i - 1]
          <6>1. i # 1
            BY <3>2
          <6> QED BY <6>1, <1>9
        <5> QED BY <5>1, <5>2, <1>2, <1>3, <1>9
      <4> QED BY <4>1, <3>2, <1>7
    <3>3. CASE i > 2
      <4>1. D[i] = C[i - 1] /\ i - 1 \in 1 .. Len(C) /\ C[i - 1] # n /\ C[i - 1] \in Nodes
        BY <3>3, <1>2, <1>3, <1>8, <1>9
      <4>2. D[i - 1] = C[i - 2] /\ i - 1 # 1 /\ 1 \in 1 .. Len(C) /\ (i - 1) - 1 = i - 2
        <5>1. i - 1 \in 1 .. m /\ i - 1 # 1 /\ (i - 1) - 1 = i - 2 /\ 1 \in 1 .. Len(C)
          BY <3>3, <1>2, <1>8
        <5>2. D[i - 1] = C[(i - 1) - 1]
          BY <5>1, <1>9
        <5> QED BY <5>1, <5>2
      <4>3. C[i - 1] # C[1]
        BY <4>1, <4>2, <1>2
      <4>4. L.next[C[i - 1]] = C[i - 2]
        BY <4>1, <4>2, <1>2
      <4> QED BY <4>1, <4>2, <4>3, <4>4, <3>3, <1>7
    <3> QED BY <3>1, <3>2, <3>3
  <2>5. \A i \in 1 .. m : D[i] \in Allocated(M)
    BY <1>2, <1>6, <1>8, <1>9
  <2>6. \E i \in 1 .. m : M.head = D[i]
    <3>1. CASE Len(C) = 0
      <4>1. 1 \in 1 .. m
        BY <1>2
      <4> QED BY <4>1, <3>1, <1>5, <1>9
    <3>2. CASE Len(C) # 0
      <4>1. PICK h \in 1 .. Len(C) : M.head = C[h]
        BY <3>2, <1>5
      <4>2. h + 1 \in 1 .. m /\ h + 1 # 1 /\ (h + 1) - 1 = h
        BY <1>2
      <4>3. D[h + 1] = C[h]
        BY <4>2, <1>9
      <4> QED BY <4>1, <4>2, <4>3
    <3> QED BY <3>1, <3>2
  <2> QED BY <2>1, <2>2, <2>3, <2>4, <2>5, <2>6, <1>9 DEF Chained
<1>11. Freed(M)
  <2>1. \A x \in Nodes \ Allocated(M) : x # n /\ x \in Nodes \ Allocated(L) /\ (Len(C) # 0 => x # C[1])
    <3>1. Len(C) # 0 => 1 \in 1 .. Len(C)
      BY <1>2
    <3> QED BY <3>1, <1>2, <1>6
  <2> QED BY <2>1, <1>7 DEF Fine, Freed
<1> QED BY <1>3, <1>6, <1>10, <1>11 DEF Fine

-----------------------------------------------------------------------------
(* The steps keep IInv, and do to the chain what Recency allows.           *)

Order == Chain(cache)

(* IInv speaks of the chain that the pointers stand for.                   *)
LEMMA OrderIs ==
    ASSUME NEW C, NEW G, Fine(cache, C, G)
    PROVE  Order = C /\ Order \in Seq(Nodes) /\ Len(Order) \in Nat /\ Ends(cache)
BY ChainIs, ChainFacts DEF Fine, Order

(* init_cache: an empty list, and an empty recency order.                  *)
LEMMA InitInv == Init => IInv /\ R!Init
<1> SUFFICES ASSUME Init PROVE IInv /\ R!Init
  OBVIOUS
<1>1. cache \in Lists
  BY DEF Init, Lists, Pointer
<1>2. Allocated(cache) = {}
  BY DEF Init, Allocated
<1>3. Chained(cache, <<>>)
  <2>1. cache.tail = NULL
    BY DEF Init
  <2> QED BY <2>1, <1>2, EmptySeq DEF Chained, Distinct
<1>4. Freed(cache)
  BY DEF Init, Freed
<1> PICK G : G = [s \in SUBSET Nodes |-> 0]
  OBVIOUS
<1>5. Totals(cache, G)
  <2>1. Sums(Nodes, cache.size, G)
    BY DEF Init, Sums
  <2>2. Cardinality(Allocated(cache)) = 0
    BY <1>2, Counted
  <2> QED BY <2>1, <2>2, <1>2 DEF Init, Totals
<1>6. Fine(cache, <<>>, G)
  BY <1>1, <1>3, <1>4, <1>5 DEF Fine
<1>7. Order = <<>>
  BY <1>6, OrderIs
<1>8. cache.total_size <= MAX_CACHE_SIZE /\ new = Nothing
  BY CacheListAssumption DEF Init
<1> QED BY <1>6, <1>7, <1>8 DEF IInv, R!Init, Order

(* The steps of Recency, by the elements of the order.                     *)
LEMMA Kept ==
    ASSUME NEW C \in Seq(Nodes), NEW k \in 0 .. Len(C)
    PROVE  KeptOn(C, k) = SubSeq(C, 1, k)
<1>1. Len(C) \in Nat
  BY LenProperties
<1>2. /\ SubSeq(C, 1, k) \in Seq(Nodes) /\ Len(SubSeq(C, 1, k)) = k
      /\ \A i \in 1 .. k : SubSeq(C, 1, k)[i] = C[i]
  BY <1>1, SubSeqProperties
<1> PICK t \in Seq(Nodes) : t = SubSeq(C, 1, k)
  BY <1>2
<1>3. t = [i \in 1 .. Len(t) |-> t[i]]
  BY LenProperties
<1>4. Len(t) = k /\ \A i \in 1 .. k : t[i] = C[i]
  BY <1>2
<1> QED BY <1>3, <1>4 DEF KeptOn

(* An item put in front of a sequence.                                     *)
LEMMA Ahead ==
    ASSUME NEW t \in Seq(Nodes), NEW n \in Nodes, NEW D \in Seq(Nodes),
           Len(D) = Len(t) + 1, D[1] = n, \A i \in 1 .. Len(t) : D[i + 1] = t[i]
    PROVE  D = <<n>> \o t
<1>1. <<n>> \in Seq(Nodes) /\ Len(<<n>>) = 1 /\ <<n>>[1] = n /\ Len(t) \in Nat
  BY LenProperties
<1> PICK E : E = <<n>> \o t
  OBVIOUS
<1>2. /\ E \in Seq(Nodes) /\ Len(E) = 1 + Len(t)
      /\ \A i \in 1 .. 1 + Len(t) : E[i] = IF i <= 1 THEN <<n>>[i] ELSE t[i - 1]
  BY <1>1, ConcatProperties
<1>3. ASSUME NEW i \in 1 .. Len(D)
      PROVE  D[i] = E[i]
  <2>1. CASE i = 1
    BY <2>1, <1>1, <1>2
  <2>2. CASE i # 1
    <3>1. i - 1 \in 1 .. Len(t) /\ (i - 1) + 1 = i /\ i \in 1 .. 1 + Len(t) /\ ~ (i <= 1)
      BY <2>2, <1>1
    <3>2. D[(i - 1) + 1] = t[i - 1] /\ E[i] = t[i - 1]
      BY <3>1, <1>2
    <3> QED BY <3>1, <3>2
  <2> QED BY <2>1, <2>2
<1>4. Len(D) = Len(E) /\ D = [i \in 1 .. Len(D) |-> D[i]] /\ E = [i \in 1 .. Len(E) |-> E[i]]
  BY <1>1, <1>2, LenProperties
<1> QED BY <1>3, <1>4

(* What a lookup does to the order is a Touch.                             *)
LEMMA Touched ==
    ASSUME NEW C \in Seq(Nodes), Distinct(C), NEW k \in 1 .. Len(C),
           NEW D \in {CutOn(C, k), MovedOn(C, k)}
    PROVE  \E j \in 0 .. Len(RemoveAt(C, k)) : D = <<C[k]>> \o SubSeq(RemoveAt(C, k), 1, j)
<1>1. Len(C) \in Nat /\ C[k] \in Nodes /\ k \in Nat /\ k - 1 \in Nat /\ Len(C) - 1 \in Nat
  BY LenProperties, ElementOfSeq
<1> PICK r : r = RemoveAt(C, k)
  OBVIOUS
<1>2. /\ r \in Seq(Nodes) /\ Len(r) = Len(C) - 1
      /\ \A i \in 1 .. Len(C) - 1 : r[i] = IF i < k THEN C[i] ELSE C[i + 1]
  BY Removed
<1>3. ASSUME NEW j \in 0 .. Len(C) - 1
      PROVE  /\ SubSeq(r, 1, j) \in Seq(Nodes) /\ Len(SubSeq(r, 1, j)) = j
             /\ \A i \in 1 .. j : SubSeq(r, 1, j)[i] = r[i]
  BY <1>1, <1>2, SubSeqProperties
<1>4. CASE D = CutOn(C, k)
  <2>1. D \in Seq(Nodes) /\ Len(D) = k
    BY <1>4, MovedSeq
  <2> PICK t : t = SubSeq(r, 1, k - 1)
    OBVIOUS
  <2>2. t \in Seq(Nodes) /\ Len(t) = k - 1 /\ \A i \in 1 .. k - 1 : t[i] = r[i]
    <3>1. k - 1 \in 0 .. Len(C) - 1
      BY <1>1
    <3> QED BY <3>1, <1>3
  <2>3. D[1] = C[k] /\ Len(D) = Len(t) + 1
    BY <1>1, <1>4, <2>1, <2>2 DEF CutOn
  <2>4. ASSUME NEW i \in 1 .. Len(t)
        PROVE  D[i + 1] = t[i]
    <3>1. /\ i \in 1 .. k - 1 /\ i \in 1 .. Len(C) - 1 /\ i < k
          /\ i + 1 \in 1 .. k /\ i + 1 # 1 /\ (i + 1) - 1 = i
      BY <1>1, <2>2
    <3>2. D[i + 1] = C[i]
      BY <3>1, <1>4 DEF CutOn
    <3> QED BY <3>1, <3>2, <2>2, <1>2
  <2>5. D = <<C[k]>> \o t
    BY <1>1, <2>1, <2>2, <2>3, <2>4, Ahead
  <2>6. k - 1 \in 0 .. Len(r)
    BY <1>1, <1>2
  <2> QED BY <2>5, <2>6
<1>5. CASE D = MovedOn(C, k)
  <2>1. D \in Seq(Nodes) /\ Len(D) = Len(C)
    BY <1>5, MovedSeq
  <2> PICK t : t = SubSeq(r, 1, Len(r))
    OBVIOUS
  <2>2. t = r
    BY <1>2, SubSeqFull
  <2>3. D[1] = C[k] /\ Len(D) = Len(t) + 1
    BY <1>1, <1>2, <1>5, <2>1, <2>2 DEF MovedOn
  <2>4. ASSUME NEW i \in 1 .. Len(t)
        PROVE  D[i + 1] = t[i]
    <3>1. i \in 1 .. Len(C) - 1 /\ i + 1 \in 1 .. Len(C) /\ i + 1 # 1 /\ (i + 1) - 1 = i
      BY <1>1, <1>2, <2>2
    <3>2. D[i + 1] = IF i + 1 <= k THEN C[i] ELSE C[i + 1]
      BY <3>1, <1>5 DEF MovedOn
    <3>3. i + 1 <= k <=> i < k
      BY <1>1
    <3> QED BY <3>1, <3>2, <3>3, <2>2, <1>2
  <2>5. D = <<C[k]>> \o t
    BY <1>1, <1>2, <2>1, <2>2, <2>3, <2>4, Ahead
  <2>6. Len(r) \in 0 .. Len(r)
    BY <1>1, <1>2
  <2> QED BY <2>5, <2>6
<1> QED BY <1>4, <1>5

(* A lookup.                                                               *)
LEMMA LookupInv ==
    ASSUME IInv, NEW name \in Names, Lookup(name)
    PROVE  IInv' /\ (R!Next \/ Order' = Order)
<1>1. PICK C, G : Fine(cache, C, G)
  BY DEF IInv
<1>2. Order = C /\ C \in Seq(Nodes) /\ Len(C) \in Nat /\ Distinct(C)
  BY <1>1, OrderIs DEF Fine, Chained
<1>3. /\ SameItems(cache, cache')
      /\ \/ Fine(cache', C, G)
         \/ \E k \in 1 .. Len(C) : \E D \in {CutOn(C, k), MovedOn(C, k)} : Fine(cache', D, G)
  <2>1. cache' = find_cache(cache, name)
    BY DEF Lookup
  <2> QED BY <2>1, <1>1, LookupIs
<1>4. IInv'
  <2>1. \E D, H : Fine(cache', D, H)
    BY <1>3
  <2>2. /\ cache'.total_size = cache.total_size /\ Allocated(cache') = Allocated(cache) /\ new' = new
    BY <1>3 DEF Lookup, SameItems, Allocated
  <2> QED BY <2>1, <2>2 DEF IInv
<1>5. CASE Fine(cache', C, G)
  <2>1. Order' = C
    BY <1>5, ChainIs DEF Fine, Order
  <2> QED BY <2>1, <1>2, <1>4
<1>6. ASSUME NEW k \in 1 .. Len(C), NEW D \in {CutOn(C, k), MovedOn(C, k)}, Fine(cache', D, G)
      PROVE  R!Next
  <2>1. Order' = D
    BY <1>6, ChainIs DEF Fine, Order
  <2>2. PICK j \in 0 .. Len(RemoveAt(C, k)) : D = <<C[k]>> \o SubSeq(RemoveAt(C, k), 1, j)
    BY <1>2, Touched
  <2> PICK rest : rest = SubSeq(RemoveAt(C, k), 1, j)
    OBVIOUS
  <2>3. rest \in R!Newest(RemoveAt(C, k))
    BY DEF R!Newest
  <2>4. Order' = <<Order[k]>> \o rest
    BY <2>1, <2>2, <1>2, Zenon
  <2>5. k \in DOMAIN Order
    BY <1>2, LenProperties
  <2>6. R!Touch(k)
    <3>1. rest \in R!Newest(RemoveAt(Order, k))
      BY <2>3, <1>2, Zenon
    <3>2. rest \in R!Newest(R!RemoveAt(Chain(cache), k))
      BY <3>1 DEF Order, RemoveAt, R!RemoveAt
    <3>3. Chain(cache)' = <<Chain(cache)[k]>> \o rest
      BY <2>4, Zenon DEF Order
    <3> QED BY <3>2, <3>3, Zenon DEF R!Touch
  <2> QED BY <2>5, <2>6 DEF R!Next, Order
<1> QED BY <1>3, <1>4, <1>5, <1>6

(* An item is created.                                                     *)
LEMMA CreateInv ==
    ASSUME IInv, NEW name \in Names, NEW size \in Sizes, CreateItem(name, size)
    PROVE  IInv' /\ Order' = Order
<1>1. PICK n \in Nodes \ Allocated(cache) : new' = [node |-> n, name |-> name, size |-> size]
  BY DEF CreateItem
<1>2. cache' = cache
  BY DEF CreateItem
<1>3. Order' = Order
  BY <1>2 DEF Order
<1>4. new' \in [node : Nodes, name : Names, size : Sizes] /\ new'.node \notin Allocated(cache')
  BY <1>1, <1>2
<1>5. (\E C, G : Fine(cache', C, G)) /\ cache'.total_size <= MAX_CACHE_SIZE
  BY <1>2 DEF IInv
<1> QED BY <1>3, <1>4, <1>5 DEF IInv

(* An item makes room for a new one.                                       *)
LEMMA MakeRoomInv ==
    ASSUME IInv, MakeRoom
    PROVE  IInv' /\ R!Next
<1>1. PICK C, G : Fine(cache, C, G)
  BY DEF IInv
<1>2. Order = C /\ C \in Seq(Nodes) /\ Len(C) \in Nat
  BY <1>1, OrderIs
<1>3. /\ cache'.total_size <= cache.total_size
      /\ Allocated(cache') \subseteq Allocated(cache)
      /\ \E k \in 0 .. Len(C) : \E H : Fine(cache', KeptOn(C, k), H)
  <2>1. cache' = remove_LRU(cache)
    BY DEF MakeRoom
  <2> QED BY <2>1, <1>1, RemoveIs
<1>4. IInv'
  <2>1. \E D, H : Fine(cache', D, H)
    BY <1>3
  <2>2. cache.total_size \in Nat /\ cache'.total_size \in Nat
    BY <1>1, <2>1 DEF Fine, Lists
  <2>3. cache'.total_size <= MAX_CACHE_SIZE
    BY <2>2, <1>3, CacheListAssumption DEF IInv
  <2>4. new' = new
    BY DEF MakeRoom
  <2> QED BY <2>1, <2>3, <2>4, <1>3 DEF IInv
<1>5. PICK k \in 0 .. Len(C) : \E H : Fine(cache', KeptOn(C, k), H)
  BY <1>3
<1>6. Order' = SubSeq(C, 1, k)
  <2>1. Order' = KeptOn(C, k)
    BY <1>5, ChainIs DEF Fine, Order
  <2> QED BY <2>1, <1>2, Kept
<1>7. SubSeq(C, 1, k) \in R!Newest(C)
  BY DEF R!Newest
<1>8. R!Forget
  BY <1>2, <1>6, <1>7 DEF R!Forget, Order
<1> QED BY <1>4, <1>8 DEF R!Next

(* The new item is linked.                                                 *)
LEMMA InsertInv ==
    ASSUME IInv, InsertItem
    PROVE  IInv' /\ R!Next
<1>1. PICK C, G : Fine(cache, C, G)
  BY DEF IInv
<1>2. Order = C /\ C \in Seq(Nodes) /\ Len(C) \in Nat
  BY <1>1, OrderIs
<1>3. new \in [node : Nodes, name : Names, size : Sizes] /\ new.node \notin Allocated(cache)
  BY DEF IInv, InsertItem
<1>4. new' = Nothing /\ cache' = Linked(cache, new) /\ ~ (cache.total_size + new.size > MAX_CACHE_SIZE)
  BY DEF InsertItem, IsFull
<1>5. /\ cache'.total_size = cache.total_size + new.size
      /\ \E H : Fine(cache', NewOn(C, new.node), H)
      /\ \A i \in 1 .. Len(C) : C[i] # new.node
  BY <1>1, <1>3, <1>4, LinkedIs
<1>6. IInv'
  <2>1. cache.total_size \in Nat /\ new.size \in Nat
    BY <1>1, <1>3, CacheListAssumption DEF Fine, Lists
  <2>2. cache'.total_size <= MAX_CACHE_SIZE
    BY <2>1, <1>4, <1>5, CacheListAssumption
  <2> QED BY <2>2, <1>4, <1>5 DEF IInv
<1> PICK n \in Nodes : n = new.node
  BY <1>3
<1>7. Order' = NewOn(C, n)
  BY <1>5, ChainIs DEF Fine, Order
<1>8. NewOn(C, n) = <<n>> \o C
  <2> PICK D : D = NewOn(C, n)
    OBVIOUS
  <2> PICK m \in Nat : m = Len(C) + 1
    BY <1>2
  <2>1. \A i \in 1 .. Len(C) : C[i] \in Nodes
    BY <1>2, ElementOfSeq
  <2>2. D = [i \in 1 .. m |-> IF i = 1 THEN n ELSE C[i - 1]] /\ 1 \in 1 .. m
    BY <1>2 DEF NewOn
  <2>3. \A i \in 1 .. m : i # 1 => i - 1 \in 1 .. Len(C)
    BY <1>2
  <2>4. D \in [1 .. m -> Nodes]
    BY <2>1, <2>2, <2>3
  <2>5. D \in Seq(Nodes) /\ Len(D) = m /\ D[1] = n
    BY <2>2, <2>4
  <2>6. ASSUME NEW i \in 1 .. Len(C)
        PROVE  D[i + 1] = C[i]
    <3>1. i + 1 \in 1 .. m /\ i + 1 # 1 /\ (i + 1) - 1 = i
      BY <1>2
    <3> QED BY <3>1, <2>2
  <2> QED BY <2>5, <2>6, <1>2, Ahead
<1>9. n \notin R!Items(Order)
  <2>1. \A i \in DOMAIN C : C[i] # n
    BY <1>2, <1>5, LenProperties
  <2> QED BY <2>1, <1>2 DEF R!Items
<1>10. R!Add(n)
  BY <1>2, <1>7, <1>8, <1>9 DEF R!Add, Order
<1> QED BY <1>6, <1>10 DEF R!Next

(* Every step keeps IInv and is a step of Recency, or none.                *)
LEMMA NextInv ==
    ASSUME IInv, [Next]_vars
    PROVE  IInv' /\ [R!Next]_Order
<1>1. CASE Next
  <2>1. ASSUME NEW name \in Names, Lookup(name)
        PROVE  IInv' /\ (R!Next \/ Order' = Order)
    BY <2>1, LookupInv
  <2>2. ASSUME NEW name \in Names, NEW size \in Sizes, CreateItem(name, size)
        PROVE  IInv' /\ Order' = Order
    BY <2>2, CreateInv
  <2> QED BY <1>1, <2>1, <2>2, MakeRoomInv, InsertInv DEF Next
<1>2. CASE UNCHANGED vars
  <2>1. cache' = cache /\ new' = new
    BY <1>2 DEF vars
  <2> QED BY <2>1 DEF IInv, Order
<1> QED BY <1>1, <1>2

-----------------------------------------------------------------------------
(* The pointers stand for a list of distinct nodes, the oldest known one   *)
(* at head, and the totals are those of its items and of the dropped ones. *)
THEOREM Invariant == Spec => []IInv
<1>1. IInv /\ [Next]_vars => IInv'
  BY NextInv
<1> QED BY InitInv, <1>1, PTL DEF Spec

(* The list and its totals have their types; total_size stays in its limit.*)
THEOREM TypeCorrect == Spec => []TypeOK
<1>1. IInv => TypeOK
  <2> SUFFICES ASSUME IInv PROVE TypeOK
    OBVIOUS
  <2>1. cache \in Lists /\ cache.total_size \in 0 .. MAX_CACHE_SIZE
    BY CacheListAssumption DEF IInv, Fine, Lists
  <2>2. new \in [node : Pointer, name : Names \cup {NULL}, size : Sizes \cup {0}]
    BY DEF IInv, Nothing, Pointer
  <2> QED BY <2>1, <2>2 DEF TypeOK, Lists
<1> QED BY <1>1, Invariant, PTL

(* total_size and num_CachedItem are those of the items that are not freed, *)
(* also of the ones that move_to_end has dropped from the list.            *)
THEOREM TotalsExact == Spec => []Accounted
<1>1. IInv => Accounted
  <2> SUFFICES ASSUME IInv PROVE Accounted
    OBVIOUS
  <2>1. PICK C, G : Fine(cache, C, G)
    BY DEF IInv
  <2>2. /\ cache.size \in [Nodes -> Nat] /\ Allocated(cache) \in SUBSET Nodes
        /\ Sums(Nodes, cache.size, G) /\ cache.total_size = G[Allocated(cache)]
        /\ cache.num_CachedItem = Cardinality(Allocated(cache))
    BY <2>1 DEF Fine, Lists, Totals, Allocated
  <2>3. FoldSet(LAMBDA n, sum : cache.size[n] + sum, 0, Allocated(cache)) = G[Allocated(cache)]
    <3>1. IsFiniteSet(Nodes)
      BY CacheListAssumption
    <3>2. SumOf(cache.size, Allocated(cache)) = G[Allocated(cache)]
      BY <2>2, <3>1, SumIs
    <3> QED BY <3>2 DEF SumOf
  <2> QED BY <2>2, <2>3 DEF Accounted
<1> QED BY <1>1, Invariant, PTL

(* A walk from tail ends, sees no freed item, and could be walked back, and *)
(* remove_LRU finds the item to free on it.                                *)
THEOREM AlwaysLinked == Spec => []WellLinked
<1>1. IInv => WellLinked
  <2> SUFFICES ASSUME IInv PROVE WellLinked
    OBVIOUS
  <2>1. PICK C, G : Fine(cache, C, G)
    BY DEF IInv
  <2>2. Chain(cache) = C /\ Ends(cache)
    BY <2>1, ChainIs DEF Fine
  <2>3. /\ C \in Seq(Nodes) /\ Len(C) \in Nat /\ DOMAIN C = 1 .. Len(C)
        /\ \A i \in 1 .. Len(C) : C[i] \in Nodes /\ C[i] # NULL /\ C[i] \in Allocated(cache)
        /\ Len(C) > 0 => cache.tail = C[1] /\ cache.tail \in Nodes
        /\ Len(C) = 0 => cache.tail = NULL /\ C = <<>>
        /\ \A i \in 1 .. Len(C) : i # 1 => cache.next[C[i]] = C[i - 1]
        /\ \A i \in 1 .. Len(C) : i = 1 => cache.next[C[i]] = NULL
        /\ Allocated(cache) # {} => \E i \in 1 .. Len(C) : cache.head = C[i]
    BY <2>1, ChainFacts, LenProperties DEF Fine
  <2>4. InChain(cache) = {C[i] : i \in 1 .. Len(C)}
    BY <2>2, <2>3 DEF InChain
  <2>5. InChain(cache) \subseteq Allocated(cache)
    BY <2>3, <2>4
  <2>6. ASSUME NEW i \in 1 .. Len(C) - 1
        PROVE  cache.next[C[i + 1]] = C[i]
    <3>1. i + 1 \in 1 .. Len(C) /\ i + 1 # 1 /\ (i + 1) - 1 = i
      BY <2>3
    <3>2. cache.next[C[i + 1]] = C[(i + 1) - 1]
      BY <3>1, <2>3
    <3> QED BY <3>1, <3>2
  <2>7. C # <<>> => cache.next[cache.tail] = NULL
    <3>1. C # <<>> => Len(C) > 0 /\ 1 \in 1 .. Len(C)
      BY <2>3, EmptySeq
    <3> QED BY <3>1, <2>3
  <2>8. cache.num_CachedItem # 0 => cache.head \in InChain(cache)
    <3>1. cache.num_CachedItem # 0 => Allocated(cache) # {}
      <4>1. Allocated(cache) \in SUBSET Nodes /\ cache.num_CachedItem = Cardinality(Allocated(cache))
        BY <2>1 DEF Fine, Totals, Allocated
      <4> QED BY <4>1, Counted
    <3> QED BY <3>1, <2>3, <2>4
  <2> QED BY <2>2, <2>5, <2>6, <2>7, <2>8 DEF WellLinked
<1> QED BY <1>1, Invariant, PTL

(* The list implements Recency: a lookup searches the items from the last  *)
(* used one on, and an item is only forgotten with everything older.       *)
THEOREM Recent == Spec => RefinesRecency
<1>1. Init => R!Init
  BY InitInv
<1>2. IInv /\ [Next]_vars => [R!Next]_Order
  BY NextInv
<1>3. IInv /\ [Next]_vars => [R!Next]_(Chain(cache))
  BY <1>2 DEF Order
<1> QED BY <1>1, <1>3, Invariant, PTL DEF Spec, RefinesRecency, R!Spec
=============================================================================
