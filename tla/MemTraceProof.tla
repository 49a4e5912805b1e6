---------------------------- MODULE MemTraceProof ---------------------------
(***************************************************************************)
(* The tracers' list is ordered and true to the library's blocks, and the  *)
(* bonus part keeps misuse from the library: for all sets of addresses and *)
(* sizes and every bound on the calls.  What the proofs carry through the  *)
(* calls is what the list says of each address (Agrees, Covers,            *)
(* NonNegative); the lemmas before say what the list's routines do to any  *)
(* list that is in order.                                                  *)
(***************************************************************************)
EXTENDS MemTrace, ListLemmas

Items == [ptr : Nat, size : Nat, cnt : Int]

InOrder(items) == \A j, k \in DOMAIN items : j < k => items[j].ptr < items[k].ptr

Entries(items) == {items[k] : k \in DOMAIN items}

(* The counter of an address and its size, 0 when it has no item.          *)
Count(items, p) == IF placeOf(items, p) = 0 THEN 0 ELSE items[placeOf(items, p)].cnt
SizeAt(items, p) == IF placeOf(items, p) = 0 THEN 0 ELSE items[placeOf(items, p)].size

(* An item is what its fields say.                                         *)
LEMMA ItemFields ==
    ASSUME NEW x \in Items
    PROVE  x.ptr \in Nat /\ x.size \in Nat /\ x.cnt \in Int /\ x = Item(x.ptr, x.size, x.cnt)
BY DEF Items, Item

(* A made item has the fields it is made of.                               *)
LEMMA ItemMade ==
    ASSUME NEW p \in Nat, NEW n \in Nat, NEW c \in Int
    PROVE  /\ Item(p, n, c) \in Items
           /\ Item(p, n, c).ptr = p /\ Item(p, n, c).size = n /\ Item(p, n, c).cnt = c
BY DEF Items, Item

-----------------------------------------------------------------------------
(* The searches.                                                           *)

(* Where the loops of alloc and find stop: the first item not below p, or 0.*)
FirstAt(items, p) == SelectInSeq(items, LAMBDA i : i.ptr >= p)

(* The least place whose address is not below p.                           *)
LEMMA LeastAbove ==
    ASSUME NEW items \in Seq(Items), NEW p \in Nat,
           NEW I, I = {k \in 1 .. Len(items) : items[k].ptr >= p},
           NEW cur, cur = IF I # {} THEN Min(I) ELSE 0
    PROVE  /\ cur \in 0 .. Len(items)
           /\ cur = 0 => \A k \in DOMAIN items : items[k].ptr < p
           /\ cur # 0 => /\ cur \in DOMAIN items /\ items[cur].ptr >= p
                         /\ \A k \in 1 .. cur - 1 : items[k].ptr < p
<1>1. \A k \in DOMAIN items : items[k] \in Items
  OBVIOUS
<1>2. \A k \in 1 .. Len(items) : items[k].ptr \in Nat
  BY <1>1, ItemFields
<1>3. CASE I = {}
  BY <1>2, <1>3
<1>4. CASE I # {}
  <2>1. I \in SUBSET Nat
    OBVIOUS
  <2>2. Min(I) \in I /\ \A k \in I : Min(I) <= k
    BY <1>4, <2>1, LeastOfSet
  <2>3. cur \in I /\ \A k \in I : cur <= k
    BY <1>4, <2>2
  <2>4. cur \in 1 .. Len(items) /\ items[cur].ptr >= p
    BY <2>3
  <2>5. ASSUME NEW k \in 1 .. cur - 1
        PROVE  items[k].ptr < p
    <3>1. k \in 1 .. Len(items) /\ k \notin I
      BY <2>3, <2>4, SMTT(30)
    <3>2. ~ (items[k].ptr >= p)
      BY <3>1
    <3> QED BY <3>1, <3>2, <1>2
  <2>6. cur \in 0 .. Len(items) /\ cur # 0 /\ cur \in DOMAIN items
    BY <2>4
  <2> QED BY <2>4, <2>5, <2>6, Zenon
<1> QED BY <1>3, <1>4

(* The search of alloc and find stops at that place.                       *)
LEMMA FirstFrom ==
    ASSUME NEW items \in Seq(Items), NEW p \in Nat,
           NEW cur, cur = FirstAt(items, p)
    PROVE  /\ cur \in 0 .. Len(items)
           /\ cur = 0 => \A k \in DOMAIN items : items[k].ptr < p
           /\ cur # 0 => /\ cur \in DOMAIN items /\ items[cur].ptr >= p
                         /\ \A k \in 1 .. cur - 1 : items[k].ptr < p
<1> DEFINE I == {k \in 1 .. Len(items) : items[k].ptr >= p}
<1>1. cur = IF I # {} THEN Min(I) ELSE 0
  BY Zenon DEF FirstAt, SelectInSeq
<1>2. I = {k \in 1 .. Len(items) : items[k].ptr >= p}
  OBVIOUS
<1> HIDE DEF I
<1> QED BY <1>1, <1>2, LeastAbove, ZenonT(40)

(* placeOf is 0 or the place of an item of p.                              *)
LEMMA PlaceFound ==
    ASSUME NEW items \in Seq(Items), NEW p
    PROVE  /\ placeOf(items, p) \in 0 .. Len(items)
           /\ placeOf(items, p) = 0 => \A k \in DOMAIN items : items[k].ptr # p
           /\ placeOf(items, p) # 0 => /\ placeOf(items, p) \in DOMAIN items
                                      /\ items[placeOf(items, p)].ptr = p
<1> DEFINE I == {k \in 1 .. Len(items) : items[k].ptr = p}
<1>1. placeOf(items, p) = IF I # {} THEN Min(I) ELSE 0
  BY Zenon DEF placeOf, SelectInSeq
<1>2. I \in SUBSET Nat
  OBVIOUS
<1>3. CASE I = {}
  BY <1>1, <1>3
<1>4. CASE I # {}
  <2>1. Min(I) \in I
    BY <1>2, <1>4, LeastOfSet
  <2>2. placeOf(items, p) \in I
    BY <1>1, <1>4, <2>1
  <2> QED BY <2>2
<1> QED BY <1>3, <1>4

(* In a list in order, find sees what dealloc sees.                        *)
LEMMA FindIsPlace ==
    ASSUME NEW items \in Seq(Items), InOrder(items), NEW p \in Nat
    PROVE  find(items, p) = placeOf(items, p)
<1> DEFINE cur == FirstAt(items, p)
<1>1. /\ cur \in 0 .. Len(items)
      /\ cur = 0 => \A k \in DOMAIN items : items[k].ptr < p
      /\ cur # 0 => /\ cur \in DOMAIN items /\ items[cur].ptr >= p
                    /\ \A k \in 1 .. cur - 1 : items[k].ptr < p
  BY FirstFrom
<1>2. find(items, p) = IF cur # 0 /\ items[cur].ptr = p THEN cur ELSE 0
  BY Zenon DEF find, FirstAt
<1>3. \A k \in DOMAIN items : items[k].ptr \in Nat
  <2>1. \A k \in DOMAIN items : items[k] \in Items
    OBVIOUS
  <2> QED BY <2>1, ItemFields
<1> HIDE DEF cur
<1>4. PICK at \in 0 .. Len(items) :
         /\ at = placeOf(items, p)
         /\ at = 0 => \A k \in DOMAIN items : items[k].ptr # p
         /\ at # 0 => at \in DOMAIN items /\ items[at].ptr = p
  BY PlaceFound
<1>5. CASE at = 0
  BY <1>1, <1>2, <1>4, <1>5
<1>6. CASE at # 0
  <2>1. cur # 0
    BY <1>1, <1>3, <1>4, <1>6
  <2>2. ~ (at < cur)
    BY <1>1, <1>3, <1>4, <1>6, <2>1
  <2>3. ~ (cur < at)
    BY <1>1, <1>3, <1>4, <1>6, <2>1 DEF InOrder
  <2>4. cur = at
    BY <1>1, <1>4, <2>2, <2>3
  <2> QED BY <2>1, <2>4, <1>2, <1>4, <1>6
<1> QED BY <1>5, <1>6

(* An address has one item at most.                                        *)
LEMMA OneItem ==
    ASSUME NEW items \in Seq(Items), InOrder(items),
           NEW x \in Entries(items), NEW y \in Entries(items), x.ptr = y.ptr
    PROVE  x = y
<1>1. PICK j \in DOMAIN items, k \in DOMAIN items : x = items[j] /\ y = items[k]
  BY DEF Entries
<1>2. x.ptr \in Nat /\ y.ptr \in Nat
  <2>1. items[j] \in Items /\ items[k] \in Items
    OBVIOUS
  <2> QED BY <1>1, <2>1, ItemFields
<1>3. j \in Nat /\ k \in Nat
  OBVIOUS
<1>4. ~ (j < k) /\ ~ (k < j)
  BY <1>1, <1>2 DEF InOrder
<1> QED BY <1>1, <1>3, <1>4

(* Count is the counter of that item.                                      *)
LEMMA CountOfItem ==
    ASSUME NEW items \in Seq(Items), InOrder(items), NEW p \in Nat
    PROVE  /\ Count(items, p) \in Int
           /\ placeOf(items, p) = 0 <=> \A x \in Entries(items) : x.ptr # p
           /\ placeOf(items, p) # 0 => items[placeOf(items, p)] \in Entries(items)
           /\ \A x \in Entries(items) :
                 x.ptr = p => x.cnt = Count(items, p) /\ x = items[placeOf(items, p)]
<1>1. PICK at \in 0 .. Len(items) :
         /\ at = placeOf(items, p)
         /\ at = 0 => \A k \in DOMAIN items : items[k].ptr # p
         /\ at # 0 => at \in DOMAIN items /\ items[at].ptr = p
  BY PlaceFound
<1>2. at = 0 <=> \A x \in Entries(items) : x.ptr # p
  BY <1>1 DEF Entries
<1>3. at # 0 => items[at] \in Entries(items)
  BY <1>1 DEF Entries
<1>4. \A x \in Entries(items) : x.ptr = p => x = items[at] /\ at # 0
  BY <1>1, <1>2, <1>3, OneItem
<1>5. at # 0 => items[at].cnt \in Int
  <2>1. at # 0 => items[at] \in Items
    BY <1>1
  <2> QED BY <2>1, ItemFields
<1> QED BY <1>1, <1>2, <1>3, <1>4, <1>5 DEF Count

-----------------------------------------------------------------------------
(* The three ways in which a list changes.                                 *)

(* The items of a list and their addresses have their types.               *)
LEMMA PtrsNat ==
    ASSUME NEW items \in Seq(Items)
    PROVE  \A k \in DOMAIN items : items[k] \in Items /\ items[k].ptr \in Nat
<1>1. \A k \in DOMAIN items : items[k] \in Items
  OBVIOUS
<1> QED BY <1>1, ItemFields

(* At the end: in order if all are below.                                  *)
LEMMA AppendItem ==
    ASSUME NEW items \in Seq(Items), InOrder(items), NEW e \in Items,
           \A k \in DOMAIN items : items[k].ptr < e.ptr
    PROVE  /\ Append(items, e) \in Seq(Items)
           /\ InOrder(Append(items, e))
           /\ Entries(Append(items, e)) = {x \in Entries(items) : x.ptr # e.ptr} \cup {e}
<1> DEFINE new == Append(items, e)
<1>1. /\ new \in Seq(Items) /\ Len(new) = Len(items) + 1
      /\ \A k \in 1 .. Len(items) : new[k] = items[k]
      /\ new[Len(items) + 1] = e
  OBVIOUS
<1>2. DOMAIN new = 1 .. Len(items) + 1 /\ DOMAIN items = 1 .. Len(items) /\ Len(items) \in Nat
  BY <1>1
<1> HIDE DEF new
<1>3. e.ptr \in Nat /\ \A k \in DOMAIN items : items[k].ptr \in Nat
  BY ItemFields, PtrsNat
<1>4. InOrder(new)
  <2> SUFFICES ASSUME NEW j \in 1 .. Len(items) + 1, NEW k \in 1 .. Len(items) + 1, j < k
               PROVE  new[j].ptr < new[k].ptr
    BY <1>2 DEF InOrder
  <2>1. j \in 1 .. Len(items) /\ new[j] = items[j]
    BY <1>1, <1>2
  <2>2. CASE k \in 1 .. Len(items)
    BY <1>1, <1>2, <2>1, <2>2 DEF InOrder
  <2>3. CASE k = Len(items) + 1
    BY <1>1, <1>2, <2>1, <2>3
  <2> QED BY <1>2, <2>2, <2>3
<1>5. Entries(new) = {x \in Entries(items) : x.ptr # e.ptr} \cup {e}
  <2>1. \A x \in Entries(items) : x.ptr # e.ptr
    BY <1>3 DEF Entries
  <2>2. Entries(new) = Entries(items) \cup {e}
    <3>1. ASSUME NEW x \in Entries(new)
          PROVE  x \in Entries(items) \cup {e}
      BY <1>1, <1>2 DEF Entries
    <3>2. ASSUME NEW x \in Entries(items)
          PROVE  x \in Entries(new)
      BY <1>1, <1>2 DEF Entries
    <3>3. e \in Entries(new)
      BY <1>1, <1>2 DEF Entries
    <3> QED BY <3>1, <3>2, <3>3
  <2> QED BY <2>1, <2>2
<1> QED BY <1>1, <1>4, <1>5 DEF new

(* In place: in order if the address is the same.                          *)
LEMMA ReplaceItem ==
    ASSUME NEW items \in Seq(Items), InOrder(items), NEW e \in Items,
           NEW at \in 1 .. Len(items), items[at].ptr = e.ptr
    PROVE  /\ [items EXCEPT ![at] = e] \in Seq(Items)
           /\ InOrder([items EXCEPT ![at] = e])
           /\ Entries([items EXCEPT ![at] = e]) = {x \in Entries(items) : x.ptr # e.ptr} \cup {e}
<1> DEFINE new == [items EXCEPT ![at] = e]
<1>1. /\ new \in Seq(Items) /\ DOMAIN new = DOMAIN items
      /\ \A k \in DOMAIN items : new[k] = IF k = at THEN e ELSE items[k]
  OBVIOUS
<1> HIDE DEF new
<1>2. \A k \in DOMAIN items : new[k].ptr = items[k].ptr
  BY <1>1
<1>3. InOrder(new)
  BY <1>1, <1>2 DEF InOrder
<1>4. Entries(new) = {x \in Entries(items) : x.ptr # e.ptr} \cup {e}
  <2>1. \A k \in DOMAIN items : items[k].ptr = e.ptr => k = at
    <3> SUFFICES ASSUME NEW k \in DOMAIN items, items[k].ptr = e.ptr, k # at
                 PROVE  FALSE
      OBVIOUS
    <3>1. k \in Nat /\ at \in Nat /\ e.ptr \in Nat
      BY ItemFields
    <3>2. k < at \/ at < k
      BY <3>1
    <3> QED BY <3>1, <3>2 DEF InOrder
  <2>2. ASSUME NEW x \in Entries(new)
        PROVE  x \in {y \in Entries(items) : y.ptr # e.ptr} \cup {e}
    BY <1>1, <2>1 DEF Entries
  <2>3. ASSUME NEW x \in Entries(items), x.ptr # e.ptr
        PROVE  x \in Entries(new)
    BY <1>1, <2>3 DEF Entries
  <2>4. e \in Entries(new)
    BY <1>1 DEF Entries
  <2> QED BY <2>2, <2>3, <2>4
<1> QED BY <1>1, <1>3, <1>4 DEF new

(* Before the first that is above.                                         *)
LEMMA InsertItem ==
    ASSUME NEW items \in Seq(Items), InOrder(items), NEW e \in Items,
           NEW at \in 1 .. Len(items), e.ptr < items[at].ptr,
           \A k \in 1 .. at - 1 : items[k].ptr < e.ptr
    PROVE  /\ InsertAt(items, at, e) \in Seq(Items)
           /\ InOrder(InsertAt(items, at, e))
           /\ Entries(InsertAt(items, at, e)) = {x \in Entries(items) : x.ptr # e.ptr} \cup {e}
<1> DEFINE n == Len(items)
           new == InsertAt(items, at, e)
<1>1. n \in Nat /\ at \in 1 .. n /\ DOMAIN items = 1 .. n
  OBVIOUS
<1>2. /\ new \in Seq(Items) /\ Len(new) = n + 1
      /\ \A k \in 1 .. at - 1 : new[k] = items[k]
      /\ new[at] = e
      /\ \A k \in at + 1 .. n + 1 : new[k] = items[k - 1]
  <2> PICK r : r = InsertAt(items, at, e)
    OBVIOUS
  <2>1. at \in 0 .. Len(items) /\ at # 0 /\ Len(items) \in Nat
    OBVIOUS
  <2>2. IsPlaced(Items, items, e, PutPlace(items, at), Put(items, at, e))
    BY <2>1, Placed
  <2>3. IsPlaced(Items, items, e, at, r)
    BY <2>1, <2>2, Zenon DEF Put, PutPlace
  <2>4. /\ r \in Seq(Items) /\ Len(r) = Len(items) + 1 /\ r[at] = e
        /\ \A k \in 1 .. Len(items) : k < at => r[k] = items[k]
        /\ \A k \in 1 .. Len(items) : k >= at => r[k + 1] = items[k]
    BY <2>3 DEF IsPlaced
  <2>5. ASSUME NEW k \in at + 1 .. Len(items) + 1
        PROVE  r[k] = items[k - 1]
    <3>1. k - 1 \in 1 .. Len(items) /\ k - 1 >= at /\ (k - 1) + 1 = k
      BY <2>1
    <3> QED BY <3>1, <2>4
  <2>6. ASSUME NEW k \in 1 .. at - 1
        PROVE  r[k] = items[k]
    <3>1. k \in 1 .. Len(items) /\ k < at
      BY <2>1
    <3> QED BY <3>1, <2>4
  <2> QED BY <2>4, <2>5, <2>6
<1>3. DOMAIN new = 1 .. n + 1
  BY <1>2
<1> HIDE DEF new, n
<1>4. e.ptr \in Nat /\ \A k \in 1 .. n : items[k].ptr \in Nat
  BY <1>1, ItemFields, PtrsNat
<1>5. \A j, k \in 1 .. n : j < k => items[j].ptr < items[k].ptr
  BY <1>1 DEF InOrder
<1>6. \A k \in at .. n : e.ptr < items[k].ptr
  <2> SUFFICES ASSUME NEW k \in at .. n
               PROVE  e.ptr < items[k].ptr
    OBVIOUS
  <2>1. k \in 1 .. n /\ (k = at \/ at < k)
    BY <1>1
  <2>2. CASE k = at
    BY <2>2
  <2>3. CASE at < k
    <3>1. items[at].ptr < items[k].ptr
      BY <1>1, <1>5, <2>1, <2>3
    <3> QED BY <3>1, <1>1, <1>4, <2>1
  <2> QED BY <2>1, <2>2, <2>3
<1>7. InOrder(new)
  <2> SUFFICES ASSUME NEW j \in 1 .. n + 1, NEW k \in 1 .. n + 1, j < k
               PROVE  new[j].ptr < new[k].ptr
    BY <1>3 DEF InOrder
  <2>1. CASE k < at
    <3>1. j \in 1 .. at - 1 /\ k \in 1 .. at - 1 /\ j \in 1 .. n /\ k \in 1 .. n
      BY <1>1, <2>1
    <3> QED BY <3>1, <1>2, <1>5
  <2>2. CASE k = at
    <3>1. j \in 1 .. at - 1
      BY <1>1, <2>2
    <3> QED BY <3>1, <1>2, <2>2
  <2>3. CASE at < k /\ j < at
    <3>1. j \in 1 .. at - 1 /\ k \in at + 1 .. n + 1 /\ j \in 1 .. n /\ k - 1 \in 1 .. n /\ j < k - 1
      BY <1>1, <2>3
    <3> QED BY <3>1, <1>2, <1>5
  <2>4. CASE at < k /\ j = at
    <3>1. k \in at + 1 .. n + 1 /\ k - 1 \in at .. n
      BY <1>1, <2>4
    <3> QED BY <3>1, <1>2, <1>6, <2>4
  <2>5. CASE at < k /\ at < j
    <3>1. /\ j \in at + 1 .. n + 1 /\ k \in at + 1 .. n + 1
          /\ j - 1 \in 1 .. n /\ k - 1 \in 1 .. n /\ j - 1 < k - 1
      BY <1>1, <2>5
    <3> QED BY <3>1, <1>2, <1>5
  <2> QED BY <1>1, <2>1, <2>2, <2>3, <2>4, <2>5
<1>8. Entries(new) = {x \in Entries(items) : x.ptr # e.ptr} \cup {e}
  <2>1. \A k \in 1 .. n : items[k].ptr # e.ptr
    <3> SUFFICES ASSUME NEW k \in 1 .. n
                 PROVE  items[k].ptr # e.ptr
      OBVIOUS
    <3>1. k \in 1 .. at - 1 \/ k \in at .. n
      BY <1>1
    <3> QED BY <3>1, <1>4, <1>6
  <2>2. ASSUME NEW k \in 1 .. n + 1
        PROVE  new[k] \in Entries(items) \cup {e}
    <3>1. CASE k \in 1 .. at - 1
      <4>1. k \in DOMAIN items /\ new[k] = items[k]
        BY <1>1, <1>2, <3>1
      <4> QED BY <4>1 DEF Entries
    <3>2. CASE k = at
      BY <3>2, <1>2
    <3>3. CASE k \in at + 1 .. n + 1
      <4>1. k - 1 \in 1 .. n /\ new[k] = items[k - 1]
        BY <1>1, <1>2, <3>3
      <4> QED BY <4>1, <1>1 DEF Entries
    <3> QED BY <1>1, <3>1, <3>2, <3>3
  <2>3. ASSUME NEW k \in 1 .. n
        PROVE  items[k] \in Entries(new)
    <3>1. CASE k \in 1 .. at - 1
      <4>1. new[k] = items[k] /\ k \in 1 .. n + 1
        BY <1>1, <1>2, <3>1
      <4> QED BY <4>1, <1>3 DEF Entries
    <3>2. CASE k \in at .. n
      <4>1. k + 1 \in at + 1 .. n + 1 /\ k + 1 \in 1 .. n + 1 /\ (k + 1) - 1 = k
        BY <1>1, <3>2
      <4>2. new[k + 1] = items[k]
        BY <4>1, <1>2
      <4> QED BY <4>1, <4>2, <1>3 DEF Entries
    <3> QED BY <1>1, <3>1, <3>2
  <2>4. e \in Entries(new)
    BY <1>1, <1>2, <1>3 DEF Entries
  <2>5. \A x \in Entries(items) : x.ptr # e.ptr /\ x \in Entries(new)
    BY <1>1, <2>1, <2>3 DEF Entries
  <2>6. \A x \in Entries(new) : x \in Entries(items) \cup {e}
    BY <1>3, <2>2 DEF Entries
  <2> QED BY <2>4, <2>5, <2>6
<1> QED BY <1>2, <1>7, <1>8 DEF new

-----------------------------------------------------------------------------
(* alloc and dealloc.                                                      *)

(* alloc keeps the order, and every item but that of p, which counts one   *)
(* more than before and has the size of the new block.                     *)
LEMMA AllocResult ==
    ASSUME NEW items \in Seq(Items), InOrder(items), NEW p \in Nat, NEW n \in Nat
    PROVE  /\ alloc(items, p, n) \in Seq(Items)
           /\ InOrder(alloc(items, p, n))
           /\ Entries(alloc(items, p, n)) =
                 {x \in Entries(items) : x.ptr # p} \cup {Item(p, n, Count(items, p) + 1)}
<1> DEFINE cur == FirstAt(items, p)
           new == alloc(items, p, n)
<1>1. /\ cur \in 0 .. Len(items)
      /\ cur = 0 => \A k \in DOMAIN items : items[k].ptr < p
      /\ cur # 0 => /\ cur \in DOMAIN items /\ items[cur].ptr >= p
                    /\ \A k \in 1 .. cur - 1 : items[k].ptr < p
  BY FirstFrom
<1>2. new = IF cur = 0 THEN Append(items, Item(p, n, 1))
            ELSE IF items[cur].ptr = p
                 THEN [items EXCEPT ![cur] = Item(p, n, items[cur].cnt + 1)]
                 ELSE InsertAt(items, cur, Item(p, n, 1))
  BY Zenon DEF alloc, FirstAt
<1> HIDE DEF cur, new
<1>3. \A k \in DOMAIN items : items[k].ptr \in Nat /\ items[k].cnt \in Int
  BY PtrsNat, ItemFields
<1>4. Item(p, n, 1) \in Items /\ Item(p, n, 1).ptr = p
  BY ItemMade
<1>5. CASE cur = 0
  <2>1. /\ new \in Seq(Items) /\ InOrder(new)
        /\ Entries(new) = {x \in Entries(items) : x.ptr # p} \cup {Item(p, n, 1)}
    BY <1>1, <1>2, <1>4, <1>5, AppendItem
  <2>2. \A x \in Entries(items) : x.ptr # p
    BY <1>1, <1>3, <1>5 DEF Entries
  <2>3. Count(items, p) = 0
    BY <2>2, CountOfItem DEF Count
  <2> QED BY <2>1, <2>3 DEF new
<1>6. CASE cur # 0 /\ items[cur].ptr = p
  <2> DEFINE e == Item(p, n, items[cur].cnt + 1)
  <2>1. e \in Items /\ e.ptr = p
    <3> DEFINE c == items[cur].cnt + 1
    <3>1. c \in Int
      BY <1>1, <1>3, <1>6
    <3> HIDE DEF c
    <3>2. Item(p, n, c) \in Items /\ Item(p, n, c).ptr = p
      BY <3>1, ItemMade
    <3> QED BY <3>2 DEF c
  <2>2. new = [items EXCEPT ![cur] = e]
    BY <1>2, <1>6
  <2> HIDE DEF e
  <2>3. /\ new \in Seq(Items) /\ InOrder(new)
        /\ Entries(new) = {x \in Entries(items) : x.ptr # p} \cup {e}
    <3>1. items[cur].ptr = e.ptr /\ cur \in 1 .. Len(items)
      BY <1>1, <1>6, <2>1
    <3>2. /\ new \in Seq(Items) /\ InOrder(new)
          /\ Entries(new) = {x \in Entries(items) : x.ptr # e.ptr} \cup {e}
      BY <2>1, <2>2, <3>1, ReplaceItem
    <3> QED BY <2>1, <3>2
  <2>4. items[cur] \in Entries(items)
    BY <1>1, <1>6 DEF Entries
  <2>5. Count(items, p) = items[cur].cnt
    BY <1>6, <2>4, CountOfItem
  <2> QED BY <2>3, <2>5 DEF new, e
<1>7. CASE cur # 0 /\ items[cur].ptr # p
  <2>1. p < items[cur].ptr /\ cur \in 1 .. Len(items) /\ \A k \in 1 .. cur - 1 : items[k].ptr < p
    BY <1>1, <1>3, <1>7
  <2>2. /\ new \in Seq(Items) /\ InOrder(new)
        /\ Entries(new) = {x \in Entries(items) : x.ptr # p} \cup {Item(p, n, 1)}
    <3>1. new = InsertAt(items, cur, Item(p, n, 1))
      BY <1>2, <1>7
    <3> QED BY <1>4, <2>1, <3>1, InsertItem
  <2>3. \A x \in Entries(items) : x.ptr # p
    <3> SUFFICES ASSUME NEW k \in DOMAIN items
                 PROVE  items[k].ptr # p
      BY DEF Entries
    <3>1. CASE k < cur
      <4>1. k \in 1 .. cur - 1
        BY <2>1, <3>1
      <4> QED BY <4>1, <2>1, <1>3
    <3>2. CASE k = cur
      BY <3>2, <1>7
    <3>3. CASE cur < k
      <4>1. items[cur].ptr < items[k].ptr
        BY <2>1, <3>3 DEF InOrder
      <4> QED BY <4>1, <2>1, <1>3
    <3> QED BY <2>1, <3>1, <3>2, <3>3
  <2>4. Count(items, p) = 0
    BY <2>3, CountOfItem DEF Count
  <2> QED BY <2>2, <2>4 DEF new
<1> QED BY <1>5, <1>6, <1>7

(* dealloc leaves a list without the address as it is, and takes one from  *)
(* the counter of the address otherwise.                                   *)
LEMMA DeallocResult ==
    ASSUME NEW items \in Seq(Items), InOrder(items), NEW p \in Nat
    PROVE  /\ dealloc(items, p) \in Seq(Items)
           /\ InOrder(dealloc(items, p))
           /\ placeOf(items, p) = 0 => dealloc(items, p) = items
           /\ placeOf(items, p) # 0 =>
                 Entries(dealloc(items, p)) =
                    {x \in Entries(items) : x.ptr # p}
                       \cup {Item(p, items[placeOf(items, p)].size, Count(items, p) - 1)}
<1>1. PICK at \in 0 .. Len(items) :
         /\ at = placeOf(items, p)
         /\ at # 0 => at \in DOMAIN items /\ items[at].ptr = p
  BY PlaceFound
<1>2. CASE at = 0
  BY <1>1, <1>2 DEF dealloc
<1>3. CASE at # 0
  <2>1. at \in 1 .. Len(items) /\ items[at].ptr = p
    BY <1>1, <1>3
  <2>2. items[at] \in Items
    BY <2>1
  <2>3. PICK n \in Nat, c \in Int : items[at] = Item(p, n, c)
    BY <2>1, <2>2, ItemFields
  <2> DEFINE e == Item(p, n, c - 1)
  <2>4. items[at].size = n /\ items[at].cnt = c
    BY <2>3, ItemMade
  <2>5. e \in Items /\ e.ptr = p
    BY ItemMade
  <2>6. [items[at] EXCEPT !.cnt = @ - 1] = e
    BY <2>3 DEF Item
  <2>7. dealloc(items, p) = [items EXCEPT ![at] = [items[at] EXCEPT !.cnt = @ - 1]]
    BY <1>1, <1>3, Zenon DEF dealloc
  <2>8. dealloc(items, p) = [items EXCEPT ![at] = e]
    BY <2>6, <2>7, Zenon
  <2> HIDE DEF e
  <2>9. /\ [items EXCEPT ![at] = e] \in Seq(Items) /\ InOrder([items EXCEPT ![at] = e])
        /\ Entries([items EXCEPT ![at] = e]) = {x \in Entries(items) : x.ptr # e.ptr} \cup {e}
    BY <2>1, <2>5, ReplaceItem
  <2>10. /\ dealloc(items, p) \in Seq(Items) /\ InOrder(dealloc(items, p))
         /\ Entries(dealloc(items, p)) = {x \in Entries(items) : x.ptr # p} \cup {e}
    BY <2>5, <2>8, <2>9
  <2>11. Count(items, p) = c
    BY <1>1, <1>3, <2>4 DEF Count
  <2> QED BY <1>1, <1>3, <2>4, <2>10, <2>11 DEF e
<1> QED BY <1>2, <1>3

-----------------------------------------------------------------------------
(* The same, seen by address.                                              *)

(* What placeOf, Count and SizeAt see of a listed item.                    *)
LEMMA ViewOfItem ==
    ASSUME NEW items \in Seq(Items), InOrder(items), NEW x \in Entries(items)
    PROVE  placeOf(items, x.ptr) # 0 /\ Count(items, x.ptr) = x.cnt /\ SizeAt(items, x.ptr) = x.size
<1>1. PICK k \in DOMAIN items : x = items[k]
  BY DEF Entries
<1>2. x \in Items
  BY <1>1
<1>3. x.ptr \in Nat
  BY <1>2, ItemFields
<1>4. placeOf(items, x.ptr) # 0 /\ items[placeOf(items, x.ptr)] = x
  BY <1>3, CountOfItem
<1> QED BY <1>4 DEF Count, SizeAt

(* Two lists in order of which one has the items of the other, but for     *)
(* those of p, have the same counters and sizes for every other address.   *)
LEMMA SameElsewhere ==
    ASSUME NEW items \in Seq(Items), InOrder(items),
           NEW new \in Seq(Items), InOrder(new),
           NEW p \in Nat, NEW e, e.ptr = p,
           Entries(new) = {x \in Entries(items) : x.ptr # p} \cup {e},
           NEW q \in Nat, q # p
    PROVE  /\ placeOf(new, q) = 0 <=> placeOf(items, q) = 0
           /\ Count(new, q) = Count(items, q)
           /\ SizeAt(new, q) = SizeAt(items, q)
<1>1. \A x : x.ptr = q => (x \in Entries(new) <=> x \in Entries(items))
  OBVIOUS
<1>2. CASE placeOf(items, q) = 0
  <2>1. \A x \in Entries(items) : x.ptr # q
    BY <1>2, CountOfItem
  <2>2. \A x \in Entries(new) : x.ptr # q
    BY <1>1, <2>1
  <2>3. placeOf(new, q) = 0
    BY <2>2, CountOfItem
  <2> QED BY <1>2, <2>3 DEF Count, SizeAt
<1>3. CASE placeOf(items, q) # 0
  <2>1. PICK x \in Entries(items) : x.ptr = q
    BY <1>3, CountOfItem
  <2>2. x \in Entries(new)
    BY <1>1, <2>1
  <2> QED BY <2>1, <2>2, ViewOfItem
<1> QED BY <1>2, <1>3

(* alloc counts p once more, with the new size, and no other address.      *)
LEMMA AllocView ==
    ASSUME NEW items \in Seq(Items), InOrder(items), NEW p \in Nat, NEW n \in Nat
    PROVE  /\ placeOf(alloc(items, p, n), p) # 0
           /\ Count(alloc(items, p, n), p) = Count(items, p) + 1
           /\ SizeAt(alloc(items, p, n), p) = n
           /\ \A q \in Nat : q # p =>
                 /\ placeOf(alloc(items, p, n), q) = 0 <=> placeOf(items, q) = 0
                 /\ Count(alloc(items, p, n), q) = Count(items, q)
                 /\ SizeAt(alloc(items, p, n), q) = SizeAt(items, q)
<1> DEFINE new == alloc(items, p, n)
           e == Item(p, n, Count(items, p) + 1)
<1>1. /\ new \in Seq(Items) /\ InOrder(new)
      /\ Entries(new) = {x \in Entries(items) : x.ptr # p} \cup {e}
  BY AllocResult
<1>2. Count(items, p) \in Int
  BY CountOfItem
<1>3. e.ptr = p /\ e.size = n /\ e.cnt = Count(items, p) + 1
  BY <1>2, ItemMade
<1> HIDE DEF new, e
<1>4. e \in Entries(new)
  BY <1>1
<1>5. placeOf(new, p) # 0 /\ Count(new, p) = e.cnt /\ SizeAt(new, p) = e.size
  BY <1>1, <1>3, <1>4, ViewOfItem
<1>6. \A q \in Nat : q # p => /\ placeOf(new, q) = 0 <=> placeOf(items, q) = 0
                              /\ Count(new, q) = Count(items, q)
                              /\ SizeAt(new, q) = SizeAt(items, q)
  BY <1>1, <1>3, SameElsewhere
<1> QED BY <1>3, <1>5, <1>6 DEF new

(* dealloc counts a listed p once less, and no other address.              *)
LEMMA DeallocView ==
    ASSUME NEW items \in Seq(Items), InOrder(items), NEW p \in Nat
    PROVE  /\ Count(dealloc(items, p), p) = IF placeOf(items, p) = 0 THEN 0 ELSE Count(items, p) - 1
           /\ \A q \in Nat : q # p => Count(dealloc(items, p), q) = Count(items, q)
           /\ \A q \in Nat : /\ placeOf(dealloc(items, p), q) = 0 <=> placeOf(items, q) = 0
                             /\ SizeAt(dealloc(items, p), q) = SizeAt(items, q)
<1>1. CASE placeOf(items, p) = 0
  <2>1. dealloc(items, p) = items
    BY <1>1, DeallocResult
  <2> QED BY <1>1, <2>1 DEF Count
<1>2. CASE placeOf(items, p) # 0
  <2> DEFINE new == dealloc(items, p)
             e == Item(p, items[placeOf(items, p)].size, Count(items, p) - 1)
  <2>1. /\ new \in Seq(Items) /\ InOrder(new)
        /\ Entries(new) = {x \in Entries(items) : x.ptr # p} \cup {e}
    BY <1>2, DeallocResult
  <2>2. e.ptr = p /\ e.size = SizeAt(items, p) /\ e.cnt = Count(items, p) - 1
    BY <1>2 DEF SizeAt, Item
  <2> HIDE DEF new, e
  <2>3. e \in Entries(new)
    BY <2>1
  <2>4. placeOf(new, p) # 0 /\ Count(new, p) = e.cnt /\ SizeAt(new, p) = e.size
    BY <2>1, <2>2, <2>3, ViewOfItem
  <2>5. \A q \in Nat : q # p => /\ placeOf(new, q) = 0 <=> placeOf(items, q) = 0
                                /\ Count(new, q) = Count(items, q)
                                /\ SizeAt(new, q) = SizeAt(items, q)
    BY <2>1, <2>2, SameElsewhere
  <2> QED BY <1>2, <2>2, <2>4, <2>5 DEF new
<1> QED BY <1>1, <1>2

-----------------------------------------------------------------------------
(* What holds of the tracers.                                              *)

(* The shape of a list.                                                    *)
WellFormed(l) == /\ l \in Seq(Items) /\ InOrder(l)
                 /\ \A x \in Entries(l) : x.ptr \in Pointers

(* No address counts more than once, and one that counts is a block of the *)
(* library, of the size in its item.                                       *)
Agrees(l, lv) == \A q \in Ptrs : /\ Count(l, q) <= 1
                                 /\ Count(l, q) = 1 => lv[q] = SizeAt(l, q)

(* Every block of the library counts, and no counter is below 0.           *)
Covers(l, lv) == \A q \in Ptrs : /\ Count(l, q) >= 0
                                 /\ lv[q] # Dead => Count(l, q) = 1

NonNegative(l) == \A q \in Pointers : Count(l, q) >= 0

(* A failed call lists NULL, and from then on part 2 may take a counter    *)
(* below 0: Agrees survives that, Covers does not.                         *)
Truthful(l, lv) == Agrees(l, lv) /\ (placeOf(l, NULL) = 0 => Covers(l, lv))

(* What the library gives: NULL and nothing changed, or an address that was *)
(* free, now of the size asked for.                                        *)
Hands(lv, size, res, lv2) ==
  \/ res = NULL /\ lv2 = lv
  \/ res \in Ptrs /\ lv[res] = Dead /\ lv2 = [lv EXCEPT ![res] = size]

Lives == [Ptrs -> Nat \cup {Dead}]
-----------------------------------------------------------------------------
(* NULL is an address no block has.                                        *)
LEMMA PointersNat ==
    Ptrs \subseteq Nat /\ NULL \notin Ptrs /\ NULL \in Nat /\ Pointers \subseteq Nat
BY TraceAssumption DEF Pointers, NULL

(* alloc keeps the shape of a list.                                        *)
LEMMA AllocShape ==
    ASSUME NEW l, WellFormed(l), NEW p \in Pointers, NEW n \in Nat
    PROVE  WellFormed(alloc(l, p, n))
<1>1. p \in Nat /\ l \in Seq(Items) /\ InOrder(l) /\ \A x \in Entries(l) : x.ptr \in Pointers
  BY PointersNat DEF WellFormed
<1>2. Count(l, p) \in Int
  BY <1>1, CountOfItem
<1>3. Item(p, n, Count(l, p) + 1).ptr = p
  BY <1>1, <1>2, ItemMade
<1>4. /\ alloc(l, p, n) \in Seq(Items) /\ InOrder(alloc(l, p, n))
      /\ Entries(alloc(l, p, n)) =
            {x \in Entries(l) : x.ptr # p} \cup {Item(p, n, Count(l, p) + 1)}
  BY <1>1, AllocResult
<1> QED BY <1>1, <1>3, <1>4 DEF WellFormed

(* dealloc keeps the shape of a list.                                      *)
LEMMA DeallocShape ==
    ASSUME NEW l, WellFormed(l), NEW p \in Pointers
    PROVE  WellFormed(dealloc(l, p))
<1>1. p \in Nat /\ l \in Seq(Items) /\ InOrder(l) /\ \A x \in Entries(l) : x.ptr \in Pointers
  BY PointersNat DEF WellFormed
<1>2. CASE placeOf(l, p) = 0
  BY <1>1, <1>2, DeallocResult DEF WellFormed
<1>3. CASE placeOf(l, p) # 0
  <2> DEFINE e == Item(p, l[placeOf(l, p)].size, Count(l, p) - 1)
  <2>1. e.ptr = p
    BY DEF Item
  <2> HIDE DEF e
  <2>2. /\ dealloc(l, p) \in Seq(Items) /\ InOrder(dealloc(l, p))
        /\ Entries(dealloc(l, p)) = {x \in Entries(l) : x.ptr # p} \cup {e}
    BY <1>1, <1>3, DeallocResult DEF e
  <2> QED BY <1>1, <2>1, <2>2 DEF WellFormed
<1> QED BY <1>2, <1>3

(* The fields of a listed item.                                            *)
LEMMA ListedItem ==
    ASSUME NEW l, WellFormed(l), NEW p \in Pointers
    PROVE  /\ Count(l, p) \in Int /\ SizeAt(l, p) \in Nat
           /\ find(l, p) = placeOf(l, p) /\ placeOf(l, p) \in Nat
           /\ placeOf(l, p) # 0 => /\ l[placeOf(l, p)].cnt = Count(l, p)
                                   /\ l[placeOf(l, p)].size = SizeAt(l, p)
                                   /\ l[placeOf(l, p)] = Item(p, SizeAt(l, p), Count(l, p))
<1>1. p \in Nat /\ l \in Seq(Items) /\ InOrder(l)
  BY PointersNat DEF WellFormed
<1>2. PICK at \in 0 .. Len(l) :
         /\ at = placeOf(l, p)
         /\ at # 0 => at \in DOMAIN l /\ l[at].ptr = p
  BY <1>1, PlaceFound
<1>3. at # 0 => l[at] \in Items
  BY <1>1, <1>2
<1>4. at # 0 => /\ l[at].size \in Nat /\ l[at].cnt \in Int
                /\ l[at] = Item(l[at].ptr, l[at].size, l[at].cnt)
  BY <1>3, ItemFields
<1>5. find(l, p) = placeOf(l, p)
  BY <1>1, FindIsPlace
<1> QED BY <1>1, <1>2, <1>4, <1>5 DEF Count, SizeAt
-----------------------------------------------------------------------------
(* A block that the library hands out is listed as it is.                  *)
LEMMA AllocTruthful ==
    ASSUME NEW l, WellFormed(l), NEW lv \in Lives, NEW lv2,
           NEW size \in Nat, NEW res \in Pointers,
           Hands(lv, size, res, lv2), Truthful(l, lv)
    PROVE  Truthful(alloc(l, res, size), lv2)
<1> DEFINE new == alloc(l, res, size)
<1>1. res \in Nat /\ l \in Seq(Items) /\ InOrder(l)
  BY PointersNat DEF WellFormed
<1>2. /\ placeOf(new, res) # 0
      /\ Count(new, res) = Count(l, res) + 1
      /\ SizeAt(new, res) = size
      /\ \A q \in Nat : q # res =>
            /\ placeOf(new, q) = 0 <=> placeOf(l, q) = 0
            /\ Count(new, q) = Count(l, q)
            /\ SizeAt(new, q) = SizeAt(l, q)
  BY <1>1, AllocView
<1> HIDE DEF new
<1>3. \A q \in Ptrs : Count(l, q) \in Int /\ q \in Nat /\ q # NULL
  BY PointersNat, ListedItem DEF Pointers
<1>4. CASE res = NULL /\ lv2 = lv
  <2>1. \A q \in Ptrs : Count(new, q) = Count(l, q) /\ SizeAt(new, q) = SizeAt(l, q)
    BY <1>2, <1>3, <1>4
  <2> QED BY <1>2, <1>4, <2>1 DEF Truthful, Agrees, new
<1>5. CASE res \in Ptrs /\ lv[res] = Dead /\ lv2 = [lv EXCEPT ![res] = size]
  <2>1. lv2[res] = size /\ \A q \in Ptrs : q # res => lv2[q] = lv[q]
    BY <1>5 DEF Lives
  <2>2. Count(l, res) <= 0
    <3>1. SizeAt(l, res) # Dead
      BY ListedItem DEF Dead
    <3> QED BY <1>3, <1>5, <3>1 DEF Truthful, Agrees
  <2>3. Agrees(new, lv2)
    <3> SUFFICES ASSUME NEW q \in Ptrs
                 PROVE  Count(new, q) <= 1 /\ (Count(new, q) = 1 => lv2[q] = SizeAt(new, q))
      BY DEF Agrees
    <3>1. CASE q = res
      BY <1>2, <1>3, <2>1, <2>2, <3>1
    <3>2. CASE q # res
      BY <1>2, <1>3, <2>1, <3>2 DEF Truthful, Agrees
    <3> QED BY <3>1, <3>2
  <2>4. ASSUME placeOf(new, NULL) = 0
        PROVE  Covers(new, lv2)
    <3>1. Covers(l, lv)
      BY <1>2, <1>3, <1>5, <2>4, PointersNat DEF Truthful
    <3> SUFFICES ASSUME NEW q \in Ptrs
                 PROVE  Count(new, q) >= 0 /\ (lv2[q] # Dead => Count(new, q) = 1)
      BY DEF Covers
    <3>2. CASE q = res
      BY <1>2, <1>3, <2>2, <3>1, <3>2 DEF Covers
    <3>3. CASE q # res
      BY <1>2, <1>3, <2>1, <3>1, <3>3 DEF Covers
    <3> QED BY <3>2, <3>3
  <2> QED BY <2>3, <2>4 DEF Truthful, new
<1> QED BY <1>4, <1>5 DEF Hands

(* Whatever becomes of p, a list that agrees without it agrees after its   *)
(* dealloc: it does not count any more.                                    *)
LEMMA DeallocAgrees ==
    ASSUME NEW l, WellFormed(l), NEW lv, NEW lv2, Agrees(l, lv),
           NEW p \in Pointers, \A q \in Ptrs : q # p => lv2[q] = lv[q]
    PROVE  Agrees(dealloc(l, p), lv2)
<1> DEFINE new == dealloc(l, p)
<1>1. p \in Nat /\ l \in Seq(Items) /\ InOrder(l)
  BY PointersNat DEF WellFormed
<1>2. /\ Count(new, p) = IF placeOf(l, p) = 0 THEN 0 ELSE Count(l, p) - 1
      /\ \A q \in Nat : q # p => Count(new, q) = Count(l, q)
      /\ \A q \in Nat : SizeAt(new, q) = SizeAt(l, q)
  BY <1>1, DeallocView
<1> HIDE DEF new
<1> SUFFICES ASSUME NEW q \in Ptrs
             PROVE  Count(new, q) <= 1 /\ (Count(new, q) = 1 => lv2[q] = SizeAt(new, q))
  BY DEF Agrees, new
<1>3. /\ Count(l, q) \in Int /\ q \in Nat /\ Count(l, q) <= 1
      /\ Count(l, q) = 1 => lv[q] = SizeAt(l, q)
  BY PointersNat, ListedItem DEF Pointers, Agrees
<1>4. CASE q = p
  <2>1. Count(new, q) \in Int /\ Count(new, q) <= 0
    BY <1>2, <1>3, <1>4
  <2> QED BY <2>1
<1>5. CASE q # p
  BY <1>2, <1>3, <1>5
<1> QED BY <1>4, <1>5

(* A block that the library frees is no longer counted.                    *)
LEMMA DeallocTruthful ==
    ASSUME NEW l, WellFormed(l), NEW lv \in Lives, Truthful(l, lv),
           NEW p \in Ptrs, lv[p] # Dead
    PROVE  Truthful(dealloc(l, p), [lv EXCEPT ![p] = Dead])
<1> DEFINE new == dealloc(l, p)
           lv2 == [lv EXCEPT ![p] = Dead]
<1>1. p \in Nat /\ p \in Pointers /\ l \in Seq(Items) /\ InOrder(l)
  BY PointersNat DEF WellFormed, Pointers
<1>2. /\ Count(new, p) = IF placeOf(l, p) = 0 THEN 0 ELSE Count(l, p) - 1
      /\ \A q \in Nat : q # p => Count(new, q) = Count(l, q)
      /\ \A q \in Nat : placeOf(new, q) = 0 <=> placeOf(l, q) = 0
  BY <1>1, DeallocView
<1> HIDE DEF new
<1>3. \A q \in Ptrs : Count(l, q) \in Int /\ q \in Nat
  BY PointersNat, ListedItem DEF Pointers
<1>4. lv2[p] = Dead /\ \A q \in Ptrs : q # p => lv2[q] = lv[q]
  BY DEF Lives
<1> HIDE DEF lv2
<1>5. Agrees(new, lv2)
  BY <1>1, <1>4, DeallocAgrees DEF Truthful, new
<1>6. ASSUME placeOf(new, NULL) = 0
      PROVE  Covers(new, lv2)
  <2>1. Covers(l, lv)
    BY <1>2, <1>6, PointersNat DEF Truthful
  <2> SUFFICES ASSUME NEW q \in Ptrs
               PROVE  Count(new, q) >= 0 /\ (lv2[q] # Dead => Count(new, q) = 1)
    BY DEF Covers
  <2>2. CASE q = p
    BY <1>2, <1>3, <1>4, <2>1, <2>2 DEF Covers
  <2>3. CASE q # p
    BY <1>2, <1>3, <1>4, <2>1, <2>3 DEF Covers
  <2> QED BY <2>2, <2>3
<1> QED BY <1>5, <1>6 DEF Truthful, new, lv2

(* What is counted of no address falls below 0 by alloc, nor by the        *)
(* dealloc of an address that counts.                                      *)
LEMMA NonNegativeKept ==
    ASSUME NEW l, WellFormed(l), NonNegative(l), NEW p \in Pointers
    PROVE  /\ \A n \in Nat : NonNegative(alloc(l, p, n))
           /\ Count(l, p) > 0 => NonNegative(dealloc(l, p))
<1>1. p \in Nat /\ l \in Seq(Items) /\ InOrder(l)
  BY PointersNat DEF WellFormed
<1>2. \A q \in Pointers : q \in Nat /\ Count(l, q) \in Int /\ Count(l, q) >= 0
  BY PointersNat, ListedItem DEF NonNegative
<1>3. ASSUME NEW n \in Nat
      PROVE  NonNegative(alloc(l, p, n))
  <2>1. /\ Count(alloc(l, p, n), p) = Count(l, p) + 1
        /\ \A q \in Nat : q # p => Count(alloc(l, p, n), q) = Count(l, q)
    BY <1>1, AllocView
  <2> QED BY <1>2, <2>1 DEF NonNegative
<1>4. ASSUME Count(l, p) > 0
      PROVE  NonNegative(dealloc(l, p))
  <2>1. /\ Count(dealloc(l, p), p) = IF placeOf(l, p) = 0 THEN 0 ELSE Count(l, p) - 1
        /\ \A q \in Nat : q # p => Count(dealloc(l, p), q) = Count(l, q)
    BY <1>1, DeallocView
  <2> QED BY <1>2, <1>4, <2>1 DEF NonNegative
<1> QED BY <1>3, <1>4
-----------------------------------------------------------------------------
(* The library's calls.                                                    *)

(* malloc and calloc, and realloc of NULL, hand out a block or NULL.       *)
LEMMA LibHands ==
    ASSUME NEW size \in Nat, NEW res, LibAllocates(size, res)
    PROVE  res \in Pointers /\ Hands(live, size, res, live')
BY DEF LibAllocates, Hands, IsLive, Pointers

(* What the library hands out are live blocks again.                       *)
LEMMA HandsTyped ==
    ASSUME NEW lv \in Lives, NEW size \in Nat, NEW res, NEW lv2, Hands(lv, size, res, lv2)
    PROVE  lv2 \in Lives
BY DEF Hands, Lives

(* A malloc with its alloc keeps the list true.                            *)
LEMMA AllocStep ==
    ASSUME WellFormed(list), live \in Lives, Tracing => Truthful(list, live),
           NEW size \in Nat, NEW res, LibAllocates(size, res), list' = alloc(list, res, size)
    PROVE  /\ live' \in Lives /\ WellFormed(list')
           /\ Tracing => Truthful(list', live')
<1>1. res \in Pointers /\ Hands(live, size, res, live')
  BY LibHands
<1> QED BY <1>1, HandsTyped, AllocShape, AllocTruthful

(* So does a realloc with its dealloc and alloc, if it is defined at all.  *)
LEMMA ReallocStep ==
    ASSUME WellFormed(list), live \in Lives, Truthful(list, live),
           NEW p \in Pointers, NEW size \in Nat, NEW res,
           LibReallocatesAny(p, size, res), list' = alloc(dealloc(list, p), res, size)
    PROVE  /\ live' \in Lives /\ WellFormed(list') /\ res \in Pointers
           /\ status' \in {status, "undefined"}
           /\ p = NULL \/ IsLive(p) => status' = status
           /\ status' = "undefined" \/ Truthful(list', live')
<1>1. WellFormed(dealloc(list, p))
  BY DeallocShape
<1>2. CASE p = NULL /\ LibAllocates(size, res) /\ UNCHANGED status
  <2>1. res \in Pointers /\ Hands(live, size, res, live')
    BY <1>2, LibHands
  <2>2. Truthful(dealloc(list, p), live)
    <3>1. Agrees(dealloc(list, p), live)
      BY DeallocAgrees DEF Truthful
    <3>2. placeOf(dealloc(list, p), NULL) = 0 => dealloc(list, p) = list
      <4>1. p \in Nat /\ list \in Seq(Items) /\ InOrder(list)
        BY PointersNat DEF WellFormed
      <4>2. placeOf(dealloc(list, p), p) = 0 <=> placeOf(list, p) = 0
        BY <4>1, DeallocView
      <4> QED BY <1>2, <4>1, <4>2, DeallocResult
    <3> QED BY <3>1, <3>2 DEF Truthful
  <2>3. Truthful(list', live') /\ live' \in Lives /\ WellFormed(list')
    BY <1>1, <2>1, <2>2, HandsTyped, AllocShape, AllocTruthful
  <2> QED BY <1>2, <2>1, <2>3
<1>3. CASE IsLive(p) /\ LibReallocates(p, size, res) /\ UNCHANGED status
  <2> DEFINE lv == [live EXCEPT ![p] = Dead]
  <2>1. p \in Ptrs /\ live[p] # Dead
    BY <1>3 DEF IsLive
  <2>2. lv \in Lives /\ Truthful(dealloc(list, p), lv)
    BY <2>1, DeallocTruthful DEF Lives
  <2>3. CASE res = NULL /\ live' = live
    <3>1. res \in Pointers /\ WellFormed(list') /\ live' \in Lives
      BY <1>1, <2>3, AllocShape DEF Pointers
    <3>2. Agrees(dealloc(list, p), live)
      BY DeallocAgrees DEF Truthful
    <3>3. Truthful(list', live')
      <4>1. NULL \in Nat /\ \A q \in Ptrs : q \in Nat /\ q # NULL
        BY PointersNat
      <4>2. /\ placeOf(list', NULL) # 0
            /\ \A q \in Nat : q # NULL =>
                  /\ Count(list', q) = Count(dealloc(list, p), q)
                  /\ SizeAt(list', q) = SizeAt(dealloc(list, p), q)
        BY <1>1, <2>3, <4>1, AllocView DEF WellFormed
      <4> QED BY <2>3, <3>2, <4>1, <4>2 DEF Truthful, Agrees
    <3> QED BY <1>3, <3>1, <3>3
  <2>4. CASE Hands(lv, size, res, live')
    <3>1. res \in Pointers
      BY <2>4 DEF Hands, Pointers
    <3>2. Truthful(list', live') /\ live' \in Lives /\ WellFormed(list')
      BY <1>1, <2>2, <2>4, <3>1, HandsTyped, AllocShape, AllocTruthful
    <3> QED BY <1>3, <3>1, <3>2
  <2>5. (res = NULL /\ live' = live) \/ Hands(lv, size, res, live')
    <3>1. CASE size = 0
      BY <1>3, <3>1 DEF LibReallocates, Hands
    <3>2. CASE size # 0 /\ ~ (res = NULL /\ live' = live)
      <4>1. res = p \/ (res \in Ptrs /\ ~IsLive(res))
        BY <1>3, <3>2 DEF LibReallocates
      <4>2. live' = [lv EXCEPT ![res] = size]
        BY <1>3, <3>2, <2>1 DEF LibReallocates, Lives
      <4>3. res \in Ptrs /\ lv[res] = Dead
        BY <2>1, <4>1 DEF IsLive, Lives
      <4> QED BY <4>2, <4>3 DEF Hands
    <3> QED BY <3>1, <3>2
  <2> QED BY <2>3, <2>4, <2>5
<1>4. CASE p # NULL /\ ~IsLive(p) /\ res = NULL /\ Undefined
  <2>1. res \in Pointers /\ WellFormed(list') /\ live' \in Lives
    BY <1>1, <1>4, AllocShape DEF Pointers, Undefined
  <2> QED BY <1>4, <2>1 DEF Undefined
<1> QED BY <1>2, <1>3, <1>4 DEF LibReallocatesAny

(* So does a free with its dealloc.                                        *)
LEMMA FreeStep ==
    ASSUME WellFormed(list), live \in Lives, Truthful(list, live),
           NEW p \in Pointers, LibFrees(p), list' = dealloc(list, p)
    PROVE  /\ live' \in Lives /\ WellFormed(list')
           /\ status' \in {status, "undefined"}
           /\ p = NULL \/ IsLive(p) => status' = status
           /\ status' = "undefined" \/ Truthful(list', live')
<1>1. WellFormed(dealloc(list, p))
  BY DeallocShape
<1>2. CASE p = NULL /\ live' = live /\ UNCHANGED status
  <2>1. Agrees(dealloc(list, p), live)
    BY DeallocAgrees DEF Truthful
  <2>2. placeOf(dealloc(list, p), NULL) = 0 => dealloc(list, p) = list
    <3>1. p \in Nat /\ list \in Seq(Items) /\ InOrder(list)
      BY PointersNat DEF WellFormed
    <3>2. placeOf(dealloc(list, p), p) = 0 <=> placeOf(list, p) = 0
      BY <3>1, DeallocView
    <3> QED BY <1>2, <3>1, <3>2, DeallocResult
  <2> QED BY <1>1, <1>2, <2>1, <2>2 DEF Truthful
<1>3. CASE IsLive(p) /\ live' = [live EXCEPT ![p] = Dead] /\ UNCHANGED status
  <2>1. p \in Ptrs /\ live[p] # Dead
    BY <1>3 DEF IsLive
  <2>2. live' \in Lives /\ Truthful(dealloc(list, p), live')
    BY <1>3, <2>1, DeallocTruthful DEF Lives
  <2> QED BY <1>1, <1>3, <2>2
<1>4. CASE p # NULL /\ ~IsLive(p) /\ Undefined
  BY <1>1, <1>4 DEF Undefined
<1> QED BY <1>2, <1>3, <1>4 DEF LibFrees

(* What a counter above 0 says: the address is NULL, or a block.           *)
LEMMA CountedIsLive ==
    ASSUME WellFormed(list), Truthful(list, live), NEW p \in Pointers, Count(list, p) > 0
    PROVE  p = NULL \/ IsLive(p)
<1>1. CASE p \in Ptrs
  <2>1. Count(list, p) \in Int /\ SizeAt(list, p) \in Nat
    BY ListedItem
  <2>2. live[p] = SizeAt(list, p)
    BY <1>1, <2>1 DEF Truthful, Agrees
  <2> QED BY <1>1, <2>1, <2>2 DEF IsLive, Dead
<1> QED BY <1>1 DEF Pointers
-----------------------------------------------------------------------------
(* The inductive invariant.                                                *)

(* The types of the variables but the list, whose items have theirs from   *)
(* its shape.                                                              *)
Types == /\ variant \in {"part1", "part2", "bonus"}
         /\ live \in Lives
         /\ n_calls \in Nat /\ n_allocb \in Nat /\ n_freeb \in Nat
         /\ report \in {"none", "ill_free", "double_free"}
         /\ status \in {"running", "ended", "sigfpe", "segv", "undefined"}

IInv == /\ Types
        /\ WellFormed(list)
        /\ Tracing => Truthful(list, live)
        /\ variant = "bonus" => NonNegative(list)
        /\ MisuseStopped

(* The types are among what the invariant says.                            *)
LEMMA IInvTyped == IInv => TypeOK
<1> SUFFICES ASSUME IInv
             PROVE  TypeOK
  OBVIOUS
<1>1. \A k \in DOMAIN list : list[k] \in [ptr : Pointers, size : Nat, cnt : Int]
  <2> SUFFICES ASSUME NEW k \in DOMAIN list
               PROVE  list[k] \in [ptr : Pointers, size : Nat, cnt : Int]
    OBVIOUS
  <2>1. list[k] \in Items /\ list[k].ptr \in Pointers
    BY DEF IInv, WellFormed, Entries
  <2> QED BY <2>1 DEF Items
<1> QED BY <1>1 DEF IInv, Types, TypeOK, Lives

(* The tracer starts with an empty list and no blocks.                     *)
LEMMA InitIInv == Init => IInv
<1> SUFFICES ASSUME Init
             PROVE  IInv
  OBVIOUS
<1>1. Types /\ MisuseStopped
  BY DEF Init, Types, Lives, MisuseStopped
<1>2. list = <<>> /\ list \in Seq(Items) /\ DOMAIN list = {}
  BY DEF Init, new_list
<1>3. InOrder(list) /\ Entries(list) = {}
  BY <1>2 DEF InOrder, Entries
<1>4. \A q \in Nat : placeOf(list, q) = 0
  BY <1>2, <1>3, CountOfItem
<1>5. \A q \in Pointers : Count(list, q) = 0
  BY <1>4, PointersNat DEF Count
<1>6. Truthful(list, live)
  BY <1>5 DEF Truthful, Agrees, Covers, Init, Pointers
<1> QED BY <1>1, <1>2, <1>3, <1>5, <1>6 DEF IInv, WellFormed, NonNegative

(* A malloc or calloc of the two variants with a list.                     *)
LEMMA AllocatingStep ==
    ASSUME IInv, NEW size \in Nat, Runs({"part2", "bonus"}), Counts(size),
           NEW res, LibAllocates(size, res), list' = alloc(list, res, size),
           report' \in {"none", "ill_free", "double_free"}, n_freeb' \in Nat, UNCHANGED status
    PROVE  IInv'
<1>1. live' \in Lives /\ WellFormed(list') /\ (Tracing => Truthful(list', live'))
  BY AllocStep DEF IInv, Types
<1>2. Types'
  BY <1>1 DEF IInv, Types, Runs, Counts
<1>3. variant = "bonus" => NonNegative(list')
  <2>1. res \in Pointers
    BY LibHands
  <2> QED BY <2>1, NonNegativeKept DEF IInv
<1>4. MisuseStopped'
  BY DEF IInv, MisuseStopped, Runs
<1>5. Tracing' => Tracing
  BY DEF Tracing, Runs
<1> QED BY <1>1, <1>2, <1>3, <1>4, <1>5 DEF IInv, Runs

(* A realloc of a block that part 2 passes on, or that the bonus part      *)
(* finds counted.                                                          *)
LEMMA ReallocatingStep ==
    ASSUME IInv, NEW p \in Pointers, NEW size \in Nat, Runs({"part2", "bonus"}), Counts(size),
           NEW res, LibReallocatesAny(p, size, res), list' = alloc(dealloc(list, p), res, size),
           report' \in {"none", "ill_free", "double_free"}, n_freeb' \in Nat,
           variant = "bonus" => Count(list, p) > 0
    PROVE  IInv'
<1>1. WellFormed(list) /\ live \in Lives /\ Truthful(list, live) /\ status = "running"
  BY DEF IInv, Types, Tracing, Runs
<1>2. /\ live' \in Lives /\ WellFormed(list') /\ res \in Pointers
      /\ status' \in {status, "undefined"}
      /\ p = NULL \/ IsLive(p) => status' = status
      /\ status' = "undefined" \/ Truthful(list', live')
  BY <1>1, ReallocStep
<1>3. Types'
  BY <1>1, <1>2 DEF IInv, Types, Runs, Counts
<1>4. variant = "bonus" => NonNegative(list') /\ status' = status
  <2> SUFFICES ASSUME variant = "bonus"
               PROVE  NonNegative(list') /\ status' = status
    OBVIOUS
  <2>1. NonNegative(dealloc(list, p)) /\ WellFormed(dealloc(list, p))
    BY <1>1, NonNegativeKept, DeallocShape DEF IInv
  <2>2. NonNegative(list')
    BY <1>2, <2>1, NonNegativeKept
  <2>3. status' = status
    BY <1>1, <1>2, CountedIsLive
  <2> QED BY <2>2, <2>3
<1>5. MisuseStopped'
  BY <1>1, <1>4 DEF MisuseStopped, Runs
<1>6. Tracing' => status' # "undefined"
  BY DEF Tracing
<1> QED BY <1>2, <1>3, <1>4, <1>5, <1>6 DEF IInv, Runs

(* A free that part 2 passes on, or that the bonus part finds counted.     *)
LEMMA FreeingStep ==
    ASSUME IInv, NEW p \in Pointers, Runs({"part2", "bonus"}), LibFrees(p),
           list' = dealloc(list, p), UNCHANGED <<n_calls, n_allocb>>,
           report' \in {"none", "ill_free", "double_free"}, n_freeb' \in Nat,
           variant = "bonus" => Count(list, p) > 0
    PROVE  IInv'
<1>1. WellFormed(list) /\ live \in Lives /\ Truthful(list, live) /\ status = "running"
  BY DEF IInv, Types, Tracing, Runs
<1>2. /\ live' \in Lives /\ WellFormed(list')
      /\ status' \in {status, "undefined"}
      /\ p = NULL \/ IsLive(p) => status' = status
      /\ status' = "undefined" \/ Truthful(list', live')
  BY <1>1, FreeStep
<1>3. Types'
  BY <1>1, <1>2 DEF IInv, Types, Runs
<1>4. variant = "bonus" => NonNegative(list') /\ status' = status
  BY <1>1, <1>2, NonNegativeKept, CountedIsLive DEF IInv
<1>5. MisuseStopped'
  BY <1>1, <1>4 DEF MisuseStopped, Runs
<1>6. Tracing' => status' # "undefined"
  BY DEF Tracing
<1> QED BY <1>2, <1>3, <1>4, <1>5, <1>6 DEF IInv, Runs

(* A step that leaves blocks and list alone.                               *)
LEMMA QuietStep ==
    ASSUME IInv, UNCHANGED <<variant, live, list>>, Types',
           status' # status => status' # "undefined" /\ status = "running",
           variant = "bonus" => status' # "segv"
    PROVE  IInv'
<1>1. Tracing' => Tracing
  BY DEF Tracing
<1> QED BY <1>1 DEF IInv, MisuseStopped

(* A call of part 1, which has no list: the blocks are still blocks.       *)
LEMMA PartOneStep ==
    ASSUME IInv, Runs({"part1"}), NEW p, NEW size \in Nat, NEW res,
           \/ LibAllocates(size, res) /\ UNCHANGED status
           \/ LibReallocatesAny(p, size, res)
           \/ LibFrees(p),
           n_calls' \in Nat, n_allocb' \in Nat, UNCHANGED <<list, n_freeb, report>>
    PROVE  IInv'
<1>1. live \in Lives /\ status \in {"running"} /\ variant = "part1" /\ variant' = "part1"
  BY DEF IInv, Types, Runs
<1>2. live' \in Lives /\ status' \in {"running", "undefined"}
  <2>1. CASE LibAllocates(size, res) /\ UNCHANGED status
    BY <1>1, <2>1 DEF LibAllocates, Lives
  <2>2. CASE LibReallocatesAny(p, size, res)
    BY <1>1, <2>2 DEF LibReallocatesAny, LibReallocates, LibAllocates, Undefined, Lives
  <2>3. CASE LibFrees(p)
    BY <1>1, <2>3 DEF LibFrees, Undefined, Lives
  <2> QED BY <2>1, <2>2, <2>3
<1>3. Types'
  BY <1>1, <1>2 DEF IInv, Types
<1> QED BY <1>1, <1>3 DEF IInv, Tracing, MisuseStopped

(* The size that a caller reads from an item.                              *)
LEMMA SizesNat ==
    ASSUME WellFormed(list), NEW p \in Pointers
    PROVE  /\ sizeOf(find(list, p)) \in Nat
           /\ placeOf(list, p) # 0 => list[placeOf(list, p)].size \in Nat
           /\ find(list, p) = placeOf(list, p)
           /\ cntOf(placeOf(list, p)) = Count(list, p)
<1>1. /\ find(list, p) = placeOf(list, p) /\ SizeAt(list, p) \in Nat
      /\ placeOf(list, p) # 0 => list[placeOf(list, p)].size = SizeAt(list, p)
  BY ListedItem
<1>2. cntOf(placeOf(list, p)) = Count(list, p)
  BY DEF cntOf, Count
<1>3. sizeOf(placeOf(list, p)) \in Nat
  <2>1. CASE placeOf(list, p) = 0
    BY <2>1 DEF sizeOf, cntOf
  <2>2. CASE placeOf(list, p) # 0
    BY <1>1, <2>2 DEF sizeOf
  <2> QED BY <2>1, <2>2
<1> QED BY <1>1, <1>2, <1>3

(* Every call keeps the invariant.                                         *)
LEMMA NextIInv == IInv /\ [Next]_vars => IInv'
<1> SUFFICES ASSUME IInv, [Next]_vars
             PROVE  IInv'
  OBVIOUS
<1>1. /\ WellFormed(list) /\ n_freeb \in Nat /\ n_calls \in Nat /\ n_allocb \in Nat
      /\ report \in {"none", "ill_free", "double_free"} /\ Sizes \subseteq Nat
  BY TraceAssumption DEF IInv, Types
<1>2. \A size \in Sizes : size \in Nat /\ \A nmemb \in 0 .. 2 : nmemb * size \in Nat
  <2> SUFFICES ASSUME NEW size \in Nat, NEW nmemb \in 0 .. 2
               PROVE  nmemb * size \in Nat
    BY <1>1
  <2>1. nmemb = 0 \/ nmemb = 1 \/ nmemb = 2
    OBVIOUS
  <2> QED BY <2>1
<1>3. ASSUME fini
      PROVE  IInv'
  <2>1. Types'
    BY <1>3 DEF IInv, Types, fini
  <2> QED BY <1>3, <2>1, QuietStep DEF fini
<1>4. ASSUME NEW size \in Sizes, malloc_part1(size)
      PROVE  IInv'
  <2>1. PICK res \in Pointers : LibAllocates(size, res)
    BY <1>4 DEF malloc_part1
  <2>2. /\ Runs({"part1"}) /\ n_calls' \in Nat /\ n_allocb' \in Nat
        /\ UNCHANGED <<list, n_freeb, report, status>>
    BY <1>1, <1>2, <1>4 DEF malloc_part1, Counts
  <2> QED BY <1>2, <2>1, <2>2, PartOneStep
<1>5. ASSUME NEW size \in Sizes, NEW nmemb \in 0 .. 2, calloc_part1(nmemb, size)
      PROVE  IInv'
  <2>1. PICK res \in Pointers : LibAllocates(nmemb * size, res)
    BY <1>5 DEF calloc_part1
  <2>2. /\ Runs({"part1"}) /\ n_calls' \in Nat /\ n_allocb' \in Nat
        /\ UNCHANGED <<list, n_freeb, report, status>>
    BY <1>1, <1>2, <1>5 DEF calloc_part1, Counts
  <2> QED BY <1>2, <2>1, <2>2, PartOneStep
<1>6. ASSUME NEW size \in Sizes, NEW p \in Pointers, realloc_part1(p, size)
      PROVE  IInv'
  <2>1. PICK res \in Pointers : LibReallocatesAny(p, size, res)
    BY <1>6 DEF realloc_part1
  <2>2. /\ Runs({"part1"}) /\ n_calls' \in Nat /\ n_allocb' \in Nat
        /\ UNCHANGED <<list, n_freeb, report>>
    BY <1>1, <1>2, <1>6 DEF realloc_part1, Counts
  <2> QED BY <1>2, <2>1, <2>2, PartOneStep
<1>7. ASSUME NEW p \in Pointers, free_part1(p)
      PROVE  IInv'
  <2>1. /\ Runs({"part1"}) /\ n_calls' \in Nat /\ n_allocb' \in Nat /\ LibFrees(p)
        /\ UNCHANGED <<list, n_freeb, report>>
    BY <1>1, <1>7 DEF free_part1
  <2> QED BY <2>1, PartOneStep
<1>8. ASSUME NEW size \in Sizes, malloc(size)
      PROVE  IInv'
  <2>1. PICK res \in Pointers : LibAllocates(size, res) /\ list' = alloc(list, res, size)
    BY <1>8 DEF malloc
  <2> QED BY <1>1, <1>2, <1>8, <2>1, AllocatingStep DEF malloc
<1>9. ASSUME NEW size \in Sizes, NEW nmemb \in 0 .. 2, calloc(nmemb, size)
      PROVE  IInv'
  <2>1. PICK res \in Pointers : /\ LibAllocates(nmemb * size, res)
                                /\ list' = alloc(list, res, nmemb * size)
    BY <1>9 DEF calloc
  <2> QED BY <1>1, <1>2, <1>9, <2>1, AllocatingStep DEF calloc
<1>10. ASSUME NEW size \in Sizes, NEW p \in Pointers, realloc_part2(p, size)
       PROVE  IInv'
  <2>1. PICK res \in Pointers : /\ LibReallocatesAny(p, size, res)
                                /\ list' = alloc(dealloc(list, p), res, size)
    BY <1>10 DEF realloc_part2
  <2>2. n_freeb' \in Nat
    <3>1. sizeOf(find(list, p)) \in Nat
      BY <1>1, SizesNat
    <3> QED BY <1>1, <1>10, <3>1 DEF realloc_part2, Freed
  <2>3. variant = "part2" /\ Runs({"part2", "bonus"}) /\ Counts(size) /\ UNCHANGED report
    BY <1>10 DEF realloc_part2, Runs
  <2> QED BY <1>1, <1>2, <2>1, <2>2, <2>3, ReallocatingStep
<1>11. ASSUME NEW p \in Pointers, free_part2(p)
       PROVE  IInv'
  <2>1. variant = "part2" /\ Runs({"part2", "bonus"})
        /\ UNCHANGED <<n_calls, n_allocb, report>>
    BY <1>11 DEF free_part2, Runs
  <2>2. CASE placeOf(list, p) = 0
    <3>1. status' = "segv" /\ UNCHANGED <<live, list, n_freeb>>
      BY <1>11, <2>2 DEF free_part2
    <3>2. Types'
      BY <2>1, <3>1 DEF IInv, Types, Runs
    <3> QED BY <2>1, <3>1, <3>2, QuietStep DEF Runs
  <2>3. CASE placeOf(list, p) # 0
    <3>1. list' = dealloc(list, p) /\ LibFrees(p) /\ n_freeb' \in Nat
      BY <1>1, <1>11, <2>3, SizesNat DEF free_part2, Freed
    <3> QED BY <1>1, <2>1, <3>1, FreeingStep
  <2> QED BY <2>2, <2>3
<1>12. ASSUME NEW size \in Sizes, NEW p \in Pointers, realloc_bonus(p, size)
       PROVE  IInv'
  <2> DEFINE i == placeOf(list, p)
  <2>1. /\ find(list, p) = i /\ cntOf(i) = Count(list, p)
        /\ i # 0 => list[i].size \in Nat
    BY <1>1, SizesNat
  <2>2. Runs({"part2", "bonus"}) /\ Counts(size)
    BY <1>12 DEF realloc_bonus, Runs
  <2>3. CASE /\ cntOf(i) > 0
             /\ Freed(list[i].size) /\ report' = "none"
             /\ \E res \in Pointers : /\ LibReallocatesAny(p, size, res)
                                      /\ list' = alloc(dealloc(list, p), res, size)
    <3>1. i # 0
      BY <2>3 DEF cntOf
    <3>2. n_freeb' \in Nat
      BY <1>1, <2>1, <2>3, <3>1 DEF Freed
    <3>3. PICK res \in Pointers : /\ LibReallocatesAny(p, size, res)
                                  /\ list' = alloc(dealloc(list, p), res, size)
      BY <2>3
    <3> QED BY <1>2, <2>1, <2>2, <2>3, <3>2, <3>3, ReallocatingStep
  <2>4. CASE /\ Freed(0) /\ UNCHANGED status
             /\ report' = IF i = 0 THEN "ill_free" ELSE "double_free"
             /\ \E res \in Pointers : /\ LibAllocates(size, res)
                                      /\ list' = alloc(list, res, size)
    <3>1. PICK res \in Pointers : LibAllocates(size, res) /\ list' = alloc(list, res, size)
      BY <2>4
    <3>2. n_freeb' \in Nat
      BY <1>1, <2>4 DEF Freed
    <3> QED BY <1>2, <2>2, <2>4, <3>1, <3>2, AllocatingStep
  <2> QED BY <1>12, <2>1, <2>3, <2>4 DEF realloc_bonus
<1>13. ASSUME NEW p \in Pointers, free_bonus(p)
       PROVE  IInv'
  <2> DEFINE i == placeOf(list, p)
  <2>1. /\ find(list, p) = i /\ cntOf(i) = Count(list, p)
        /\ i # 0 => list[i].size \in Nat
    BY <1>1, SizesNat
  <2>2. /\ Runs({"part2", "bonus"}) /\ variant = "bonus" /\ UNCHANGED <<n_calls, n_allocb>>
    BY <1>13 DEF free_bonus, Runs
  <2>3. CASE /\ report' = IF i = 0 THEN "ill_free" ELSE "double_free"
             /\ UNCHANGED <<live, list, n_freeb, status>>
    <3>1. Types'
      BY <2>2, <2>3 DEF IInv, Types, Runs
    <3> QED BY <2>2, <2>3, <3>1, QuietStep DEF Runs, IInv, MisuseStopped
  <2>4. CASE /\ cntOf(i) # 0
             /\ list' = dealloc(list, p)
             /\ Freed(list[i].size) /\ report' = "none"
             /\ LibFrees(p)
    <3>1. i # 0 /\ Count(list, p) > 0
      <4>1. Count(list, p) >= 0 /\ Count(list, p) \in Int
        BY <1>1, <2>2, ListedItem DEF IInv, NonNegative
      <4> QED BY <2>1, <2>4, <4>1 DEF cntOf
    <3>2. n_freeb' \in Nat
      BY <1>1, <2>1, <2>4, <3>1 DEF Freed
    <3> QED BY <2>2, <2>4, <3>1, <3>2, FreeingStep
  <2> QED BY <1>13, <2>1, <2>3, <2>4 DEF free_bonus
<1>14. ASSUME UNCHANGED vars
       PROVE  IInv'
  <2>1. Types'
    BY <1>14 DEF vars, IInv, Types
  <2> QED BY <1>14, <2>1, QuietStep DEF vars, IInv, MisuseStopped
<1> QED BY <1>3, <1>4, <1>5, <1>6, <1>7, <1>8, <1>9, <1>10, <1>11, <1>12, <1>13, <1>14 DEF Next

(* The invariant holds in every state of the program.                      *)
LEMMA IInvInvariant == Spec => []IInv
BY InitIInv, NextIInv, PTL DEF Spec
-----------------------------------------------------------------------------
(* Balanced: the totals, by the sums of what the blocks use.               *)

Use(lv, p) == IF lv[p] # Dead THEN lv[p] ELSE 0
Uses(lv) == [p \in Ptrs |-> Use(lv, p)]

(* The blocks use d bytes.                                                 *)
Balances(lv, d) == \E G : Sums(Ptrs, Uses(lv), G) /\ d = G[Ptrs]

BInv == Tracing /\ NoNull => Balances(live, n_allocb - n_freeb)

(* A block that begins, ends or changes its size.                          *)
LEMMA UseChanges ==
    ASSUME NEW lv \in Lives, NEW d, Balances(lv, d), NEW p \in Ptrs, NEW n \in Nat \cup {Dead},
           NEW lv2, lv2 = [lv EXCEPT ![p] = n]
    PROVE  /\ d \in Int /\ Use(lv, p) \in Nat /\ Use(lv2, p) \in Nat
           /\ Balances(lv2, (d - Use(lv, p)) + Use(lv2, p))
<1> PICK G : Sums(Ptrs, Uses(lv), G) /\ d = G[Ptrs]
  BY DEF Balances
<1>1. Uses(lv) \in [Ptrs -> Nat] /\ Use(lv, p) \in Nat /\ Use(lv2, p) \in Nat
  BY DEF Uses, Use, Lives
<1>2. Uses(lv2) = [Uses(lv) EXCEPT ![p] = Use(lv2, p)]
  BY DEF Uses, Use, Lives
<1> PICK b \in Nat : b = Use(lv2, p)
  BY <1>1
<1> PICK H : H = Resummed(Ptrs, G, p, b)
  OBVIOUS
<1>3. Sums(Ptrs, Uses(lv2), H)
  <2> PICK w \in [Ptrs -> Nat] : w = Uses(lv)
    BY <1>1
  <2>1. Sums(Ptrs, [w EXCEPT ![p] = b], Resummed(Ptrs, G, p, b))
    BY SumChanges
  <2>2. Uses(lv2) = [w EXCEPT ![p] = b]
    BY <1>2
  <2> QED BY <2>1, <2>2
<1>4. H[Ptrs] = G[Ptrs \ {p}] + b
  BY DEF Resummed
<1>5. /\ G[Ptrs] = Use(lv, p) + G[Ptrs \ {p}]
      /\ G[Ptrs] \in Nat /\ G[Ptrs \ {p}] \in Nat
  <2>1. Uses(lv)[p] = Use(lv, p)
    BY DEF Uses
  <2>2. Ptrs \in SUBSET Ptrs /\ Ptrs \ {p} \in SUBSET Ptrs
    OBVIOUS
  <2> QED BY <2>1, <2>2 DEF Sums
<1>6. H[Ptrs] = (d - Use(lv, p)) + Use(lv2, p)
  <2> PICK c \in Nat : c = G[Ptrs \ {p}]
    BY <1>5
  <2> PICK a \in Nat : a = Use(lv, p)
    BY <1>1
  <2>1. d = a + c /\ H[Ptrs] = c + b
    BY <1>4, <1>5
  <2> QED BY <2>1
<1>7. Balances(lv2, (d - Use(lv, p)) + Use(lv2, p))
  BY <1>3, <1>6 DEF Balances
<1>8. d \in Int
  BY <1>5
<1> QED BY <1>1, <1>7, <1>8

(* The bytes that the library hands out.                                   *)
LEMMA HandsBalances ==
    ASSUME NEW lv \in Lives, NEW d, Balances(lv, d), NEW size \in Nat, NEW res, res # NULL,
           NEW lv2, Hands(lv, size, res, lv2)
    PROVE  d \in Int /\ Balances(lv2, d + size)
<1>1. res \in Ptrs /\ lv[res] = Dead /\ lv2 = [lv EXCEPT ![res] = size]
  BY DEF Hands
<1>2. Use(lv, res) = 0 /\ Use(lv2, res) = size
  BY <1>1 DEF Use, Lives, Dead
<1>3. d \in Int /\ Balances(lv2, (d - 0) + size)
  BY <1>1, <1>2, UseChanges
<1> QED BY <1>3

(* The bytes of a block that ends.                                         *)
LEMMA EndBalances ==
    ASSUME NEW lv \in Lives, NEW d, Balances(lv, d), NEW p \in Ptrs, lv[p] # Dead,
           NEW lv2, lv2 = [lv EXCEPT ![p] = Dead]
    PROVE  d \in Int /\ lv2 \in Lives /\ lv[p] \in Nat /\ Balances(lv2, d - lv[p])
<1>1. lv[p] \in Nat /\ lv2 \in Lives /\ Use(lv, p) = lv[p] /\ Use(lv2, p) = 0
  BY DEF Lives, Use
<1>2. d \in Int /\ Balances(lv2, (d - lv[p]) + 0)
  BY <1>1, UseChanges DEF Dead
<1> QED BY <1>1, <1>2

(* A block is listed with its size as long as no call returned NULL.       *)
LEMMA LiveListed ==
    ASSUME IInv, Tracing, NoNull, NEW p \in Ptrs, IsLive(p)
    PROVE  /\ placeOf(list, p) # 0 /\ Count(list, p) = 1
           /\ list[placeOf(list, p)].size = live[p]
           /\ sizeOf(find(list, p)) = live[p]
<1>1. WellFormed(list) /\ Truthful(list, live) /\ p \in Pointers
  BY DEF IInv, Pointers
<1>2. Count(list, p) = 1 /\ live[p] = SizeAt(list, p)
  BY <1>1 DEF Truthful, Agrees, Covers, NoNull, IsLive
<1>3. placeOf(list, p) # 0
  BY <1>2 DEF Count
<1>4. /\ list[placeOf(list, p)].size = live[p] /\ find(list, p) = placeOf(list, p)
      /\ cntOf(placeOf(list, p)) = 1
  BY <1>1, <1>2, <1>3, ListedItem, SizesNat
<1> QED BY <1>2, <1>3, <1>4 DEF sizeOf

(* Once NULL is listed it stays.                                           *)
LEMMA NullStays ==
    ASSUME NEW l, WellFormed(l), NEW p \in Pointers, NEW n \in Nat
    PROVE  /\ placeOf(alloc(l, p, n), NULL) = 0 => p # NULL /\ placeOf(l, NULL) = 0
           /\ placeOf(dealloc(l, p), NULL) = 0 <=> placeOf(l, NULL) = 0
<1>1. p \in Nat /\ NULL \in Nat /\ l \in Seq(Items) /\ InOrder(l)
  BY PointersNat DEF WellFormed
<1>2. placeOf(dealloc(l, p), NULL) = 0 <=> placeOf(l, NULL) = 0
  BY <1>1, DeallocView
<1>3. placeOf(alloc(l, p, n), p) # 0
  BY <1>1, AllocView
<1>4. p # NULL => (placeOf(alloc(l, p, n), NULL) = 0 <=> placeOf(l, NULL) = 0)
  BY <1>1, AllocView
<1> QED BY <1>2, <1>3, <1>4

(* malloc and calloc, and realloc of what is not counted in the bonus part. *)
LEMMA AllocBalances ==
    ASSUME IInv, BInv, NEW size \in Nat, Counts(size), Freed(0), NEW res,
           LibAllocates(size, res), list' = alloc(list, res, size),
           UNCHANGED status, UNCHANGED variant
    PROVE  BInv'
<1> SUFFICES ASSUME Tracing', NoNull'
             PROVE  Balances(live', n_allocb' - n_freeb')
  BY DEF BInv, Balances, Sums, Uses, Use
<1>1. Tracing /\ WellFormed(list) /\ live \in Lives /\ n_allocb \in Nat /\ n_freeb \in Nat
  BY DEF Tracing, IInv, Types
<1>2. res \in Pointers /\ Hands(live, size, res, live')
  BY LibHands
<1>3. res # NULL /\ NoNull
  BY <1>1, <1>2, NullStays DEF NoNull
<1>4. Balances(live', (n_allocb - n_freeb) + size)
  BY <1>1, <1>2, <1>3, HandsBalances DEF BInv
<1>5. (n_allocb - n_freeb) + size = n_allocb' - n_freeb'
  BY <1>1 DEF Counts, Freed
<1> QED BY <1>4, <1>5

(* realloc, of a block or of NULL.                                         *)
LEMMA ReallocBalances ==
    ASSUME IInv, BInv, status = "running", variant # "part1",
           NEW p \in Pointers, NEW size \in Nat, Counts(size), NEW f, Freed(f), NEW res,
           LibReallocatesAny(p, size, res), list' = alloc(dealloc(list, p), res, size),
           UNCHANGED variant,
           placeOf(list, p) = 0 => f = 0,
           Tracing /\ NoNull /\ IsLive(p) => f = live[p]
    PROVE  BInv'
<1> SUFFICES ASSUME Tracing', NoNull'
             PROVE  Balances(live', n_allocb' - n_freeb')
  BY DEF BInv, Balances, Sums, Uses, Use
<1>1. Tracing /\ WellFormed(list) /\ live \in Lives /\ n_allocb \in Nat /\ n_freeb \in Nat
  BY DEF Tracing, IInv, Types
<1>2. res \in Pointers
  BY DEF LibReallocatesAny, LibReallocates, LibAllocates, Pointers
<1>3. res # NULL /\ NoNull
  BY <1>1, <1>2, NullStays, DeallocShape DEF NoNull
<1>4. Balances(live, n_allocb - n_freeb)
  BY <1>1, <1>3 DEF BInv
<1>5. CASE p = NULL /\ LibAllocates(size, res)
  <2>1. Hands(live, size, res, live')
    BY <1>5, LibHands
  <2>2. f = 0
    BY <1>3, <1>5 DEF NoNull
  <2>3. Balances(live', (n_allocb - n_freeb) + size)
    BY <1>1, <1>3, <1>4, <2>1, HandsBalances
  <2>4. (n_allocb - n_freeb) + size = n_allocb' - n_freeb'
    BY <1>1, <2>2 DEF Counts, Freed
  <2> QED BY <2>3, <2>4
<1>6. CASE IsLive(p) /\ LibReallocates(p, size, res)
  <2> PICK lv : lv = [live EXCEPT ![p] = Dead]
    OBVIOUS
  <2>1. p \in Ptrs /\ live[p] # Dead /\ f = live[p]
    BY <1>1, <1>3, <1>6 DEF IsLive
  <2>2. lv \in Lives /\ f \in Nat /\ Balances(lv, (n_allocb - n_freeb) - f)
    BY <1>1, <1>4, <2>1, EndBalances
  <2>3. Hands(lv, size, res, live')
    <3>1. res = p \/ (res \in Ptrs /\ ~IsLive(res))
      BY <1>3, <1>6 DEF LibReallocates
    <3>2. live' = [lv EXCEPT ![res] = size]
      BY <1>3, <1>6, <2>1 DEF LibReallocates, Lives
    <3>3. res \in Ptrs /\ lv[res] = Dead
      BY <1>1, <2>1, <3>1 DEF IsLive, Lives
    <3> QED BY <3>2, <3>3 DEF Hands
  <2>4. Balances(live', ((n_allocb - n_freeb) - f) + size)
    BY <1>3, <2>2, <2>3, HandsBalances
  <2>5. ((n_allocb - n_freeb) - f) + size = n_allocb' - n_freeb'
    BY <1>1, <2>2 DEF Counts, Freed
  <2> QED BY <2>4, <2>5
<1>7. CASE Undefined
  BY <1>7 DEF Undefined, Tracing
<1> QED BY <1>5, <1>6, <1>7 DEF LibReallocatesAny

(* free of a listed block.                                                 *)
LEMMA FreeBalances ==
    ASSUME IInv, BInv, status = "running", variant # "part1",
           NEW p \in Pointers, placeOf(list, p) # 0, Freed(list[placeOf(list, p)].size),
           LibFrees(p), list' = dealloc(list, p), UNCHANGED <<variant, n_allocb>>
    PROVE  BInv'
<1> SUFFICES ASSUME Tracing', NoNull'
             PROVE  Balances(live', n_allocb' - n_freeb')
  BY DEF BInv, Balances, Sums, Uses, Use
<1>1. Tracing /\ WellFormed(list) /\ live \in Lives /\ n_allocb \in Nat /\ n_freeb \in Nat
  BY DEF Tracing, IInv, Types
<1>2. NoNull
  BY <1>1, NullStays DEF NoNull
<1>3. Balances(live, n_allocb - n_freeb) /\ p # NULL
  BY <1>1, <1>2 DEF BInv, NoNull
<1>4. IsLive(p) /\ live' = [live EXCEPT ![p] = Dead]
  BY <1>3 DEF LibFrees, Undefined, Tracing
<1>5. p \in Ptrs /\ live[p] # Dead /\ list[placeOf(list, p)].size = live[p]
  BY <1>1, <1>2, <1>4, LiveListed DEF IsLive
<1>6. live[p] \in Nat /\ Balances(live', (n_allocb - n_freeb) - live[p])
  BY <1>1, <1>3, <1>4, <1>5, EndBalances
<1>7. (n_allocb - n_freeb) - live[p] = n_allocb' - n_freeb'
  BY <1>1, <1>5, <1>6 DEF Freed
<1> QED BY <1>6, <1>7

(* Calls that change no block, and the part without a list.                *)
LEMMA QuietBalances ==
    ASSUME BInv,
           \/ UNCHANGED <<variant, live, list, n_allocb, n_freeb>> /\ (Tracing' => Tracing)
           \/ variant' = "part1"
    PROVE  BInv'
BY DEF BInv, Balances, Sums, Uses, Use, Tracing, NoNull

(* Every call keeps the balance.                                           *)
LEMMA NextBalances == IInv /\ BInv /\ [Next]_vars => BInv'
<1> SUFFICES ASSUME IInv, BInv, [Next]_vars
             PROVE  BInv'
  OBVIOUS
<1>1. /\ WellFormed(list) /\ n_freeb \in Nat /\ Sizes \subseteq Nat
      /\ UNCHANGED n_freeb => Freed(0)
  BY TraceAssumption DEF IInv, Types, Freed
<1>2. \A size \in Sizes : size \in Nat /\ \A nmemb \in 0 .. 2 : nmemb * size \in Nat
  <2> SUFFICES ASSUME NEW size \in Nat, NEW nmemb \in 0 .. 2
               PROVE  nmemb * size \in Nat
    BY <1>1
  <2>1. nmemb = 0 \/ nmemb = 1 \/ nmemb = 2
    OBVIOUS
  <2> QED BY <2>1
<1>3. ASSUME fini \/ UNCHANGED vars
      PROVE  BInv'
  BY <1>3, QuietBalances DEF fini, vars, Tracing
<1>4. ASSUME Runs({"part1"})
      PROVE  BInv'
  BY <1>4, QuietBalances DEF Runs
<1>5. ASSUME NEW size \in Sizes, malloc(size)
      PROVE  BInv'
  <2>1. PICK res \in Pointers : LibAllocates(size, res) /\ list' = alloc(list, res, size)
    BY <1>5 DEF malloc
  <2> QED BY <1>1, <1>2, <1>5, <2>1, AllocBalances DEF malloc, Runs
<1>6. ASSUME NEW size \in Sizes, NEW nmemb \in 0 .. 2, calloc(nmemb, size)
      PROVE  BInv'
  <2>1. PICK res \in Pointers : /\ LibAllocates(nmemb * size, res)
                                /\ list' = alloc(list, res, nmemb * size)
    BY <1>6 DEF calloc
  <2> QED BY <1>1, <1>2, <1>6, <2>1, AllocBalances DEF calloc, Runs
<1>7. ASSUME NEW size \in Sizes, NEW p \in Pointers, realloc_part2(p, size)
      PROVE  BInv'
  <2> PICK f : f = sizeOf(find(list, p))
    OBVIOUS
  <2>1. PICK res \in Pointers : /\ LibReallocatesAny(p, size, res)
                                /\ list' = alloc(dealloc(list, p), res, size)
    BY <1>7 DEF realloc_part2
  <2>2. /\ status = "running" /\ variant # "part1" /\ UNCHANGED variant
        /\ Counts(size) /\ Freed(f)
    BY <1>7 DEF realloc_part2, Runs
  <2>3. placeOf(list, p) = 0 => f = 0
    BY <1>1, SizesNat DEF sizeOf, cntOf
  <2>4. Tracing /\ NoNull /\ IsLive(p) => f = live[p]
    BY LiveListed DEF IsLive
  <2> QED BY <1>2, <2>1, <2>2, <2>3, <2>4, ReallocBalances
<1>8. ASSUME NEW p \in Pointers, free_part2(p)
      PROVE  BInv'
  <2>1. CASE placeOf(list, p) = 0
    BY <1>8, <2>1 DEF free_part2, BInv, Tracing
  <2>2. CASE placeOf(list, p) # 0
    BY <1>8, <2>2, FreeBalances DEF free_part2, Runs
  <2> QED BY <2>1, <2>2
<1>9. ASSUME NEW size \in Sizes, NEW p \in Pointers, realloc_bonus(p, size)
      PROVE  BInv'
  <2> DEFINE i == placeOf(list, p)
  <2>1. find(list, p) = i /\ cntOf(i) = Count(list, p)
    BY <1>1, SizesNat
  <2>2. status = "running" /\ variant # "part1" /\ UNCHANGED variant /\ Counts(size)
    BY <1>9 DEF realloc_bonus, Runs
  <2>3. CASE /\ cntOf(i) > 0
             /\ Freed(list[i].size)
             /\ \E res \in Pointers : /\ LibReallocatesAny(p, size, res)
                                      /\ list' = alloc(dealloc(list, p), res, size)
    <3> PICK f : f = list[i].size
      OBVIOUS
    <3>1. i # 0 /\ Freed(f)
      BY <2>3 DEF cntOf
    <3>2. PICK res \in Pointers : /\ LibReallocatesAny(p, size, res)
                                  /\ list' = alloc(dealloc(list, p), res, size)
      BY <2>3
    <3>3. Tracing /\ NoNull /\ IsLive(p) => f = live[p]
      BY LiveListed DEF IsLive
    <3> QED BY <1>2, <2>2, <3>1, <3>2, <3>3, ReallocBalances
  <2>4. CASE /\ Freed(0) /\ UNCHANGED status
             /\ \E res \in Pointers : LibAllocates(size, res) /\ list' = alloc(list, res, size)
    <3>1. PICK res \in Pointers : LibAllocates(size, res) /\ list' = alloc(list, res, size)
      BY <2>4
    <3> QED BY <1>2, <2>2, <2>4, <3>1, AllocBalances
  <2> QED BY <1>9, <2>1, <2>3, <2>4 DEF realloc_bonus
<1>10. ASSUME NEW p \in Pointers, free_bonus(p)
       PROVE  BInv'
  <2> DEFINE i == placeOf(list, p)
  <2>1. find(list, p) = i
    BY <1>1, SizesNat
  <2>2. status = "running" /\ variant # "part1" /\ UNCHANGED <<variant, n_allocb>>
    BY <1>10 DEF free_bonus, Runs
  <2>3. CASE UNCHANGED <<live, list, n_freeb, status>>
    BY <2>2, <2>3, QuietBalances DEF Tracing
  <2>4. CASE /\ cntOf(i) # 0 /\ list' = dealloc(list, p)
             /\ Freed(list[i].size) /\ LibFrees(p)
    <3>1. i # 0
      BY <2>4 DEF cntOf
    <3> QED BY <2>2, <2>4, <3>1, FreeBalances
  <2> QED BY <1>10, <2>1, <2>3, <2>4 DEF free_bonus
<1>11. /\ \A size : malloc_part1(size) => Runs({"part1"})
       /\ \A nmemb, size : calloc_part1(nmemb, size) => Runs({"part1"})
       /\ \A p, size : realloc_part1(p, size) => Runs({"part1"})
       /\ \A p : free_part1(p) => Runs({"part1"})
  BY DEF malloc_part1, calloc_part1, realloc_part1, free_part1
<1> QED BY <1>3, <1>4, <1>5, <1>6, <1>7, <1>8, <1>9, <1>10, <1>11 DEF Next

(* The sum that Balanced writes down is the value of a sum function.       *)
LEMMA BalanceIs ==
    ASSUME live \in Lives, NEW d, Balances(live, d)
    PROVE  d = MapThenSumSet(LAMBDA p : IF IsLive(p) THEN live[p] ELSE 0, Ptrs)
<1> DEFINE Adds(f) ==
       f = [s \in SUBSET Ptrs |->
              IF s = {} THEN 0
              ELSE (IF IsLive(CHOOSE x \in s : TRUE) THEN live[CHOOSE x \in s : TRUE] ELSE 0)
                   + f[s \ {CHOOSE x \in s : TRUE}]]
<1> PICK G : Sums(Ptrs, Uses(live), G) /\ d = G[Ptrs]
  BY DEF Balances
<1> PICK F : F = SumsBelow(G, Ptrs)
  OBVIOUS
<1> PICK w : w = Uses(live)
  OBVIOUS
<1>1. w \in [Ptrs -> Nat] /\ IsFiniteSet(Ptrs)
  BY TraceAssumption DEF Uses, Use, Lives
<1>2. MapThenSumSet(LAMBDA p : IF IsLive(p) THEN live[p] ELSE 0, Ptrs) = (CHOOSE f : Adds(f))[Ptrs]
  BY DEF MapThenSumSet, MapThenFoldSet
<1>3. \A s \in SUBSET Ptrs : s # {} =>
         w[CHOOSE x \in s : TRUE]
            = IF IsLive(CHOOSE x \in s : TRUE) THEN live[CHOOSE x \in s : TRUE] ELSE 0
  <2> SUFFICES ASSUME NEW s \in SUBSET Ptrs, s # {}, NEW x, x = CHOOSE y \in s : TRUE
               PROVE  w[x] = IF IsLive(x) THEN live[x] ELSE 0
    OBVIOUS
  <2>1. x \in Ptrs
    OBVIOUS
  <2> QED BY <2>1 DEF Uses, Use, IsLive
<1>4. ASSUME NEW f
      PROVE  Adds(f) <=> IsSum(w, Ptrs, f)
  BY <1>3 DEF IsSum
<1> HIDE DEF Adds
<1>5. IsSum(w, Ptrs, F)
  BY <1>1, SumAddsUp
<1>6. Adds(F) /\ \A f : Adds(f) => f = F
  BY <1>1, <1>4, <1>5, SumIsOne
<1>7. (CHOOSE f : Adds(f)) = F
  BY <1>6
<1>8. F[Ptrs] = G[Ptrs]
  BY DEF SumsBelow
<1> QED BY <1>2, <1>7, <1>8
-----------------------------------------------------------------------------
(* The theorems.                                                           *)

(* Every variable has its type in every state.                             *)
THEOREM TypeCorrect == Spec => []TypeOK
BY IInvInvariant, IInvTyped, PTL

(* The items stay in strictly ascending order, whatever the program calls. *)
THEOREM Ordered == Spec => []ListOrdered
<1>1. IInv => ListOrdered
  BY DEF IInv, WellFormed, InOrder, ListOrdered
<1> QED BY <1>1, IInvInvariant, PTL

(* The bonus part never crashes and never passes on to the library a free  *)
(* of what is not allocated.                                               *)
THEOREM MisuseKept == Spec => []MisuseStopped
<1>1. IInv => MisuseStopped
  BY DEF IInv
<1> QED BY <1>1, IInvInvariant, PTL

(* What counts is a block as its item says, and what fini logs as          *)
(* non-freed is what leaked.                                               *)
THEOREM CountersFaithful == Spec => []CountersAreBlocks
<1>1. IInv => CountersAreBlocks
  <2> SUFFICES ASSUME IInv, Tracing
               PROVE  /\ \A p \in Ptrs : Counted(p) =>
                              Item(p, live[p], 1) = list[placeOf(list, p)] /\ IsLive(p)
                      /\ NoNull => Leaks = {p \in Ptrs : IsLive(p)}
    BY DEF CountersAreBlocks
  <2>1. WellFormed(list) /\ Truthful(list, live) /\ live \in Lives
    BY DEF IInv, Types
  <2>2. \A p \in Ptrs : /\ Count(list, p) \in Int /\ SizeAt(list, p) \in Nat
                        /\ Count(list, p) <= 1
                        /\ Count(list, p) = 1 => live[p] = SizeAt(list, p)
    BY <2>1, ListedItem DEF Truthful, Agrees, Pointers
  <2>3. ASSUME NEW p \in Ptrs, Counted(p)
        PROVE  Item(p, live[p], 1) = list[placeOf(list, p)] /\ IsLive(p)
    <3>1. Count(list, p) > 0 /\ placeOf(list, p) # 0
      BY <2>3 DEF Counted, cntOf, Count
    <3>2. Count(list, p) = 1 /\ live[p] = SizeAt(list, p) /\ live[p] # Dead
      BY <2>2, <3>1 DEF Dead
    <3>3. list[placeOf(list, p)] = Item(p, SizeAt(list, p), Count(list, p))
      BY <2>1, <3>1, ListedItem DEF Pointers
    <3> QED BY <3>2, <3>3 DEF IsLive
  <2>4. ASSUME NoNull
        PROVE  Leaks = {p \in Ptrs : IsLive(p)}
    <3>1. list \in Seq(Items) /\ InOrder(list) /\ \A x \in Entries(list) : x.ptr \in Pointers
      BY <2>1 DEF WellFormed
    <3>2. \A p \in Ptrs : Count(list, p) >= 0 /\ (live[p] # Dead => Count(list, p) = 1)
      BY <2>1, <2>4 DEF NoNull, Truthful, Covers
    <3>3. ASSUME NEW k \in DOMAIN list, list[k].cnt # 0
          PROVE  list[k].ptr \in Ptrs /\ IsLive(list[k].ptr)
      <4>1. list[k] \in Entries(list) /\ list[k].ptr \in Pointers
        BY <3>1 DEF Entries
      <4>2. placeOf(list, list[k].ptr) # 0 /\ Count(list, list[k].ptr) = list[k].cnt
        BY <3>1, <4>1, ViewOfItem
      <4>3. list[k].ptr \in Ptrs
        BY <2>4, <4>1, <4>2 DEF NoNull, Pointers
      <4>4. Count(list, list[k].ptr) = 1
        BY <2>2, <3>2, <3>3, <4>2, <4>3
      <4>5. live[list[k].ptr] \in Nat
        BY <2>2, <4>3, <4>4
      <4> QED BY <4>3, <4>5 DEF IsLive, Dead
    <3>4. ASSUME NEW p \in Ptrs, IsLive(p)
          PROVE  p \in Leaks
      <4>1. Count(list, p) = 1 /\ p \in Nat
        BY <3>2, <3>4, PointersNat DEF IsLive
      <4>2. placeOf(list, p) # 0
        BY <4>1 DEF Count
      <4>3. placeOf(list, p) \in DOMAIN list /\ list[placeOf(list, p)].ptr = p
        BY <3>1, <4>2, PlaceFound
      <4>4. list[placeOf(list, p)].cnt = 1
        BY <4>1, <4>2 DEF Count
      <4> QED BY <4>3, <4>4 DEF Leaks
    <3> QED BY <3>3, <3>4 DEF Leaks
  <2> QED BY <2>3, <2>4
<1> QED BY <1>1, IInvInvariant, PTL

(* As long as no call returned NULL, the bytes allocated less those freed  *)
(* are the bytes of the blocks in use, in the two variants with a list.    *)
THEOREM TotalsBalance == Spec => []Balanced
<1>1. Init => BInv
  <2> SUFFICES ASSUME Init
               PROVE  Balances(live, n_allocb - n_freeb)
    BY DEF BInv
  <2> PICK G : G = [s \in SUBSET Ptrs |-> 0]
    OBVIOUS
  <2>1. \A p \in Ptrs : Use(live, p) = 0
    BY DEF Init, Use
  <2>2. Sums(Ptrs, Uses(live), G) /\ G[Ptrs] = 0
    BY <2>1 DEF Sums, Uses
  <2>3. n_allocb - n_freeb = 0
    BY DEF Init
  <2> QED BY <2>2, <2>3 DEF Balances
<1>2. IInv /\ BInv => Balanced
  BY BalanceIs DEF IInv, Types, BInv, Balanced
<1> QED BY <1>1, <1>2, NextBalances, IInvInvariant, PTL DEF Spec

(* As long as no call returned NULL, the bonus part reports a free exactly *)
(* when its block is not allocated.                                        *)
THEOREM ReportsRight == Spec => MisuseReported
<1>1. IInv /\ [Next]_vars =>
         [\A p \in Ptrs : free_bonus(p) /\ NoNull => (report' = "none" <=> IsLive(p))]_vars
  <2> SUFFICES ASSUME IInv, NEW p \in Ptrs, free_bonus(p), NoNull
               PROVE  report' = "none" <=> IsLive(p)
    OBVIOUS
  <2>1. variant = "bonus" /\ status = "running"
    BY DEF free_bonus, Runs
  <2>2. WellFormed(list) /\ Truthful(list, live) /\ Covers(list, live)
    BY <2>1 DEF IInv, Tracing, NoNull, Truthful
  <2>3. find(list, p) = placeOf(list, p) /\ cntOf(placeOf(list, p)) = Count(list, p)
    BY <2>2, SizesNat DEF Pointers
  <2>4. report' = "none" <=> Count(list, p) # 0
    BY <2>3 DEF free_bonus
  <2>5. Count(list, p) # 0 <=> IsLive(p)
    <3>1. /\ Count(list, p) \in Int /\ Count(list, p) >= 0
          /\ live[p] # Dead => Count(list, p) = 1
      BY <2>2, ListedItem DEF Covers, Pointers
    <3>2. Count(list, p) > 0 => p = NULL \/ IsLive(p)
      BY <2>2, CountedIsLive DEF Pointers
    <3> QED BY <3>1, <3>2, PointersNat DEF IsLive
  <2> QED BY <2>4, <2>5
<1> QED BY <1>1, IInvInvariant, PTL DEF Spec, MisuseReported
=============================================================================
