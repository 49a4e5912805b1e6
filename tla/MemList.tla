------------------------------ MODULE MemList -------------------------------
(***************************************************************************)
(* The block list of linklab (utils/memlist.c): one item for every address *)
(* that was ever handed out, in ascending order, never removed.  The dummy *)
(* element the code starts its list with is left out.                      *)
(***************************************************************************)
EXTENDS Integers, Sequences, SequencesExt

Item(ptr, size, cnt) == [ptr |-> ptr, size |-> size, cnt |-> cnt]

new_list == <<>>

alloc_NoCount(list, ptr, size) ==
  LET cur == SelectInSeq(list, LAMBDA i : i.ptr >= ptr)
  IN IF cur = 0 THEN Append(list, Item(ptr, size, 1))
     ELSE IF list[cur].ptr = ptr THEN [list EXCEPT ![cur].size = size]
     ELSE InsertAt(list, cur, Item(ptr, size, 1))

alloc_Front(list, ptr, size) ==
  IF \E k \in DOMAIN list : list[k].ptr = ptr
  THEN [k \in DOMAIN list |-> IF list[k].ptr # ptr THEN list[k]
                              ELSE Item(ptr, size, list[k].cnt + 1)]
  ELSE <<Item(ptr, size, 1)>> \o list

\* The first item that is not below ptr is updated if it is ptr's; else a new
\* item goes before it.
alloc(list, ptr, size) ==
  LET cur == SelectInSeq(list, LAMBDA i : i.ptr >= ptr)
  IN IF cur = 0 THEN Append(list, Item(ptr, size, 1))
     ELSE IF list[cur].ptr = ptr
     THEN [list EXCEPT ![cur] = Item(ptr, size, list[cur].cnt + 1)]
     ELSE InsertAt(list, cur, Item(ptr, size, 1))

\* The place of ptr's item, 0 if it has none, as dealloc looks for it ...
placeOf(list, ptr) == SelectInSeq(list, LAMBDA i : i.ptr = ptr)

dealloc(list, ptr) ==
  IF placeOf(list, ptr) = 0 THEN list
  ELSE [list EXCEPT ![placeOf(list, ptr)].cnt = @ - 1]

find_Above(list, ptr) ==
  LET cur == SelectInSeq(list, LAMBDA i : i.ptr >= ptr)
  IN IF cur # 0 /\ list[cur].cnt > 0 THEN cur ELSE 0

\* ... and as find does, which relies on the order.
find(list, ptr) ==
  LET cur == SelectInSeq(list, LAMBDA i : i.ptr >= ptr)
  IN IF cur # 0 /\ list[cur].ptr = ptr THEN cur ELSE 0
=============================================================================
