------------------------------ MODULE Recency ------------------------------
(***************************************************************************)
(* What a lookup in the proxy's cache can rely on: the items it searches   *)
(* stand in the order of their last use, newest first, and an item is only *)
(* ever forgotten together with everything older.  How much is forgotten,  *)
(* and when, is left open.  Module CacheList implements this specification *)
(* (CacheList!RefinesRecency).                                             *)
(***************************************************************************)
EXTENDS Naturals, Sequences, SequencesExt

CONSTANT Nodes

VARIABLE order     \* the items, the one used last first

Items(seq) == {seq[i] : i \in DOMAIN seq}

(* What may remain of seq.                                                 *)
Newest(seq) == {SubSeq(seq, 1, k) : k \in 0 .. Len(seq)}

Init == order = <<>>

Touch(i) == \E rest \in Newest(RemoveAt(order, i)) : order' = <<order[i]>> \o rest

Add(x) == x \notin Items(order) /\ order' = <<x>> \o order

Forget == \E rest \in Newest(order) : order' = rest

Next == Forget \/ (\E i \in DOMAIN order : Touch(i)) \/ (\E x \in Nodes : Add(x))

Spec == Init /\ [][Next]_order
=============================================================================
