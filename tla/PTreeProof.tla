----------------------------- MODULE PTreeProof -----------------------------
(***************************************************************************)
(* Theorems about the kernel module ptree, for every tree of processes,    *)
(* all lengths of their lines, every size of the string and all readers:   *)
(* what is in memory is covered by the total, and a read returns what it   *)
(* should of the branch.                                                   *)
(***************************************************************************)
EXTENDS PTree, ListLemmas

Bytes == (Pids \cup {0}) \X Nat

-----------------------------------------------------------------------------
(* The branches of a tree.  branchOf recurs on the way up, which is known  *)
(* to end by PTreeAssumption alone.                                        *)

Branching(D, b) ==
  /\ D \subseteq Pids \cup {0} /\ 0 \in D
  /\ \A p \in D \cap Pids : Parent[p] \in D
  /\ b \in [D -> Seq(Pids)] /\ b[0] = <<>>
  /\ \A p \in D \cap Pids : b[p] = Append(b[Parent[p]], p)

LEMMA TreeFacts ==
    /\ 0 \notin Pids /\ \A p \in Pids : Parent[p] \in Pids \cup {0}
    /\ \A S \in SUBSET Pids : S # {} => \E p \in S : Parent[p] \notin S
    /\ LENGTH_MAX \in Nat \ {0} /\ Counts \subseteq Nat
    /\ \A p \in Pids : Length[p] \in Nat
BY PTreeAssumption

(* What holds of a process if it does of its parent holds of all.          *)
LEMMA UpTheTree ==
    ASSUME NEW S \in SUBSET Pids, \A p \in Pids : (Parent[p] = 0 \/ Parent[p] \in S) => p \in S
    PROVE  S = Pids
<1> SUFFICES ASSUME Pids \ S # {}
             PROVE  FALSE
  OBVIOUS
<1>1. Pids \ S \in SUBSET Pids
  OBVIOUS
<1>2. PICK p \in Pids \ S : Parent[p] \notin Pids \ S
  BY <1>1, TreeFacts
<1> QED BY <1>2, TreeFacts

LEMMA BranchesAgree ==
    ASSUME NEW D, NEW b, Branching(D, b), NEW E, NEW c, Branching(E, c)
    PROVE  \A p \in D \cap E : b[p] = c[p]
<1> DEFINE S == {p \in Pids : p \in D \cap E => b[p] = c[p]}
<1>1. ASSUME NEW p \in Pids, Parent[p] = 0 \/ Parent[p] \in S
      PROVE  p \in S
  <2> SUFFICES ASSUME p \in D \cap E
               PROVE  b[p] = c[p]
    OBVIOUS
  <2>1. Parent[p] \in D \cap E
    BY DEF Branching
  <2>2. b[Parent[p]] = c[Parent[p]]
    BY <1>1, <2>1, TreeFacts DEF Branching
  <2>3. b[p] = Append(b[Parent[p]], p) /\ c[p] = Append(c[Parent[p]], p)
    BY DEF Branching
  <2> QED BY <2>2, <2>3
<1>2. S = Pids
  <2>1. S \in SUBSET Pids
    OBVIOUS
  <2> HIDE DEF S
  <2> QED BY <1>1, <2>1, UpTheTree
<1>3. b[0] = c[0]
  BY DEF Branching
<1> QED BY <1>2, <1>3, TreeFacts DEF Branching

LEMMA BranchesReach ==
    ASSUME NEW p \in Pids
    PROVE  \E D, b : Branching(D, b) /\ p \in D
<1> DEFINE S == {q \in Pids : \E D, b : Branching(D, b) /\ q \in D}
<1>1. ASSUME NEW q \in Pids, Parent[q] = 0 \/ Parent[q] \in S
      PROVE  q \in S
  <2>1. \E D, b : Branching(D, b) /\ Parent[q] \in D
    <3>1. CASE Parent[q] = 0
      <4>1. Branching({0}, [r \in {0} |-> <<>>])
        BY TreeFacts DEF Branching
      <4> QED BY <3>1, <4>1
    <3>2. CASE Parent[q] \in S
      BY <3>2
    <3> QED BY <1>1, <3>1, <3>2
  <2>2. PICK D, b : Branching(D, b) /\ Parent[q] \in D
    BY <2>1
  <2>3. CASE q \in D
    BY <2>2, <2>3
  <2>4. CASE q \notin D
    <3> DEFINE c == [r \in D \cup {q} |-> IF r = q THEN Append(b[Parent[q]], q) ELSE b[r]]
    <3>1. b[Parent[q]] \in Seq(Pids)
      BY <2>2 DEF Branching
    <3>2. Append(b[Parent[q]], q) \in Seq(Pids)
      BY <3>1
    <3>3. c \in [D \cup {q} -> Seq(Pids)]
      BY <2>2, <3>2 DEF Branching
    <3>4. c[q] = Append(b[Parent[q]], q) /\ \A r \in D : c[r] = b[r]
      BY <2>4
    <3> HIDE DEF c
    <3>5. Branching(D \cup {q}, c)
      <4>1. q # Parent[q]
        BY <2>2, <2>4
      <4> QED BY <2>2, <2>4, <3>3, <3>4, <4>1, TreeFacts DEF Branching
    <3> QED BY <3>5
  <2> QED BY <2>3, <2>4
<1>2. S = Pids
  <2>1. S \in SUBSET Pids
    OBVIOUS
  <2> HIDE DEF S
  <2> QED BY <1>1, <2>1, UpTheTree
<1> QED BY <1>2

(* branchOf is the function its definition says.                           *)
LEMMA BranchIs ==
    /\ branchOf[0] = <<>>
    /\ \A p \in Pids : branchOf[p] \in Seq(Pids) /\ branchOf[p] = Append(branchOf[Parent[p]], p)
<1> DEFINE All == Pids \cup {0}
           Def(b) == b = [p \in All |-> IF p = 0 THEN <<>> ELSE Append(b[Parent[p]], p)]
           Value(p, v) == \E D, b : Branching(D, b) /\ p \in D /\ v = b[p]
           g == [p \in All |-> CHOOSE v : Value(p, v)]
<1>1. ASSUME NEW D, NEW b, Branching(D, b), NEW p \in D
      PROVE  p \in All /\ g[p] = b[p]
  <2>1. p \in All /\ Value(p, b[p])
    BY <1>1 DEF Branching
  <2>2. \A v : Value(p, v) => v = b[p]
    BY <1>1, BranchesAgree
  <2> HIDE DEF Value
  <2> QED BY <2>1, <2>2
<1> HIDE DEF Value
<1>2. g[0] = <<>>
  <2>1. Branching({0}, [r \in {0} |-> <<>>])
    BY TreeFacts DEF Branching
  <2> QED BY <1>1, <2>1
<1>3. ASSUME NEW p \in Pids
      PROVE  g[p] = Append(g[Parent[p]], p)
  <2>1. PICK D, b : Branching(D, b) /\ p \in D
    BY BranchesReach
  <2>2. Parent[p] \in D /\ b[p] = Append(b[Parent[p]], p)
    BY <2>1 DEF Branching
  <2> HIDE DEF g
  <2> QED BY <1>1, <2>1, <2>2
<1>4. Def(g)
  <2>1. g = [p \in All |-> g[p]]
    OBVIOUS
  <2> HIDE DEF g
  <2> QED BY <1>2, <1>3, <2>1, TreeFacts
<1> HIDE DEF g
<1>5. Def(branchOf)
  BY <1>4 DEF branchOf
<1>6. /\ branchOf[0] = <<>>
      /\ \A p \in Pids : branchOf[p] = Append(branchOf[Parent[p]], p)
  BY <1>5, TreeFacts
<1> DEFINE S == {p \in Pids : branchOf[p] \in Seq(Pids)}
<1>7. ASSUME NEW p \in Pids, Parent[p] = 0 \/ Parent[p] \in S
      PROVE  p \in S
  <2>1. branchOf[Parent[p]] \in Seq(Pids)
    <3>1. CASE Parent[p] = 0
      BY <1>6, <3>1, EmptySeq, Zenon
    <3>2. CASE Parent[p] \in S
      BY <3>2, Zenon
    <3> QED BY <1>7, <3>1, <3>2
  <2>2. branchOf[p] = Append(branchOf[Parent[p]], p)
    BY <1>6
  <2>3. Append(branchOf[Parent[p]], p) \in Seq(Pids)
    BY <2>1, AppendProperties
  <2> QED BY <2>2, <2>3, Zenon
<1>8. S = Pids
  <2>1. S \in SUBSET Pids
    OBVIOUS
  <2> HIDE DEF S
  <2> QED BY <1>7, <2>1, UpTheTree
<1> QED BY <1>6, <1>8

-----------------------------------------------------------------------------
(* The text about several processes.                                       *)

LinesOf(pids) == [k \in DOMAIN pids |-> Line(pids[k])]

LEMMA LineType ==
    ASSUME NEW p \in Pids
    PROVE  Line(p) \in Seq(Bytes)
<1>1. Length[p] \in Nat /\ \A k \in 1 .. Length[p] : <<p, k>> \in Bytes
  BY TreeFacts DEF Bytes
<1> QED BY <1>1 DEF Line

LEMMA LinesType ==
    ASSUME NEW a \in Seq(Pids)
    PROVE  /\ LinesOf(a) \in Seq(Seq(Bytes)) /\ Len(LinesOf(a)) = Len(a)
           /\ \A k \in 1 .. Len(a) : LinesOf(a)[k] = Line(a[k])
<1>1. DOMAIN a = 1 .. Len(a) /\ \A k \in 1 .. Len(a) : Line(a[k]) \in Seq(Bytes)
  BY LineType
<1> QED BY <1>1 DEF LinesOf

LEMMA TextType ==
    ASSUME NEW a \in Seq(Pids)
    PROVE  Text(a) \in Seq(Bytes) /\ Len(Text(a)) \in Nat
<1>1. FlattenSeq(LinesOf(a)) \in Seq(Bytes)
  BY LinesType, FlattenType
<1> QED BY <1>1 DEF Text, LinesOf

LEMMA TextJoin ==
    ASSUME NEW a \in Seq(Pids), NEW b \in Seq(Pids)
    PROVE  /\ a \o b \in Seq(Pids) /\ Text(a \o b) = Text(a) \o Text(b)
           /\ Len(Text(a \o b)) = Len(Text(a)) + Len(Text(b))
           /\ \A k \in 1 .. Len(Text(a)) : Text(a \o b)[k] = Text(a)[k]
<1> DEFINE ab == a \o b
           l == LinesOf(a)
           m == LinesOf(b)
<1>1. /\ ab \in Seq(Pids) /\ Len(ab) = Len(a) + Len(b)
      /\ \A k \in 1 .. Len(a) + Len(b) : ab[k] = IF k <= Len(a) THEN a[k] ELSE b[k - Len(a)]
  BY ConcatProperties
<1>2. /\ l \in Seq(Seq(Bytes)) /\ Len(l) = Len(a) /\ \A k \in 1 .. Len(a) : l[k] = Line(a[k])
      /\ m \in Seq(Seq(Bytes)) /\ Len(m) = Len(b) /\ \A k \in 1 .. Len(b) : m[k] = Line(b[k])
  BY LinesType
<1> HIDE DEF ab, l, m
<1>3. LinesOf(ab) = l \o m
  <2>1. /\ LinesOf(ab) \in Seq(Seq(Bytes)) /\ Len(LinesOf(ab)) = Len(ab)
        /\ \A k \in 1 .. Len(ab) : LinesOf(ab)[k] = Line(ab[k])
    BY <1>1, LinesType
  <2>2. /\ l \o m \in Seq(Seq(Bytes)) /\ Len(l \o m) = Len(l) + Len(m)
        /\ \A k \in 1 .. Len(l) + Len(m) : (l \o m)[k] = IF k <= Len(l) THEN l[k] ELSE m[k - Len(l)]
    <3> DEFINE T == Seq(Bytes)
    <3>1. l \in Seq(T) /\ m \in Seq(T)
      BY <1>2
    <3> HIDE DEF T
    <3>2. /\ l \o m \in Seq(T) /\ Len(l \o m) = Len(l) + Len(m)
          /\ \A k \in 1 .. Len(l) + Len(m) : (l \o m)[k] = IF k <= Len(l) THEN l[k] ELSE m[k - Len(l)]
      BY <3>1, ConcatProperties
    <3> QED BY <3>2 DEF T
  <2>3. ASSUME NEW k \in 1 .. Len(a) + Len(b)
        PROVE  LinesOf(ab)[k] = (l \o m)[k]
    <3>0. Len(a) \in Nat /\ Len(b) \in Nat
      OBVIOUS
    <3>1. CASE k <= Len(a)
      BY <3>0, <3>1, <1>1, <1>2, <2>1, <2>2
    <3>2. CASE ~ (k <= Len(a))
      <4>1. k - Len(a) \in 1 .. Len(b)
        BY <3>0, <3>2
      <4> QED BY <3>2, <4>1, <1>1, <1>2, <2>1, <2>2
    <3> QED BY <3>1, <3>2
  <2> QED BY <1>1, <1>2, <2>1, <2>2, <2>3, SeqEqual
<1>4. FlattenSeq(l \o m) = FlattenSeq(l) \o FlattenSeq(m)
  BY <1>2, FlattenConcat
<1>5. Text(ab) = Text(a) \o Text(b)
  BY <1>3, <1>4 DEF Text, LinesOf, l, m
<1>6. Text(a) \in Seq(Bytes) /\ Text(b) \in Seq(Bytes)
  BY TextType
<1>7. /\ Len(Text(a) \o Text(b)) = Len(Text(a)) + Len(Text(b))
      /\ \A k \in 1 .. Len(Text(a)) + Len(Text(b)) :
            (Text(a) \o Text(b))[k] = IF k <= Len(Text(a)) THEN Text(a)[k] ELSE Text(b)[k - Len(Text(a))]
  BY <1>6, ConcatProperties
<1>8. Len(Text(a)) \in Nat /\ Len(Text(b)) \in Nat
  BY <1>6
<1> QED BY <1>1, <1>5, <1>7, <1>8 DEF ab

LEMMA CutIs ==
    ASSUME NEW t \in Seq(Bytes)
    PROVE  /\ Cut(t) \in Seq(Bytes) /\ Len(Cut(t)) <= Len(t) /\ Len(Cut(t)) < LENGTH_MAX
           /\ Len(Cut(t)) = Len(t) \/ Len(Cut(t)) = LENGTH_MAX - 1
<1> DEFINE n == IF Len(t) < LENGTH_MAX THEN Len(t) ELSE LENGTH_MAX - 1
<1>1. n \in 0 .. Len(t) /\ n < LENGTH_MAX /\ (n = Len(t) \/ n = LENGTH_MAX - 1)
  BY TreeFacts
<1> HIDE DEF n
<1>2. SubSeq(t, 1, n) \in Seq(Bytes) /\ Len(SubSeq(t, 1, n)) = n
  BY <1>1, SubSeqProperties
<1> QED BY <1>1, <1>2 DEF Cut, n

-----------------------------------------------------------------------------
(* What a read copies out of text in an array of size bytes, which has the *)
(* text shown in front.                                                    *)
Array(total, text, size) ==
  [k \in 1 .. total |-> IF k <= Len(text) THEN text[k] ELSE IF k <= size THEN Nul ELSE Stray]

Wanted(from, count, total, text, size) ==
  IF from >= total THEN <<>>
  ELSE IF from + count <= total THEN SubSeq(Array(total, text, size), from + 1, from + count)
  ELSE SubSeq(Array(total, text, size), from + 1, total)

LEMMA WantedIs ==
    ASSUME NEW from \in Nat, NEW count \in Nat, NEW total \in Nat, NEW text \in Seq(Bytes),
           NEW size \in Nat
    PROVE  LET wanted == Wanted(from, count, total, text, size)
           IN /\ Len(wanted) \in Nat
              /\ wanted \in Seq(Bytes \cup {Stray})
              /\ Len(wanted) = IF from >= total THEN 0
                               ELSE IF from + count <= total THEN count ELSE total - from
              /\ \A k \in 1 .. Len(wanted) : from + k <= Len(text) => wanted[k] = text[from + k]
<1> DEFINE buffer == Array(total, text, size)
           S == Bytes \cup {Stray}
           upto == IF from + count <= total THEN from + count ELSE total
<1>1. Nul \in S
  BY DEF Bytes, Nul
<1>2. \A k \in 1 .. Len(text) : text[k] \in S
  OBVIOUS
<1>3. Stray \in S
  OBVIOUS
<1> HIDE DEF S
<1>4. ASSUME NEW k \in 1 .. total
      PROVE  (IF k <= Len(text) THEN text[k] ELSE IF k <= size THEN Nul ELSE Stray) \in S
  BY <1>1, <1>2, <1>3
<1>5. /\ buffer \in Seq(S) /\ Len(buffer) = total
      /\ \A k \in 1 .. total : k <= Len(text) => buffer[k] = text[k]
  BY <1>4 DEF Array
<1> HIDE DEF buffer
<1>6. CASE from >= total
  BY <1>6, EmptySeq DEF Wanted, S
<1>7. CASE ~ (from >= total)
  <2>1. from + 1 \in 1 .. Len(buffer) + 1 /\ upto \in from .. Len(buffer)
    BY <1>5, <1>7
  <2>2. upto - from = IF from + count <= total THEN count ELSE total - from
    OBVIOUS
  <2>3. Wanted(from, count, total, text, size) = SubSeq(buffer, from + 1, upto)
    BY <1>7 DEF Wanted, buffer
  <2> HIDE DEF upto
  <2> DEFINE w == SubSeq(buffer, from + 1, upto)
  <2>4. /\ w \in Seq(S) /\ Len(w) = upto - from
        /\ \A k \in 1 .. upto - from : w[k] = buffer[from + k]
    BY <1>5, <2>1, SubSeqProperties
  <2> HIDE DEF w
  <2>5. ASSUME NEW k \in 1 .. upto - from, from + k <= Len(text)
        PROVE  w[k] = text[from + k]
    <3>1. from + k \in 1 .. total
      BY <2>1, <1>5
    <3> QED BY <3>1, <2>4, <2>5, <1>5
  <2>6. upto - from \in Nat
    BY <2>1, <1>5
  <2> QED BY <2>2, <2>3, <2>4, <2>5, <2>6, <1>7 DEF S, w
<1> QED BY <1>6, <1>7

LEMMA WantedShows ==
    ASSUME NEW from \in Nat, NEW count \in Nat, NEW total \in Nat, NEW text \in Seq(Bytes),
           NEW size \in Nat, NEW shown \in Seq(Bytes), from <= Len(shown), Len(shown) <= total,
           Len(shown) <= Len(text), \A k \in 1 .. Len(shown) : text[k] = shown[k]
    PROVE  IsPrefix(SubSeq(shown, from + 1,
                           from + (IF from + count <= Len(shown) THEN count ELSE Len(shown) - from)),
                    Wanted(from, count, total, text, size))
<1> DEFINE asked == IF from + count <= Len(shown) THEN count ELSE Len(shown) - from
           S == Bytes \cup {Stray}
           a == SubSeq(shown, from + 1, from + asked)
           w == Wanted(from, count, total, text, size)
<1>1. asked \in 0 .. Len(shown) - from
  OBVIOUS
<1>2. /\ w \in Seq(S) /\ Len(w) \in Nat
      /\ Len(w) = IF from >= total THEN 0
                  ELSE IF from + count <= total THEN count ELSE total - from
      /\ \A k \in 1 .. Len(w) : from + k <= Len(text) => w[k] = text[from + k]
  BY WantedIs
<1>3. asked <= Len(w)
  BY <1>2
<1> HIDE DEF asked, w
<1>4. /\ a \in Seq(Bytes) /\ Len(a) = asked
      /\ \A k \in 1 .. asked : a[k] = shown[from + k]
  <2>1. from + 1 \in 1 .. Len(shown) + 1 /\ from + asked \in from .. Len(shown)
    BY <1>1
  <2>2. (from + asked) - (from + 1) + 1 = asked
    BY <1>1
  <2> QED BY <2>1, <2>2, <1>1, SubSeqProperties
<1> HIDE DEF a
<1>5. ASSUME NEW k \in 1 .. asked
      PROVE  a[k] = w[k]
  <2>1. k \in 1 .. Len(w) /\ from + k \in 1 .. Len(shown) /\ from + k <= Len(text)
    BY <1>1, <1>2, <1>3
  <2> QED BY <2>1, <1>2, <1>4
<1>6. a \in Seq(S)
  BY <1>4
<1>7. SubSeq(a, 1, Len(a)) = SubSeq(w, 1, Len(a))
  <2> HIDE DEF S
  <2>1. /\ SubSeq(a, 1, asked) \in Seq(S) /\ Len(SubSeq(a, 1, asked)) = asked
        /\ \A k \in 1 .. asked : SubSeq(a, 1, asked)[k] = a[k]
    BY <1>1, <1>4, <1>6, SubSeqProperties
  <2>2. /\ SubSeq(w, 1, asked) \in Seq(S) /\ Len(SubSeq(w, 1, asked)) = asked
        /\ \A k \in 1 .. asked : SubSeq(w, 1, asked)[k] = w[k]
    BY <1>1, <1>2, <1>3, SubSeqProperties
  <2>3. \A k \in 1 .. Len(SubSeq(a, 1, asked)) : SubSeq(a, 1, asked)[k] = SubSeq(w, 1, asked)[k]
    BY <2>1, <2>2, <1>5
  <2>4. SubSeq(a, 1, asked) = SubSeq(w, 1, asked)
    BY <2>1, <2>2, <2>3, SeqEqual
  <2> QED BY <2>4, <1>4
<1>8. IsPrefix(a, w)
  BY <1>3, <1>4, <1>7 DEF IsPrefix
<1> QED BY <1>8 DEF a, asked, w

-----------------------------------------------------------------------------
(* The inductive invariant.  In the list version, what a write left that   *)
(* nobody read stays behind the branch of the next write, and the total    *)
(* counts it for ever.  In the string version nothing stays.               *)

ListAsWritten ==
  /\ out_str = <<>> /\ Len(Text(message_list)) <= total_len
  /\ written # 0 /\ unread => \E rest \in Seq(Pids) : message_list = branchOf[written] \o rest

StringAsWritten ==
  /\ message_list = <<>>
  /\ written = 0 => out_str = <<>> /\ total_len = 0
  /\ written # 0 => /\ out_str = Cut(Text(branchOf[written]))
                    /\ total_len = Len(Text(branchOf[written]))

IInv ==
  /\ version \in {"list", "string"} /\ status \in {"loaded", "oops", "removed"}
  /\ message_list \in Seq(Pids) /\ out_str \in Seq(Bytes) /\ total_len \in Nat
  /\ position \in [Files -> Nat]
  /\ written \in Pids \cup {0} /\ unread \in BOOLEAN
  /\ version = "list" => ListAsWritten
  /\ version = "string" => StringAsWritten

LEMMA EmptyText == Text(<<>>) = <<>> /\ Len(Text(<<>>)) = 0
<1>1. <<>> \in Seq(Seq(Bytes)) /\ Len(<<>>) = 0
  OBVIOUS
<1>2. FlattenSeq(<<>>) = <<>>
  BY <1>1 DEF FlattenSeq
<1>3. [k \in DOMAIN <<>> |-> Line(<<>>[k])] = <<>>
  OBVIOUS
<1> QED BY <1>2, <1>3 DEF Text

(* What WalkToList puts before the list.                                   *)
LEMMA Walked ==
    ASSUME NEW p \in Pids, NEW stop \in 0 .. Len(branchOf[p])
    PROVE  /\ SubSeq(branchOf[p], stop + 1, Len(branchOf[p])) \in Seq(Pids)
           /\ stop = 0 => SubSeq(branchOf[p], stop + 1, Len(branchOf[p])) = branchOf[p]
<1> DEFINE b == branchOf[p]
           w == SubSeq(b, stop + 1, Len(b))
<1>1. b \in Seq(Pids)
  BY BranchIs
<1> HIDE DEF b
<1>2. stop + 1 \in 1 .. Len(b) + 1 /\ Len(b) \in stop .. Len(b)
  BY <1>1 DEF b
<1>3. /\ w \in Seq(Pids) /\ Len(w) = Len(b) - (stop + 1) + 1
      /\ \A k \in 1 .. Len(b) - (stop + 1) + 1 : w[k] = b[stop + 1 + k - 1]
  BY <1>1, <1>2, SubSeqProperties
<1> HIDE DEF w
<1>4. stop = 0 => w = b
  <2> SUFFICES ASSUME stop = 0
               PROVE  w = b
    OBVIOUS
  <2>1. Len(w) = Len(b) /\ \A k \in 1 .. Len(w) : w[k] = b[k]
    BY <1>1, <1>3
  <2> QED BY <1>1, <1>3, <2>1, SeqEqual
<1> QED BY <1>3, <1>4 DEF w, b

LEMMA InitIInv == Init => IInv
BY EmptyText, EmptySeq DEF Init, IInv, ListAsWritten, StringAsWritten

LEMMA ListWritten ==
    ASSUME IInv, NEW p \in Pids, WriteList(p)
    PROVE  IInv'
<1>1. PICK stop \in 0 .. Len(branchOf[p]) :
         WalkToList(p, stop) /\ Wrote(IF stop = 0 THEN p ELSE 0)
  BY DEF WriteList
<1> DEFINE w == SubSeq(branchOf[p], stop + 1, Len(branchOf[p]))
           old == message_list
<1>2. message_list' = w \o old /\ total_len' = total_len + Len(Text(w))
  BY <1>1 DEF WalkToList
<1>3. w \in Seq(Pids) /\ (stop = 0 => w = branchOf[p])
  BY Walked
<1>4. old \in Seq(Pids) /\ total_len \in Nat /\ version = "list" /\ Len(Text(old)) <= total_len
  BY DEF IInv, ListAsWritten, WriteList
<1> HIDE DEF w, old
<1>5. /\ message_list' \in Seq(Pids) /\ Len(Text(w)) \in Nat
      /\ Len(Text(message_list')) = Len(Text(w)) + Len(Text(old))
  BY <1>2, <1>3, <1>4, TextJoin, TextType
<1>6. total_len' \in Nat /\ Len(Text(message_list')) <= total_len'
  <2>1. Len(Text(old)) \in Nat
    BY <1>4, TextType
  <2> QED BY <1>2, <1>4, <1>5, <2>1
<1>7. /\ written' \in Pids \cup {0} /\ unread' \in BOOLEAN
      /\ written' # 0 => message_list' = branchOf[written'] \o old
  BY <1>1, <1>2, <1>3, TreeFacts DEF Wrote
<1>8. UNCHANGED <<version, out_str, position, status>>
  BY DEF WriteList
<1>9. ListAsWritten'
  <2>1. out_str' = <<>>
    BY <1>4, <1>8 DEF IInv, ListAsWritten
  <2>2. Len(Text(message_list))' <= total_len'
    BY <1>6 DEF Text, Line
  <2>3. (written # 0 /\ unread => \E rest \in Seq(Pids) : message_list = branchOf[written] \o rest)'
    BY <1>4, <1>7 DEF branchOf
  <2> QED BY <2>1, <2>2, <2>3 DEF ListAsWritten
<1> QED BY <1>4, <1>5, <1>6, <1>7, <1>8, <1>9 DEF IInv

LEMMA StringWritten ==
    ASSUME IInv, NEW p \in Pids, WriteString(p)
    PROVE  IInv'
<1> DEFINE t == Text(branchOf[p])
<1>1. t \in Seq(Bytes) /\ Len(t) \in Nat /\ Cut(t) \in Seq(Bytes)
  BY BranchIs, TextType, CutIs
<1>2. /\ out_str' = Cut(t) /\ total_len' = Len(t) /\ written' = p /\ unread' = TRUE
      /\ version = "string" /\ UNCHANGED <<version, message_list, position, status>>
  BY DEF WriteString, Wrote
<1>3. StringAsWritten'
  <2>1. message_list' = <<>> /\ written' # 0
    BY <1>2, TreeFacts DEF IInv, StringAsWritten
  <2> QED BY <1>2, <2>1 DEF StringAsWritten
<1> QED BY <1>1, <1>2, <1>3 DEF IInv

(* A read moves the position by what it returns.                           *)
LEMMA ReadMoves ==
    ASSUME IInv, NEW f \in Files, NEW n \in Counts, NEW text \in Seq(Bytes), NEW size \in Nat,
           simple_read_from_buffer(f, n, text, size)
    PROVE  /\ position' \in [Files -> Nat]
           /\ got' = Wanted(position[f], n, total_len, text, size)
<1> DEFINE w == Wanted(position[f], n, total_len, text, size)
<1>1. position \in [Files -> Nat] /\ position[f] \in Nat /\ total_len \in Nat /\ n \in Nat
  BY TreeFacts DEF IInv
<1>2. got' = w /\ position' = [position EXCEPT ![f] = @ + Len(w)]
  BY DEF simple_read_from_buffer, Wanted, Array
<1>3. Len(w) \in Nat
  BY <1>1, WantedIs
<1> HIDE DEF w
<1> QED BY <1>1, <1>2, <1>3 DEF w

LEMMA NextIInv == IInv /\ [Next]_vars => IInv'
<1> SUFFICES ASSUME IInv, [Next]_vars
             PROVE  IInv'
  OBVIOUS
<1>1. ASSUME NEW p \in Pids, WriteList(p)
      PROVE  IInv'
  BY <1>1, ListWritten
<1>2. ASSUME NEW p \in Pids, WriteString(p)
      PROVE  IInv'
  BY <1>2, StringWritten
<1>3. CASE WriteUnknownToList
  BY <1>3 DEF WriteUnknownToList, IInv, ListAsWritten, StringAsWritten
<1>4. CASE WriteUnknownToString
  BY <1>4, EmptySeq DEF WriteUnknownToString, Wrote, IInv, ListAsWritten, StringAsWritten
<1>5. ASSUME NEW f \in Files, Open(f)
      PROVE  IInv'
  BY <1>5 DEF Open, IInv, ListAsWritten, StringAsWritten
<1>6. ASSUME NEW f \in Files, NEW n \in Counts, ReadList(f, n)
      PROVE  IInv'
  <2>1. Text(message_list) \in Seq(Bytes) /\ total_len + 1 \in Nat
    BY TextType DEF IInv
  <2>2. position' \in [Files -> Nat]
    BY <1>6, <2>1, ReadMoves DEF ReadList
  <2>3. ListAsWritten'
    <3>1. Len(Text(message_list))' = 0
      BY <1>6, EmptyText DEF ReadList
    <3>2. UNCHANGED <<version, out_str, total_len, written, status>> /\ version = "list"
      BY <1>6 DEF ReadList
    <3>3. out_str' = <<>> /\ total_len' \in Nat /\ unread' = FALSE
      BY <1>6, <3>2 DEF IInv, ListAsWritten, ReadList
    <3> QED BY <3>1, <3>3 DEF ListAsWritten
  <2>4. message_list' = <<>> /\ unread' \in BOOLEAN
    BY <1>6 DEF ReadList
  <2>5. UNCHANGED <<version, out_str, total_len, written, status>> /\ version = "list"
    BY <1>6 DEF ReadList
  <2> QED BY <2>2, <2>3, <2>4, <2>5, EmptySeq DEF IInv
<1>7. ASSUME NEW f \in Files, NEW n \in Counts, ReadString(f, n)
      PROVE  IInv'
  <2>1. out_str \in Seq(Bytes) /\ LENGTH_MAX \in Nat
    BY TreeFacts DEF IInv
  <2>2. position' \in [Files -> Nat]
    BY <1>7, <2>1, ReadMoves DEF ReadString
  <2> QED BY <1>7, <2>2 DEF ReadString, IInv, StringAsWritten
<1>8. CASE Unload
  BY <1>8 DEF Unload, IInv, ListAsWritten, StringAsWritten
<1>9. CASE UNCHANGED vars
  BY <1>9 DEF vars, IInv, ListAsWritten, StringAsWritten
<1> QED BY <1>1, <1>2, <1>3, <1>4, <1>5, <1>6, <1>7, <1>8, <1>9 DEF Next

-----------------------------------------------------------------------------
(* The list or the string is what the writes and reads so far have made of *)
(* it, in every state (write_pid_to_input, read_output).                   *)
THEOREM Invariant == Spec => []IInv
BY InitIInv, NextIInv, PTL DEF Spec

(* Every variable has its type; the buffer of read_output has room for all *)
(* messages of the list, and out_str has as much of the total as it can.   *)
THEOREM TypeCorrect == Spec => []TypeOK
<1>1. ASSUME IInv
      PROVE  TypeOK
  <2>1. CASE version = "list"
    <3>1. Len(out_str) = 0
      BY <1>1, <2>1 DEF IInv, ListAsWritten
    <3> QED BY <1>1, <2>1, <3>1, TreeFacts DEF IInv, ListAsWritten, TypeOK
  <2>2. CASE version = "string"
    <3>1. Len(Text(message_list)) = 0
      BY <1>1, <2>2, EmptyText DEF IInv, StringAsWritten
    <3>2. CASE written = 0
      <4>1. Len(out_str) = 0 /\ total_len = 0
        BY <1>1, <2>2, <3>2 DEF IInv, StringAsWritten
      <4> QED BY <1>1, <2>2, <3>1, <4>1, TreeFacts DEF IInv, TypeOK
    <3>3. CASE written # 0
      <4> DEFINE t == Text(branchOf[written])
      <4>1. t \in Seq(Bytes)
        BY <1>1, <3>3, BranchIs, TextType DEF IInv
      <4>2. out_str = Cut(t) /\ total_len = Len(t)
        BY <1>1, <2>2, <3>3 DEF IInv, StringAsWritten
      <4> HIDE DEF t
      <4>3. Len(out_str) < LENGTH_MAX /\ (Len(out_str) = total_len \/ Len(out_str) = LENGTH_MAX - 1)
        BY <4>1, <4>2, CutIs
      <4> QED BY <1>1, <2>2, <3>1, <4>3 DEF IInv, TypeOK
    <3> QED BY <3>2, <3>3
  <2> QED BY <1>1, <2>1, <2>2 DEF IInv
<1> QED BY <1>1, Invariant, PTL

(* A read returns what was asked for of the branch of the pid written      *)
(* last: in the list version the first read from the start, whatever older *)
(* writes left behind it; in the string version every read, up to where    *)
(* out_str ends.                                                           *)
THEOREM Reads == Spec => ReadsBranch
<1>1. ASSUME IInv, NEW f \in Files, NEW n \in Counts, written # 0, position[f] <= Len(Shown),
             (ReadList(f, n) /\ unread /\ position[f] = 0) \/ ReadString(f, n)
      PROVE  LET from  == position[f]
                 asked == IF from + n <= Len(Shown) THEN n ELSE Len(Shown) - from
             IN IsPrefix(SubSeq(Shown, from + 1, from + asked), got')
  <2> DEFINE t == Text(branchOf[written])
             from == position[f]
             asked == IF from + n <= Len(Shown) THEN n ELSE Len(Shown) - from
  <2>1. branchOf[written] \in Seq(Pids) /\ t \in Seq(Bytes) /\ Len(t) \in Nat
    BY <1>1, BranchIs, TextType DEF IInv
  <2>2. from \in Nat /\ n \in Nat /\ total_len \in Nat /\ LENGTH_MAX \in Nat
    BY <1>1, TreeFacts DEF IInv
  <2>3. CASE ReadList(f, n) /\ unread
    <3>1. version = "list" /\ ListAsWritten
      BY <1>1, <2>3 DEF IInv, ReadList
    <3>2. Shown = t
      BY <3>1 DEF Shown
    <3>3. PICK rest \in Seq(Pids) : message_list = branchOf[written] \o rest
      BY <1>1, <2>3, <3>1 DEF ListAsWritten
    <3> DEFINE text == Text(message_list)
    <3>4. /\ text \in Seq(Bytes) /\ Len(t) <= Len(text) /\ Len(t) <= total_len
          /\ \A k \in 1 .. Len(t) : text[k] = t[k]
      <4>1. text \in Seq(Bytes)
        BY <1>1, TextType DEF IInv
      <4>2. Len(text) = Len(t) + Len(Text(rest)) /\ \A k \in 1 .. Len(t) : text[k] = t[k]
        BY <2>1, <3>3, TextJoin
      <4>3. Len(Text(rest)) \in Nat /\ Len(text) <= total_len
        BY <3>1, TextType DEF ListAsWritten
      <4> QED BY <2>1, <2>2, <4>1, <4>2, <4>3
    <3>5. got' = Wanted(from, n, total_len, text, total_len + 1)
      BY <1>1, <2>2, <2>3, <3>4, ReadMoves DEF ReadList
    <3> HIDE DEF t, text, from
    <3>6. IsPrefix(SubSeq(t, from + 1, from + (IF from + n <= Len(t) THEN n ELSE Len(t) - from)),
                   Wanted(from, n, total_len, text, total_len + 1))
      <4>1. from <= Len(t) /\ total_len + 1 \in Nat
        BY <1>1, <2>2, <3>2 DEF from
      <4> QED BY <2>1, <2>2, <3>4, <4>1, WantedShows
    <3> QED BY <3>2, <3>5, <3>6 DEF from
  <2>4. CASE ReadString(f, n)
    <3>1. version = "string" /\ StringAsWritten
      BY <1>1, <2>4 DEF IInv, ReadString
    <3>2. Shown = Cut(t) /\ out_str = Shown /\ total_len = Len(t)
      BY <1>1, <3>1 DEF Shown, StringAsWritten
    <3> DEFINE shown == Shown
    <3>3. shown \in Seq(Bytes) /\ Len(shown) <= total_len
      BY <2>1, <3>2, CutIs
    <3>4. got' = Wanted(from, n, total_len, shown, LENGTH_MAX)
      BY <1>1, <2>2, <2>4, <3>2, <3>3, ReadMoves DEF ReadString
    <3> HIDE DEF t, shown, from
    <3>5. IsPrefix(SubSeq(shown, from + 1, from + (IF from + n <= Len(shown) THEN n ELSE Len(shown) - from)),
                   Wanted(from, n, total_len, shown, LENGTH_MAX))
      <4>1. from <= Len(shown) /\ Len(shown) <= Len(shown)
        BY <1>1, <2>2, <3>3 DEF from, shown
      <4> QED BY <2>2, <3>3, <4>1, WantedShows
    <3> QED BY <3>4, <3>5 DEF from, shown
  <2> QED BY <1>1, <2>3, <2>4
<1> DEFINE Read(f, n) ==
      LET from  == position[f]
          asked == IF from + n <= Len(Shown) THEN n ELSE Len(Shown) - from
      IN /\ written # 0 /\ from <= Len(Shown)
         /\ (ReadList(f, n) /\ unread /\ from = 0) \/ ReadString(f, n)
         => IsPrefix(SubSeq(Shown, from + 1, from + asked), got')
<1>2. IInv => [\A f \in Files, n \in Counts : Read(f, n)]_vars
  BY <1>1
<1> QED BY <1>2, Invariant, PTL DEF ReadsBranch
=============================================================================
