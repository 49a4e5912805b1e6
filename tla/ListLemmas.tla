----------------------------- MODULE ListLemmas -----------------------------
(***************************************************************************)
(* Least and greatest elements of sets of numbers; the operators of        *)
(* SequencesExt that the linked lists are modelled with, by the elements   *)
(* of their results; sums over finite sets; and sequences put together by  *)
(* FlattenSeq.                                                             *)
(***************************************************************************)
EXTENDS Integers, Sequences, SequencesExt, SequenceTheorems, FiniteSetTheorems,
        WellFoundedInduction, TLAPS

(* Min of FiniteSetsExt, for a set of numbers that need not be finite.     *)
LEMMA LeastOfSet ==
    ASSUME NEW S \in SUBSET Nat, S # {}
    PROVE  Min(S) \in S /\ \A k \in S : Min(S) <= k
<1>1. \E m \in S : \A k \in S : ~ (<<k, m>> \in OpToRel(<, Nat))
  BY WFMin, NatLessThanWellFounded, Zenon
<1>2. \E m \in S : \A k \in S : m <= k
  <2>1. PICK m \in S : \A k \in S : ~ (<<k, m>> \in OpToRel(<, Nat))
    BY <1>1
  <2>2. \A k \in S : ~ (k < m)
    <3> SUFFICES ASSUME NEW k \in S, k < m
                 PROVE  FALSE
      OBVIOUS
    <3>1. <<k, m>> \in Nat \X Nat /\ <<k, m>>[1] = k /\ <<k, m>>[2] = m
      OBVIOUS
    <3>2. <<k, m>> \in {ss \in Nat \X Nat : ss[1] < ss[2]}
      BY <3>1
    <3> QED BY <3>2, <2>1, Zenon DEF OpToRel
  <2> QED BY <2>2
<1> QED BY <1>2, Zenon DEF Min

(* Max of FiniteSetsExt, for a set of numbers up to n.                     *)
LEMMA GreatestOfSet ==
    ASSUME NEW n \in Nat, NEW S \in SUBSET (0 .. n), S # {}
    PROVE  Max(S) \in S /\ \A k \in S : k <= Max(S)
<1> DEFINE T == {n - k : k \in S}
<1>0. \A k \in S : k \in Nat /\ k <= n
  OBVIOUS
<1>1. T \in SUBSET Nat /\ T # {}
  <2>1. \A k \in S : n - k \in Nat
    BY <1>0
  <2> QED BY <2>1
<1>2. Min(T) \in T /\ \A k \in T : Min(T) <= k
  <2> HIDE DEF T
  <2> QED BY <1>1, LeastOfSet
<1>3. \E m \in S : \A k \in S : m >= k
  <2>1. PICK m \in S : Min(T) = n - m
    BY <1>2
  <2>2. ASSUME NEW k \in S PROVE m >= k
    <3>1. n - k \in T
      OBVIOUS
    <3>2. n - m <= n - k /\ m \in Nat /\ k \in Nat
      BY <1>0, <1>2, <2>1, <3>1
    <3> QED BY <3>2
  <2> QED BY <2>2
<1>4. Max(S) \in S /\ \A k \in S : Max(S) >= k
  <2> HIDE DEF T
  <2> QED BY <1>3, Zenon DEF Max
<1> QED BY <1>4

(* What SelectInSeq of SequencesExt returns: the least of some places, or 0.*)
LEMMA FirstPlace ==
    ASSUME NEW n \in Nat, NEW I \in SUBSET (1 .. n),
           NEW cur, cur = IF I # {} THEN Min(I) ELSE 0
    PROVE  /\ cur \in 0 .. n
           /\ cur = 0 <=> I = {}
           /\ cur # 0 => cur \in I /\ cur \in 1 .. n
           /\ \A k \in I : cur <= k
<1>1. CASE I = {}
  BY <1>1
<1>2. CASE I # {}
  <2>1. I \in SUBSET Nat
    OBVIOUS
  <2>2. cur \in I /\ \A k \in I : cur <= k
    BY <1>2, <2>1, LeastOfSet
  <2> QED BY <1>2, <2>2
<1> QED BY <1>1, <1>2

(* InsertAt of SequencesExt, by its elements.                              *)
LEMMA Inserted ==
    ASSUME NEW S, NEW s \in Seq(S), NEW i \in 1 .. Len(s), NEW e \in S
    PROVE  /\ InsertAt(s, i, e) \in Seq(S)
           /\ Len(InsertAt(s, i, e)) = Len(s) + 1
           /\ \A k \in 1 .. i - 1 : InsertAt(s, i, e)[k] = s[k]
           /\ InsertAt(s, i, e)[i] = e
           /\ \A k \in i + 1 .. Len(s) + 1 : InsertAt(s, i, e)[k] = s[k - 1]
<1> DEFINE front == SubSeq(s, 1, i - 1)
           back == SubSeq(s, i, Len(s))
<1>1. /\ front \in Seq(S) /\ Len(front) = i - 1
      /\ \A k \in 1 .. i - 1 : front[k] = s[k]
  BY SubSeqProperties
<1>2. /\ back \in Seq(S) /\ Len(back) = Len(s) - i + 1
      /\ \A k \in 1 .. Len(s) - i + 1 : back[k] = s[i + k - 1]
  BY SubSeqProperties
<1>3. InsertAt(s, i, e) = front \o <<e>> \o back
  BY DEF InsertAt
<1> HIDE DEF front, back
<1> DEFINE most == front \o <<e>>
           whole == most \o back
<1>4. /\ most \in Seq(S) /\ Len(most) = i
      /\ \A k \in 1 .. i : most[k] = IF k < i THEN s[k] ELSE e
  <2>1. <<e>> \in Seq(S) /\ Len(<<e>>) = 1 /\ <<e>>[1] = e
    OBVIOUS
  <2>2. /\ most \in Seq(S) /\ Len(most) = (i - 1) + 1
        /\ \A k \in 1 .. (i - 1) + 1 : most[k] = IF k <= i - 1 THEN front[k] ELSE <<e>>[k - (i - 1)]
    BY <1>1, <2>1, ConcatProperties
  <2> HIDE DEF most
  <2>3. (i - 1) + 1 = i
    OBVIOUS
  <2>4. ASSUME NEW k \in 1 .. i
        PROVE  most[k] = IF k < i THEN s[k] ELSE e
    <3>1. CASE k < i
      BY <1>1, <2>2, <2>3, <3>1
    <3>2. CASE k = i
      <4>1. most[k] = <<e>>[k - (i - 1)] /\ k - (i - 1) = 1
        BY <2>2, <2>3, <3>2
      <4> QED BY <4>1, <2>1, <3>2
    <3> QED BY <3>1, <3>2
  <2> QED BY <2>2, <2>3, <2>4
<1> HIDE DEF most
<1>5. /\ whole \in Seq(S) /\ Len(whole) = i + (Len(s) - i + 1)
      /\ \A k \in 1 .. Len(whole) : whole[k] = IF k <= i THEN most[k] ELSE back[k - i]
  <2>1. most \in Seq(S) /\ back \in Seq(S)
    BY <1>2, <1>4
  <2>2. /\ whole \in Seq(S) /\ Len(whole) = Len(most) + Len(back)
        /\ \A k \in 1 .. Len(most) + Len(back) :
              whole[k] = IF k <= Len(most) THEN most[k] ELSE back[k - Len(most)]
    BY <2>1, ConcatProperties
  <2> HIDE DEF whole
  <2> QED BY <1>2, <1>4, <2>2
<1> HIDE DEF whole
<1>6. InsertAt(s, i, e) = whole
  BY <1>3 DEF most, whole
<1>7. Len(whole) = Len(s) + 1
  BY <1>5
<1>8. \A k \in 1 .. i - 1 : whole[k] = s[k]
  BY <1>4, <1>5, <1>7
<1>9. whole[i] = e
  BY <1>4, <1>5, <1>7
<1>10. ASSUME NEW k \in i + 1 .. Len(s) + 1
       PROVE  whole[k] = s[k - 1]
  <2>1. k \in 1 .. Len(whole) /\ ~ (k <= i) /\ k - i \in 1 .. Len(s) - i + 1
    BY <1>7
  <2>2. whole[k] = back[k - i] /\ back[k - i] = s[i + (k - i) - 1]
    BY <1>2, <1>5, <2>1
  <2>3. i + (k - i) - 1 = k - 1
    OBVIOUS
  <2> QED BY <2>2, <2>3
<1> QED BY <1>5, <1>6, <1>7, <1>8, <1>9, <1>10

-----------------------------------------------------------------------------
(* RemoveAt of SequencesExt, by its elements.                              *)
LEMMA Removed ==
    ASSUME NEW S, NEW s \in Seq(S), NEW i \in 1 .. Len(s)
    PROVE  /\ RemoveAt(s, i) \in Seq(S)
           /\ Len(RemoveAt(s, i)) = Len(s) - 1
           /\ \A k \in 1 .. Len(s) - 1 :
                 RemoveAt(s, i)[k] = IF k < i THEN s[k] ELSE s[k + 1]
<1> DEFINE front == SubSeq(s, 1, i - 1)
           back == SubSeq(s, i + 1, Len(s))
           whole == front \o back
<1>1. /\ front \in Seq(S) /\ Len(front) = i - 1
      /\ \A k \in 1 .. i - 1 : front[k] = s[k]
  BY SubSeqProperties
<1>2. /\ back \in Seq(S) /\ Len(back) = Len(s) - i
      /\ \A k \in 1 .. Len(s) - i : back[k] = s[i + k]
  BY SubSeqProperties
<1>3. RemoveAt(s, i) = whole
  BY DEF RemoveAt
<1> HIDE DEF front, back
<1>4. /\ whole \in Seq(S) /\ Len(whole) = (i - 1) + (Len(s) - i)
      /\ \A k \in 1 .. (i - 1) + (Len(s) - i) :
            whole[k] = IF k <= i - 1 THEN front[k] ELSE back[k - (i - 1)]
  <2>1. front \in Seq(S) /\ back \in Seq(S)
    BY <1>1, <1>2
  <2>2. /\ whole \in Seq(S) /\ Len(whole) = Len(front) + Len(back)
        /\ \A k \in 1 .. Len(front) + Len(back) :
              whole[k] = IF k <= Len(front) THEN front[k] ELSE back[k - Len(front)]
    BY <2>1, ConcatProperties
  <2> HIDE DEF whole
  <2> QED BY <1>1, <1>2, <2>2
<1> HIDE DEF whole
<1>5. (i - 1) + (Len(s) - i) = Len(s) - 1
  OBVIOUS
<1>6. ASSUME NEW k \in 1 .. Len(s) - 1
      PROVE  whole[k] = IF k < i THEN s[k] ELSE s[k + 1]
  <2>1. CASE k < i
    <3>1. k <= i - 1 /\ k \in 1 .. i - 1 /\ k \in 1 .. (i - 1) + (Len(s) - i)
      BY <2>1
    <3> QED BY <1>1, <1>4, <2>1, <3>1
  <2>2. CASE k >= i
    <3>1. whole[k] = back[k - (i - 1)]
      BY <1>4, <1>5, <2>2
    <3>2. k - (i - 1) \in 1 .. Len(s) - i /\ i + (k - (i - 1)) = k + 1
      BY <2>2
    <3>3. back[k - (i - 1)] = s[i + (k - (i - 1))]
      BY <1>2, <3>2
    <3> QED BY <2>2, <3>1, <3>2, <3>3
  <2> QED BY <2>1, <2>2
<1> QED BY <1>3, <1>4, <1>5, <1>6

(* An element put before place at, or last, and where it comes to stand.   *)
Put(s, at, e)   == IF at = 0 THEN Append(s, e) ELSE InsertAt(s, at, e)
PutPlace(s, at) == IF at = 0 THEN Len(s) + 1 ELSE at

IsPlaced(S, s, e, new, r) ==
  /\ r \in Seq(S) /\ Len(r) = Len(s) + 1 /\ new \in 1 .. Len(s) + 1
  /\ r[new] = e
  /\ \A k \in 1 .. Len(s) : k < new => r[k] = s[k]
  /\ \A k \in 1 .. Len(s) : k >= new => r[k + 1] = s[k]

(* Put places an element where PutPlace says and shifts what follows.      *)
LEMMA Placed ==
    ASSUME NEW S, NEW s \in Seq(S), NEW at \in 0 .. Len(s), NEW e \in S
    PROVE  IsPlaced(S, s, e, PutPlace(s, at), Put(s, at, e))
<1>1. CASE at = 0
  <2>1. PICK r : r = Append(s, e)
    OBVIOUS
  <2>2. /\ r \in Seq(S) /\ Len(r) = Len(s) + 1
        /\ \A k \in 1 .. Len(s) : r[k] = s[k]
        /\ r[Len(s) + 1] = e
    BY <2>1, AppendProperties
  <2>3. IsPlaced(S, s, e, Len(s) + 1, r)
    BY <2>2 DEF IsPlaced
  <2> QED BY <1>1, <2>1, <2>3, Zenon DEF Put, PutPlace
<1>2. ASSUME at \in 1 .. Len(s)
      PROVE  IsPlaced(S, s, e, at, InsertAt(s, at, e))
  <2>1. PICK r : r = InsertAt(s, at, e)
    OBVIOUS
  <2>2. /\ r \in Seq(S) /\ Len(r) = Len(s) + 1
        /\ \A k \in 1 .. at - 1 : r[k] = s[k]
        /\ r[at] = e
        /\ \A k \in at + 1 .. Len(s) + 1 : r[k] = s[k - 1]
    BY <1>2, <2>1, Inserted, SMTT(30)
  <2>3. ASSUME NEW k \in 1 .. Len(s), k >= at
        PROVE  r[k + 1] = s[k]
    <3>1. k + 1 \in at + 1 .. Len(s) + 1 /\ (k + 1) - 1 = k
      BY <1>2, <2>3
    <3>2. r[k + 1] = s[(k + 1) - 1]
      BY <2>2, <3>1
    <3> QED BY <3>1, <3>2
  <2>4. \A k \in 1 .. Len(s) : k < at => k \in 1 .. at - 1
    BY <1>2
  <2>5. IsPlaced(S, s, e, at, r)
    BY <1>2, <2>2, <2>3, <2>4 DEF IsPlaced
  <2> QED BY <2>1, <2>5
<1>3. CASE at # 0
  <2>1. at \in 1 .. Len(s)
    BY <1>3
  <2> QED BY <1>2, <1>3, <2>1, Zenon DEF Put, PutPlace
<1> QED BY <1>1, <1>3
-----------------------------------------------------------------------------
(* Sums over the sets of a finite universe U.                              *)

(* G sums the weights w of the elements of every set.                      *)
Sums(U, w, G) ==
    /\ G \in [SUBSET U -> Nat]
    /\ G[{}] = 0
    /\ \A s \in SUBSET U : \A n \in s : G[s] = w[n] + G[s \ {n}]

(* The sums when the weight of one element changes.                        *)
Resummed(U, G, n, b) ==
    [s \in SUBSET U |-> IF n \in s THEN G[s \ {n}] + b ELSE G[s]]

(* Giving the element n the weight b changes the sums as Resummed says.    *)
LEMMA SumChanges ==
    ASSUME NEW U, NEW w \in [U -> Nat], NEW G, Sums(U, w, G), NEW n \in U, NEW b \in Nat
    PROVE  Sums(U, [w EXCEPT ![n] = b], Resummed(U, G, n, b))
<1> PICK H : H = Resummed(U, G, n, b)
  OBVIOUS
<1> PICK v : v = [w EXCEPT ![n] = b]
  OBVIOUS
<1>1. v \in [U -> Nat] /\ v[n] = b /\ \A m \in U : m # n => v[m] = w[m]
  OBVIOUS
<1>2. \A s \in SUBSET U : s \ {n} \in SUBSET U /\ G[s] \in Nat
  BY DEF Sums
<1>3. \A s \in SUBSET U : H[s] = IF n \in s THEN G[s \ {n}] + b ELSE G[s]
  BY DEF Resummed
<1>4. H \in [SUBSET U -> Nat]
  <2>1. \A s \in SUBSET U : (IF n \in s THEN G[s \ {n}] + b ELSE G[s]) \in Nat
    BY <1>2
  <2>2. H = [s \in SUBSET U |-> IF n \in s THEN G[s \ {n}] + b ELSE G[s]]
    BY DEF Resummed
  <2> QED BY <2>1, <2>2
<1>5. H[{}] = 0
  BY <1>3 DEF Sums
<1>6. ASSUME NEW s \in SUBSET U, NEW m \in s
      PROVE  H[s] = v[m] + H[s \ {m}]
  <2>1. s \ {m} \in SUBSET U /\ s \ {n} \in SUBSET U /\ m \in U
    OBVIOUS
  <2>2. CASE m = n
    <3>1. H[s] = G[s \ {n}] + b /\ H[s \ {m}] = G[s \ {n}]
      BY <1>3, <2>1, <2>2
    <3>2. G[s \ {n}] \in Nat
      BY <1>2
    <3> QED BY <3>1, <3>2, <1>1, <2>2
  <2>3. CASE m # n /\ n \notin s
    <3>1. H[s] = G[s] /\ H[s \ {m}] = G[s \ {m}]
      BY <1>3, <2>1, <2>3
    <3>2. G[s] = w[m] + G[s \ {m}]
      BY DEF Sums
    <3> QED BY <3>1, <3>2, <2>1, <2>3, <1>1
  <2>4. CASE m # n /\ n \in s
    <3>1. m \in s \ {n} /\ n \in s \ {m}
      BY <2>4
    <3>2. H[s] = G[s \ {n}] + b /\ H[s \ {m}] = G[(s \ {m}) \ {n}] + b
      BY <1>3, <2>1, <3>1
    <3>3. (s \ {m}) \ {n} = (s \ {n}) \ {m}
      OBVIOUS
    <3>4. G[s \ {n}] = w[m] + G[(s \ {n}) \ {m}] /\ w[m] \in Nat /\ G[(s \ {n}) \ {m}] \in Nat
      <4> PICK r \in SUBSET U : r = s \ {n}
        BY <2>1
      <4>1. m \in r
        BY <3>1
      <4>2. G[r] = w[m] + G[r \ {m}]
        BY <4>1 DEF Sums
      <4>3. w[m] \in Nat /\ G[r \ {m}] \in Nat
        BY <2>1 DEF Sums
      <4> QED BY <4>2, <4>3
    <3>5. v[m] = w[m]
      BY <1>1, <2>1, <2>4
    <3> PICK c \in Nat : c = G[(s \ {n}) \ {m}]
      BY <3>4
    <3>6. H[s] = (w[m] + c) + b /\ H[s \ {m}] = c + b
      BY <3>2, <3>3, <3>4
    <3> QED BY <3>4, <3>5, <3>6
  <2> QED BY <2>2, <2>3, <2>4
<1> QED BY <1>4, <1>5, <1>6 DEF Sums

(* The function with which FoldSet adds up a set.                          *)
IsSum(w, S, f) ==
    f = [s \in SUBSET S |-> IF s = {} THEN 0
                            ELSE w[CHOOSE x \in s : TRUE] + f[s \ {CHOOSE x \in s : TRUE}]]

SumsBelow(G, S) == [s \in SUBSET S |-> G[s]]

(* A sum function is one that adds up as FoldSet does.                     *)
LEMMA SumAddsUp ==
    ASSUME NEW U, NEW w \in [U -> Nat], NEW G, Sums(U, w, G), NEW S \in SUBSET U
    PROVE  IsSum(w, S, SumsBelow(G, S))
<1> PICK F : F = [s \in SUBSET S |-> G[s]]
  OBVIOUS
<1>1. \A s \in SUBSET S : s # {} => /\ (CHOOSE x \in s : TRUE) \in s
                                    /\ s \ {CHOOSE x \in s : TRUE} \in SUBSET S
  OBVIOUS
<1>2. \A s \in SUBSET S :
         F[s] = IF s = {} THEN 0
                ELSE w[CHOOSE x \in s : TRUE] + F[s \ {CHOOSE x \in s : TRUE}]
  <2> SUFFICES ASSUME NEW s \in SUBSET S
               PROVE  F[s] = IF s = {} THEN 0
                             ELSE w[CHOOSE x \in s : TRUE] + F[s \ {CHOOSE x \in s : TRUE}]
    OBVIOUS
  <2>1. CASE s = {}
    BY <2>1 DEF Sums
  <2>2. CASE s # {}
    <3> PICK x \in s : x = CHOOSE y \in s : TRUE
      BY <2>2, <1>1
    <3>1. s \ {x} \in SUBSET S /\ F[s \ {x}] = G[s \ {x}] /\ F[s] = G[s]
      OBVIOUS
    <3>2. G[s] = w[x] + G[s \ {x}]
      BY DEF Sums
    <3> QED BY <3>1, <3>2, <2>2
  <2> QED BY <2>1, <2>2
<1>3. IsSum(w, S, F)
  BY <1>2 DEF IsSum
<1> QED BY <1>3 DEF SumsBelow

(* No other function does, of a finite set.                                *)
LEMMA SumIsOne ==
    ASSUME NEW w, NEW S, IsFiniteSet(S), NEW F, IsSum(w, S, F), NEW f, IsSum(w, S, f)
    PROVE  f = F
<1>1. \A s \in SUBSET S : s # {} => /\ (CHOOSE x \in s : TRUE) \in s
                                    /\ s \ {CHOOSE x \in s : TRUE} \in SUBSET S
  OBVIOUS
<1>2. /\ DOMAIN F = SUBSET S /\ F = [s \in SUBSET S |-> F[s]]
      /\ \A s \in SUBSET S : F[s] = IF s = {} THEN 0
            ELSE w[CHOOSE x \in s : TRUE] + F[s \ {CHOOSE x \in s : TRUE}]
  BY DEF IsSum
<1>3. /\ DOMAIN f = SUBSET S /\ f = [s \in SUBSET S |-> f[s]]
      /\ \A s \in SUBSET S : f[s] = IF s = {} THEN 0
            ELSE w[CHOOSE x \in s : TRUE] + f[s \ {CHOOSE x \in s : TRUE}]
  BY DEF IsSum
<1> PICK B : B = {s \in SUBSET S : f[s] # F[s]}
  OBVIOUS
<1> PICK K : K = {Cardinality(s) : s \in B}
  OBVIOUS
<1>4. \A s \in SUBSET S : IsFiniteSet(s) /\ Cardinality(s) \in Nat
  BY FS_Subset, FS_CardinalityType
<1>5. B = {}
  <2> SUFFICES ASSUME B # {} PROVE FALSE
    OBVIOUS
  <2>1. K \in SUBSET Nat /\ K # {}
    BY <1>4
  <2>2. Min(K) \in K /\ \A k \in K : Min(K) <= k
    BY <2>1, LeastOfSet
  <2>3. PICK s \in B : Min(K) = Cardinality(s)
    BY <2>2
  <2>4. s \in SUBSET S /\ f[s] # F[s] /\ IsFiniteSet(s)
    BY <1>4
  <2>5. s # {}
    BY <2>4, <1>3, <1>2
  <2> PICK x \in s : x = CHOOSE y \in s : TRUE
    BY <2>4, <2>5, <1>1
  <2>6. s \ {x} \in SUBSET S /\ Cardinality(s \ {x}) = Cardinality(s) - 1
    BY <2>4, FS_RemoveElement
  <2>7. s \ {x} \notin B
    <3>1. Cardinality(s) \in Nat /\ ~ (Cardinality(s) <= Cardinality(s) - 1)
      BY <1>4, <2>4
    <3>2. ASSUME NEW r \in B PROVE Cardinality(r) \in K
      OBVIOUS
    <3> QED BY <2>2, <2>3, <2>6, <3>1, <3>2
  <2>8. f[s \ {x}] = F[s \ {x}]
    BY <2>6, <2>7
  <2>9. f[s] = w[x] + f[s \ {x}] /\ F[s] = w[x] + F[s \ {x}]
    BY <2>4, <2>5, <1>3, <1>2
  <2> QED BY <2>4, <2>8, <2>9
<1> QED BY <1>3, <1>5, <1>2

(* An addition of the weights of a set.                                    *)
SumOf(w, S) == FoldSet(LAMBDA n, sum : w[n] + sum, 0, S)

(* The fold that adds up a set is the value of the sum function.           *)
LEMMA SumIs ==
    ASSUME NEW U, IsFiniteSet(U), NEW w \in [U -> Nat], NEW G, Sums(U, w, G), NEW S \in SUBSET U
    PROVE  SumOf(w, S) = G[S]
<1> PICK F : F = SumsBelow(G, S)
  OBVIOUS
<1>1. SumOf(w, S) = (CHOOSE f : IsSum(w, S, f))[S]
  BY DEF SumOf, FoldSet, MapThenFoldSet, IsSum
<1>2. IsFiniteSet(S)
  BY FS_Subset
<1>3. IsSum(w, S, F) /\ \A f : IsSum(w, S, f) => f = F
  BY <1>2, SumAddsUp, SumIsOne
<1>4. (CHOOSE f : IsSum(w, S, f)) = F
  BY <1>3
<1>5. F[S] = G[S]
  BY DEF SumsBelow
<1> QED BY <1>1, <1>4, <1>5
-----------------------------------------------------------------------------
(* Induction, for a set in place of a predicate.                           *)
LEMMA AllReached ==
    ASSUME NEW P, 0 \in P, \A n \in Nat : n \in P => n + 1 \in P
    PROVE  Nat \subseteq P
<1> SUFFICES ASSUME Nat \ P # {}
             PROVE  FALSE
  OBVIOUS
<1>1. Nat \ P \in SUBSET Nat
  OBVIOUS
<1>2. PICK m \in Nat \ P : \A k \in Nat \ P : m <= k
  <2> DEFINE S == Nat \ P
  <2>1. S \in SUBSET Nat /\ S # {}
    OBVIOUS
  <2> HIDE DEF S
  <2>2. Min(S) \in S /\ \A k \in S : Min(S) <= k
    BY <2>1, LeastOfSet
  <2> QED BY <2>2 DEF S
<1>3. m # 0 /\ m - 1 \in Nat /\ m - 1 \in P
  BY <1>2
<1>4. (m - 1) + 1 \in P
  BY <1>3
<1> QED BY <1>2, <1>4

(* F has what the first items of s, up to the n-th, are together.          *)
Upto(S, s, n, F) ==
    /\ F \in [0 .. n -> Seq(S)]
    /\ F[0] = <<>>
    /\ \A i \in 1 .. n : F[i] = F[i - 1] \o s[i]

(* FlattenSeq of SequencesExt is the last value of such an F,              *)
LEMMA FlattenEnds ==
    ASSUME NEW S, NEW s \in Seq(Seq(S)), NEW F, Upto(S, s, Len(s), F)
    PROVE  FlattenSeq(s) = F[Len(s)]
<1> USE DEF Upto
<1>1. CASE Len(s) = 0
  BY <1>1 DEF FlattenSeq
<1>2. CASE Len(s) # 0
  <2> DEFINE n == Len(s)
             Fits(f) == f = [i \in 1 .. n |-> IF i = 1 THEN s[i] ELSE f[i - 1] \o s[i]]
             f == CHOOSE f : Fits(f)
             G == [i \in 1 .. n |-> F[i]]
  <2>0. n \in Nat
    OBVIOUS
  <2>1. FlattenSeq(s) = f[n]
    BY <1>2 DEF FlattenSeq
  <2>2. n \in Nat \ {0} /\ s \in [1 .. n -> Seq(S)]
    BY <1>2
  <2>3. ASSUME NEW i \in 1 .. n
        PROVE  F[i] = IF i = 1 THEN s[i] ELSE F[i - 1] \o s[i]
    <3>1. F[i] = F[i - 1] \o s[i] /\ s[i] \in Seq(S)
      BY <2>2
    <3>2. CASE i = 1
      <4>1. i - 1 = 0
        BY <3>2
      <4>2. F[i - 1] = <<>>
        BY <4>1
      <4>3. F[i] = <<>> \o s[i]
        BY <3>1, <4>2, Zenon
      <4> QED BY <3>1, <3>2, <4>3, ConcatEmptySeq
    <3> QED BY <3>1, <3>2
  <2>4. Fits(G)
    <3>1. ASSUME NEW i \in 1 .. n
          PROVE  G[i] = IF i = 1 THEN s[i] ELSE G[i - 1] \o s[i]
      <4>1. i # 1 => i - 1 \in 1 .. n
        BY <2>2
      <4> QED BY <4>1, <2>3
    <3>2. G = [i \in 1 .. n |-> G[i]]
      OBVIOUS
    <3> HIDE DEF G
    <3> QED BY <3>1, <3>2
  <2> HIDE DEF G
  <2>5. Fits(f)
    BY <2>4
  <2>6. ASSUME NEW i \in 1 .. n
        PROVE  f[i] = IF i = 1 THEN s[i] ELSE f[i - 1] \o s[i]
    BY <2>5
  <2> HIDE DEF f, Fits
  <2> DEFINE P == {i \in Nat : i \in 1 .. n => f[i] = F[i]}
  <2>7. 0 \in P
    OBVIOUS
  <2>8. ASSUME NEW i \in Nat, i \in P
        PROVE  i + 1 \in P
    <3> SUFFICES ASSUME i + 1 \in 1 .. n
                 PROVE  f[i + 1] = F[i + 1]
      OBVIOUS
    <3>1. (i + 1) - 1 = i /\ (i = 0 \/ i \in 1 .. n)
      OBVIOUS
    <3>2. CASE i = 0
      BY <3>2, <2>3, <2>6
    <3>3. CASE i # 0
      <4>1. f[i] = F[i]
        BY <2>8, <3>1, <3>3
      <4>2. \A k \in 1 .. n : k # 1 => f[k] = f[k - 1] \o s[k] /\ F[k] = F[k - 1] \o s[k]
        BY <2>3, <2>6
      <4>3. i + 1 # 1
        BY <3>3
      <4> HIDE DEF P
      <4>4. f[i + 1] = f[i] \o s[i + 1] /\ F[i + 1] = F[i] \o s[i + 1]
        BY <4>2, <4>3, <3>1
      <4> QED BY <4>1, <4>4
    <3> QED BY <3>2, <3>3
  <2>9. Nat \subseteq P
    <3> HIDE DEF P
    <3> QED BY <2>7, <2>8, AllReached
  <2>10. f[n] = F[n]
    <3>1. n \in Nat /\ n \in 1 .. n
      BY <2>2
    <3> HIDE DEF n
    <3>2. n \in P
      BY <2>9, <3>1
    <3> QED BY <3>1, <3>2
  <2> QED BY <2>1, <2>10
<1> QED BY <1>1, <1>2

(* and there always is one.                                                *)
LEMMA FlattenUpto ==
    ASSUME NEW S, NEW s \in Seq(Seq(S))
    PROVE  \E F : Upto(S, s, Len(s), F)
<1> DEFINE P == {n \in Nat : n <= Len(s) => \E F : Upto(S, s, n, F)}
<1>1. 0 \in P
  <2>1. Upto(S, s, 0, [i \in 0 .. 0 |-> <<>>])
    BY DEF Upto
  <2> QED BY <2>1
<1>2. ASSUME NEW n \in Nat, n + 1 <= Len(s), NEW F, Upto(S, s, n, F)
      PROVE  \E G : Upto(S, s, n + 1, G)
  <2>1. /\ F \in [0 .. n -> Seq(S)] /\ F[0] = <<>>
        /\ \A i \in 1 .. n : F[i] = F[i - 1] \o s[i]
    BY <1>2 DEF Upto
  <2> DEFINE next == F[n] \o s[n + 1]
             G == [i \in 0 .. n + 1 |-> IF i <= n THEN F[i] ELSE next]
  <2>2. F[n] \in Seq(S) /\ s[n + 1] \in Seq(S)
    BY <1>2, <2>1
  <2>3. next \in Seq(S)
    BY <2>2
  <2> HIDE DEF next
  <2>4. G \in [0 .. n + 1 -> Seq(S)]
    BY <2>1, <2>3
  <2>5. /\ \A i \in 0 .. n : G[i] = F[i]
        /\ G[n + 1] = next
    BY <1>2
  <2> HIDE DEF G
  <2>6. ASSUME NEW i \in 1 .. n + 1
        PROVE  G[i] = G[i - 1] \o s[i]
    <3>1. CASE i <= n
      <4>1. i \in 1 .. n /\ i \in 0 .. n /\ i - 1 \in 0 .. n
        BY <1>2, <3>1
      <4>2. F[i] = F[i - 1] \o s[i]
        BY <4>1, <2>1
      <4> QED BY <4>1, <4>2, <2>5
    <3>2. CASE i = n + 1
      <4>1. i - 1 = n /\ n \in 0 .. n
        BY <3>2, <1>2
      <4>2. G[i] = next /\ G[i - 1] = F[n]
        BY <4>1, <3>2, <2>5
      <4>3. next = F[n] \o s[i]
        BY <3>2, Zenon DEF next
      <4> QED BY <4>2, <4>3, Zenon
    <3>3. i <= n \/ i = n + 1
      BY <1>2
    <3> QED BY <3>1, <3>2, <3>3, Zenon
  <2>7. G[0] = <<>>
    BY <1>2, <2>1, <2>5
  <2>8. Upto(S, s, n + 1, G)
    BY <2>4, <2>6, <2>7 DEF Upto
  <2> QED BY <2>8
<1>3. ASSUME NEW n \in Nat, n \in P
      PROVE  n + 1 \in P
  <2>1. n + 1 <= Len(s) => \E F : Upto(S, s, n, F)
    BY <1>3
  <2> QED BY <1>2, <2>1
<1> HIDE DEF P
<1>4. Nat \subseteq P
  BY <1>1, <1>3, AllReached
<1>5. Len(s) \in P /\ Len(s) <= Len(s)
  BY <1>4
<1> QED BY <1>5 DEF P

(* What follows: FlattenSeq gives a sequence of the items' elements, takes *)
(* one sequence after the other, and an item alone as it is.               *)
LEMMA FlattenType ==
    ASSUME NEW S, NEW s \in Seq(Seq(S))
    PROVE  FlattenSeq(s) \in Seq(S)
<1>1. PICK F : Upto(S, s, Len(s), F)
  BY FlattenUpto
<1>2. FlattenSeq(s) = F[Len(s)]
  BY <1>1, FlattenEnds
<1> QED BY <1>1, <1>2 DEF Upto

(* Concatenation is associative.                                           *)
Associative(s, t, u) == (s \o t) \o u = s \o (t \o u)

LEMMA ConcatRegroups ==
    ASSUME NEW S, NEW s \in Seq(S), NEW t \in Seq(S), NEW u \in Seq(S)
    PROVE  Associative(s, t, u)
BY ConcatAssociative DEF Associative

LEMMA FlattenConcat ==
    ASSUME NEW S, NEW s \in Seq(Seq(S)), NEW t \in Seq(Seq(S))
    PROVE  FlattenSeq(s \o t) = FlattenSeq(s) \o FlattenSeq(t)
<1> DEFINE m == Len(s)
           n == Len(t)
           st == s \o t
<1>a. PICK F : Upto(S, s, m, F)
  BY FlattenUpto
<1>b. PICK G : Upto(S, t, n, G)
  BY FlattenUpto
<1>1. /\ F \in [0 .. m -> Seq(S)] /\ F[0] = <<>>
      /\ \A i \in 1 .. m : F[i] = F[i - 1] \o s[i]
  BY <1>a DEF Upto
<1>2. /\ G \in [0 .. n -> Seq(S)] /\ G[0] = <<>>
      /\ \A i \in 1 .. n : G[i] = G[i - 1] \o t[i]
  BY <1>b DEF Upto
<1>3. /\ st \in Seq(Seq(S)) /\ Len(st) = m + n
      /\ \A i \in 1 .. m + n : st[i] = IF i <= m THEN s[i] ELSE t[i - m]
  BY ConcatProperties
<1>4. m \in Nat /\ n \in Nat /\ s \in [1 .. m -> Seq(S)] /\ t \in [1 .. n -> Seq(S)]
  OBVIOUS
<1>5. FlattenSeq(s) = F[m] /\ FlattenSeq(t) = G[n]
  BY <1>a, <1>b, FlattenEnds
<1> HIDE DEF m, n, st
<1>6. \A i \in 1 .. m : st[i] = s[i]
  BY <1>3, <1>4
<1>7. \A j \in 1 .. n : st[m + j] = t[j]
  BY <1>3, <1>4
<1>8. F[m] \in Seq(S) /\ \A j \in 0 .. n : F[m] \o G[j] \in Seq(S)
  BY <1>1, <1>2, <1>4
<1> DEFINE H == [i \in 0 .. m + n |-> IF i <= m THEN F[i] ELSE F[m] \o G[i - m]]
<1>9. ASSUME NEW i \in 0 .. m
      PROVE  i \in 0 .. m + n /\ H[i] = F[i] /\ H[i] \in Seq(S)
  <2>1. i \in 0 .. m + n /\ i <= m
    BY <1>4
  <2>2. H[i] = F[i]
    BY <2>1
  <2> QED BY <2>1, <2>2, <1>1
<1>10. ASSUME NEW j \in 0 .. n
       PROVE  H[m + j] = F[m] \o G[j] /\ H[m + j] \in Seq(S)
  <2>1. CASE j = 0
    <3>1. m + j = m /\ m \in 0 .. m
      BY <1>4, <2>1
    <3>2. H[m + j] = F[m] /\ G[j] = <<>>
      BY <3>1, <2>1, <1>2, <1>9
    <3> QED BY <3>2, <1>8, ConcatEmptySeq
  <2>2. CASE j # 0
    <3>1. m + j \in 0 .. m + n /\ ~ (m + j <= m) /\ (m + j) - m = j
      BY <1>4, <2>2
    <3>2. H[m + j] = F[m] \o G[j]
      BY <3>1
    <3> QED BY <3>2, <1>8
  <2> QED BY <2>1, <2>2
<1>11. H \in [0 .. m + n -> Seq(S)]
  <2>1. ASSUME NEW i \in 0 .. m + n
        PROVE  H[i] \in Seq(S)
    <3>1. i \in 0 .. m \/ (i - m \in 0 .. n /\ m + (i - m) = i)
      BY <1>4
    <3> HIDE DEF H
    <3> QED BY <3>1, <1>9, <1>10
  <2>2. H = [i \in 0 .. m + n |-> H[i]]
    OBVIOUS
  <2> HIDE DEF H
  <2> QED BY <2>1, <2>2
<1> HIDE DEF H
<1>12. H[0] = <<>>
  BY <1>1, <1>4, <1>9
<1>13. ASSUME NEW i \in 1 .. m + n
       PROVE  H[i] = H[i - 1] \o st[i]
  <2>1. CASE i <= m
    <3>1. i \in 1 .. m /\ i \in 0 .. m /\ i - 1 \in 0 .. m
      BY <1>4, <2>1
    <3>2. F[i] = F[i - 1] \o s[i]
      BY <3>1, <1>1
    <3> QED BY <3>1, <3>2, <1>6, <1>9
  <2>2. CASE i > m
    <3>1. PICK j \in 1 .. n : i = m + j
      <4>1. i - m \in 1 .. n /\ i = m + (i - m)
        BY <1>4, <2>2
      <4> QED BY <4>1
    <3>2. j \in 0 .. n /\ j - 1 \in 0 .. n /\ i - 1 = m + (j - 1)
      BY <1>4, <3>1
    <3>3. H[i] = F[m] \o G[j] /\ H[i - 1] = F[m] \o G[j - 1] /\ st[i] = t[j]
      BY <3>1, <3>2, <1>7, <1>10
    <3>4. G[j] = G[j - 1] \o t[j] /\ G[j - 1] \in Seq(S) /\ t[j] \in Seq(S)
      BY <3>2, <1>2, <1>4
    <3>5. (F[m] \o G[j - 1]) \o t[j] = F[m] \o (G[j - 1] \o t[j])
      <4>1. F[m] \in Seq(S) /\ G[j - 1] \in Seq(S) /\ t[j] \in Seq(S)
        BY <3>4, <1>8
      <4>2. Associative(F[m], G[j - 1], t[j])
        BY <4>1, ConcatRegroups, Zenon
      <4> QED BY <4>2 DEF Associative
    <3> QED BY <3>3, <3>4, <3>5, Zenon
  <2>3. i <= m \/ i > m
    BY <1>4
  <2> QED BY <2>1, <2>2, <2>3, Zenon
<1>14. FlattenSeq(st) = H[m + n]
  <2>1. Upto(S, st, Len(st), H)
    BY <1>3, <1>11, <1>12, <1>13 DEF Upto
  <2> QED BY <1>3, <2>1, FlattenEnds
<1>15. n \in 0 .. n
  BY <1>4
<1>16. H[m + n] = F[m] \o G[n]
  BY <1>10, <1>15, Zenon
<1> QED BY <1>5, <1>14, <1>16 DEF st

LEMMA FlattenOne ==
    ASSUME NEW S, NEW x \in Seq(S)
    PROVE  FlattenSeq(<<x>>) = x
<1> DEFINE F == [i \in 0 .. 1 |-> IF i = 0 THEN <<>> ELSE x]
<1>1. <<x>> \in Seq(Seq(S)) /\ Len(<<x>>) = 1 /\ <<x>>[1] = x
  OBVIOUS
<1>2. F \in [0 .. 1 -> Seq(S)] /\ F[0] = <<>> /\ F[1] = x
  OBVIOUS
<1>3. F[1] = F[0] \o <<x>>[1]
  BY <1>1, <1>2, ConcatEmptySeq
<1> HIDE DEF F
<1>4. \A i \in 1 .. 1 : i = 1 /\ i - 1 = 0
  OBVIOUS
<1>5. \A i \in 1 .. 1 : F[i] = F[i - 1] \o <<x>>[i]
  BY <1>3, <1>4, Zenon
<1>6. Upto(S, <<x>>, Len(<<x>>), F)
  BY <1>1, <1>2, <1>5, Zenon DEF Upto
<1>7. FlattenSeq(<<x>>) = F[1]
  BY <1>1, <1>6, FlattenEnds
<1> QED BY <1>2, <1>7

=============================================================================
