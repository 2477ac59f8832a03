-------------------------- MODULE Forwarding_proofs --------------------------
(***************************************************************************)
(* Theorems about the names under which uploads reach the store: Split()   *)
(* takes from a path what PathOf() put there, so a proxy receives the      *)
(* bucket and the segments of the name, escaped once for every client or   *)
(* proxy before it.                                                        *)
(***************************************************************************)
EXTENDS Forwarding, FiniteSetTheorems, SequenceTheorems, TLAPS

(***************************************************************************)
(* Picking elements: the k-th of a finite set of positions                 *)
(***************************************************************************)

UpTo(S, i) == {j \in S : j <= i}
IsNth(S, k, i) == i \in S /\ Cardinality(UpTo(S, i)) = k
Nth(S, k) == CHOOSE i \in S : Cardinality(UpTo(S, i)) = k

LEMMA PickTakesNth ==
  ASSUME NEW s, NEW S
  PROVE  Pick(s, S) = [k \in 1..Cardinality(S) |-> s[Nth(S, k)]]
BY DEF Pick, Nth, UpTo

(* What is counted is finite, and a part of it is smaller. *)
LEMMA UpToIsFinite ==
  ASSUME NEW S, IsFiniteSet(S), NEW i \in S, S \subseteq Nat
  PROVE  /\ IsFiniteSet(UpTo(S, i)) /\ UpTo(S, i) \subseteq S /\ i \in UpTo(S, i)
         /\ Cardinality(UpTo(S, i)) \in 1..Cardinality(S)
<1>1. UpTo(S, i) \subseteq S /\ i \in UpTo(S, i)
  BY DEF UpTo
<1>2. IsFiniteSet(UpTo(S, i)) /\ Cardinality(UpTo(S, i)) <= Cardinality(S)
  BY <1>1, FS_Subset
<1>3. Cardinality(S) \in Nat /\ Cardinality(UpTo(S, i)) \in Nat
  BY <1>2, FS_CardinalityType
<1>4. Cardinality(UpTo(S, i)) # 0
  BY <1>1, <1>2, FS_EmptySet
<1> QED
  BY <1>1, <1>2, <1>3, <1>4

LEMMA RanksGrow ==
  ASSUME NEW S, IsFiniteSet(S), S \subseteq Nat, NEW i \in S, NEW j \in S, i < j
  PROVE  Cardinality(UpTo(S, i)) < Cardinality(UpTo(S, j))
<1>1. IsFiniteSet(UpTo(S, i)) /\ IsFiniteSet(UpTo(S, j))
  BY UpToIsFinite
<1>2. i \in Nat /\ j \in Nat
  OBVIOUS
<1>3. UpTo(S, i) \subseteq UpTo(S, j)
  <2> SUFFICES ASSUME NEW x \in UpTo(S, i) PROVE x \in UpTo(S, j)
    OBVIOUS
  <2>1. x \in S /\ x \in Nat /\ x <= i
    BY DEF UpTo
  <2> QED
    BY <1>2, <2>1 DEF UpTo
<1>4. UpTo(S, i) # UpTo(S, j)
  <2>1. j \in UpTo(S, j)
    BY <1>2 DEF UpTo
  <2>2. j \notin UpTo(S, i)
    BY <1>2 DEF UpTo
  <2> QED
    BY <2>1, <2>2
<1>5. /\ Cardinality(UpTo(S, i)) <= Cardinality(UpTo(S, j))
      /\ Cardinality(UpTo(S, i)) # Cardinality(UpTo(S, j))
  BY <1>1, <1>3, <1>4, FS_Subset
<1>6. Cardinality(UpTo(S, i)) \in Nat /\ Cardinality(UpTo(S, j)) \in Nat
  BY <1>1, FS_CardinalityType
<1> QED
  BY <1>5, <1>6

LEMMA RanksDiffer ==
  ASSUME NEW S, IsFiniteSet(S), S \subseteq Nat, NEW i \in S, NEW j \in S,
         Cardinality(UpTo(S, i)) = Cardinality(UpTo(S, j))
  PROVE  i = j
<1>1. Cardinality(UpTo(S, i)) \in Nat
  BY UpToIsFinite, FS_CardinalityType
<1>2. i \in Nat /\ j \in Nat
  OBVIOUS
<1>3. ASSUME i < j PROVE FALSE
  <2>1. Cardinality(UpTo(S, i)) < Cardinality(UpTo(S, j))
    BY <1>3, RanksGrow
  <2> QED
    BY <1>1, <2>1
<1>4. ASSUME j < i PROVE FALSE
  <2>1. Cardinality(UpTo(S, j)) < Cardinality(UpTo(S, i))
    BY <1>4, RanksGrow
  <2> QED
    BY <1>1, <2>1
<1> QED
  BY <1>2, <1>3, <1>4

(* Every k has its position: ranking is an injection of S into 1..|S|.     *)
LEMMA NthIsThere ==
  ASSUME NEW S, IsFiniteSet(S), S \subseteq Nat, NEW k \in 1..Cardinality(S)
  PROVE  Nth(S, k) \in S /\ Cardinality(UpTo(S, Nth(S, k))) = k
<1> DEFINE rank == [i \in S |-> Cardinality(UpTo(S, i))]
<1>1. Cardinality(S) \in Nat
  BY FS_CardinalityType
<1>2. rank \in [S -> 1..Cardinality(S)]
  BY UpToIsFinite
<1>3. ASSUME NEW i \in S, NEW j \in S, rank[i] = rank[j] PROVE i = j
  <2>1. Cardinality(UpTo(S, i)) = Cardinality(UpTo(S, j))
    BY <1>3
  <2> QED
    BY <2>1, RanksDiffer
<1>4. rank \in Injection(S, 1..Cardinality(S))
  BY <1>2, <1>3 DEF Injection, IsInjective
<1>5. IsFiniteSet(1..Cardinality(S)) /\ Cardinality(1..Cardinality(S)) = Cardinality(S)
  BY <1>1, FS_Interval
<1>6. rank \in Surjection(S, 1..Cardinality(S))
  BY <1>4, <1>5, FS_Injection
<1>7. \E i \in S : Cardinality(UpTo(S, i)) = k
  BY <1>6 DEF Surjection
<1> QED
  BY <1>7 DEF Nth

(* It is the only one. *)
LEMMA NthIsUnique ==
  ASSUME NEW S, IsFiniteSet(S), S \subseteq Nat, NEW i \in S
  PROVE  Nth(S, Cardinality(UpTo(S, i))) = i
<1> DEFINE n == Nth(S, Cardinality(UpTo(S, i)))
<1>1. Cardinality(UpTo(S, i)) \in 1..Cardinality(S)
  BY UpToIsFinite
<1>2. n \in S /\ Cardinality(UpTo(S, n)) = Cardinality(UpTo(S, i))
  BY <1>1, NthIsThere
<1> HIDE DEF n
<1>3. n = i
  BY <1>2, RanksDiffer
<1> QED
  BY <1>3 DEF n

(* The first and the last element have the first and the last rank. *)
LEMMA EndsArePicked ==
  ASSUME NEW S, IsFiniteSet(S), S \subseteq Nat, NEW i \in S
  PROVE  /\ (\A j \in S : i <= j) => Nth(S, 1) = i
         /\ (\A j \in S : j <= i) => Nth(S, Cardinality(S)) = i
<1>1. ASSUME \A j \in S : i <= j PROVE Nth(S, 1) = i
  <2>1. ASSUME NEW j \in S, j <= i PROVE j = i
    <3>1. i <= j /\ i \in Nat /\ j \in Nat
      BY <1>1
    <3> QED
      BY <2>1, <3>1
  <2>a. i <= i
    <3>1. i \in Nat
      OBVIOUS
    <3> QED
      BY <3>1
  <2>b. UpTo(S, i) = {i}
    BY <2>1, <2>a DEF UpTo
  <2>2. Cardinality(UpTo(S, i)) = 1
    BY <2>b, FS_Singleton
  <2> QED
    BY <2>2, NthIsUnique
<1>2. ASSUME \A j \in S : j <= i PROVE Nth(S, Cardinality(S)) = i
  <2>1. UpTo(S, i) = S
    BY <1>2 DEF UpTo
  <2> QED
    BY <2>1, NthIsUnique
<1> QED
  BY <1>1, <1>2

(* The k-th position of an interval. *)
LEMMA NthOfInterval ==
  ASSUME NEW m \in Nat, NEW k \in 1..m
  PROVE  /\ IsFiniteSet(2..(m + 1)) /\ Cardinality(2..(m + 1)) = m
         /\ Nth(2..(m + 1), k) = k + 1
<1>1. IsFiniteSet(2..(m + 1)) /\ Cardinality(2..(m + 1)) = m
  BY FS_Interval
<1>2. UpTo(2..(m + 1), k + 1) = 2..(k + 1)
  BY DEF UpTo
<1>3. Cardinality(2..(k + 1)) = k
  BY FS_Interval
<1>4. Nth(2..(m + 1), Cardinality(UpTo(2..(m + 1), k + 1))) = k + 1
  BY <1>1, NthIsUnique
<1> QED
  BY <1>1, <1>2, <1>3, <1>4

(***************************************************************************)
(* Splitting strings                                                       *)
(***************************************************************************)

Full(s) == {i \in DOMAIN s : s[i] # Empty}

LEMMA KeptMeans ==
  ASSUME NEW s, NEW keepsEmpty \in BOOLEAN
  PROVE  /\ keepsEmpty => Kept(s, keepsEmpty) = {i \in DOMAIN s : \E j, k \in Full(s) : j <= i /\ i <= k}
         /\ ~keepsEmpty => Kept(s, keepsEmpty) = Full(s)
BY DEF Kept, Full

LEMMA KeptIsFinite ==
  ASSUME NEW s \in Seq(Texts), NEW keepsEmpty \in BOOLEAN
  PROVE  /\ Kept(s, keepsEmpty) \subseteq 1..Len(s) /\ Kept(s, keepsEmpty) \subseteq Nat
         /\ IsFiniteSet(Kept(s, keepsEmpty)) /\ Cardinality(Kept(s, keepsEmpty)) \in Nat
         /\ Full(s) \subseteq Kept(s, keepsEmpty)
<1>1. DOMAIN s = 1..Len(s) /\ Len(s) \in Nat
  OBVIOUS
<1>2. Full(s) \subseteq 1..Len(s)
  BY <1>1 DEF Full
<1>3. Kept(s, keepsEmpty) \subseteq 1..Len(s)
  BY <1>1, <1>2, KeptMeans
<1>4. IsFiniteSet(1..Len(s))
  BY <1>1, FS_Interval
<1>5. IsFiniteSet(Kept(s, keepsEmpty))
  BY <1>3, <1>4, FS_Subset
<1>6. Full(s) \subseteq Kept(s, keepsEmpty)
  <2> SUFFICES ASSUME NEW i \in Full(s) PROVE i \in Kept(s, keepsEmpty)
    OBVIOUS
  <2>1. i \in DOMAIN s /\ i <= i
    BY <1>1, <1>2
  <2> QED
    BY <2>1, KeptMeans
<1> QED
  BY <1>1, <1>3, <1>5, <1>6, FS_CardinalityType

(* What split() returns are texts of its argument, in their order. *)
LEMMA SplitTakesTexts ==
  ASSUME NEW s \in Seq(Texts), NEW keepsEmpty \in BOOLEAN
  PROVE  /\ Split(s, keepsEmpty) \in Seq(Texts)
         /\ Len(Split(s, keepsEmpty)) = Cardinality(Kept(s, keepsEmpty))
         /\ \A k \in 1..Cardinality(Kept(s, keepsEmpty)) :
              Split(s, keepsEmpty)[k] = s[Nth(Kept(s, keepsEmpty), k)]
<1> DEFINE K == Kept(s, keepsEmpty)
           n == Cardinality(K)
<1>1. K \subseteq 1..Len(s) /\ K \subseteq Nat /\ IsFiniteSet(K) /\ n \in Nat
  BY KeptIsFinite
<1>2. Split(s, keepsEmpty) = [k \in 1..n |-> s[Nth(K, k)]]
  BY PickTakesNth DEF Split
<1> HIDE DEF K
<1>3. ASSUME NEW k \in 1..n PROVE s[Nth(K, k)] \in Texts
  <2>1. Nth(K, k) \in 1..Len(s)
    BY <1>1, NthIsThere
  <2> QED
    BY <2>1, ElementOfSeq
<1>4. Split(s, keepsEmpty) \in [1..n -> Texts]
  BY <1>2, <1>3
<1>5. Split(s, keepsEmpty) \in Seq(Texts) /\ Len(Split(s, keepsEmpty)) = n
  <2> HIDE DEF n
  <2> QED
    BY <1>1, <1>4
<1> QED
  BY <1>2, <1>5 DEF K

(* Texts that split() leaves as they are. *)
Solid(texts, keepsEmpty) ==
  /\ Len(texts) # 0
  /\ texts[1] # Empty /\ texts[Len(texts)] # Empty
  /\ keepsEmpty \/ \A i \in 1..Len(texts) : texts[i] # Empty

LEMMA FirstIsFull ==
  ASSUME NEW s \in Seq(Texts), NEW keepsEmpty \in BOOLEAN, Cardinality(Kept(s, keepsEmpty)) # 0
  PROVE  Nth(Kept(s, keepsEmpty), 1) \in Full(s)
<1>1. PICK K : K = Kept(s, keepsEmpty)
  OBVIOUS
<1>2. K \subseteq Nat /\ IsFiniteSet(K) /\ Cardinality(K) \in Nat /\ Full(s) \subseteq K
  BY <1>1, KeptIsFinite
<1>3. 1 \in 1..Cardinality(K)
  BY <1>1, <1>2
<1>4. PICK a : a = Nth(K, 1)
  OBVIOUS
<1>5. a \in K /\ Cardinality(UpTo(K, a)) = 1
  BY <1>2, <1>3, <1>4, NthIsThere
<1>6. IsFiniteSet(UpTo(K, a)) /\ a \in UpTo(K, a)
  BY <1>2, <1>5, UpToIsFinite
<1>7. UpTo(K, a) = {a}
  BY <1>5, <1>6, FS_Singleton
<1>8. \E j \in Full(s) : j <= a
  <2>1. CASE keepsEmpty
    BY <1>1, <1>5, <2>1, KeptMeans
  <2>2. CASE ~keepsEmpty
    <3>1. a \in Full(s) /\ a \in Nat
      BY <1>1, <1>2, <1>5, <2>2, KeptMeans
    <3>2. a <= a
      BY <3>1
    <3> QED
      BY <3>1, <3>2
  <2> QED
    BY <2>1, <2>2
<1>9. PICK j \in Full(s) : j <= a
  BY <1>8
<1>10. j \in UpTo(K, a)
  BY <1>2, <1>9 DEF UpTo
<1> QED
  BY <1>1, <1>4, <1>7, <1>9, <1>10

LEMMA LastIsFull ==
  ASSUME NEW s \in Seq(Texts), NEW keepsEmpty \in BOOLEAN, Cardinality(Kept(s, keepsEmpty)) # 0
  PROVE  Nth(Kept(s, keepsEmpty), Cardinality(Kept(s, keepsEmpty))) \in Full(s)
<1>1. PICK K : K = Kept(s, keepsEmpty)
  OBVIOUS
<1>2. K \subseteq Nat /\ IsFiniteSet(K) /\ Cardinality(K) \in Nat /\ Full(s) \subseteq K
  BY <1>1, KeptIsFinite
<1>3. Cardinality(K) \in 1..Cardinality(K)
  BY <1>1, <1>2
<1>4. PICK b : b = Nth(K, Cardinality(K))
  OBVIOUS
<1>5. b \in K /\ Cardinality(UpTo(K, b)) = Cardinality(K)
  BY <1>2, <1>3, <1>4, NthIsThere
<1>6. UpTo(K, b) \subseteq K
  BY DEF UpTo
<1>7. UpTo(K, b) = K
  BY <1>2, <1>5, <1>6, FS_Subset
<1>8. \E k \in Full(s) : b <= k
  <2>1. CASE keepsEmpty
    BY <1>1, <1>5, <2>1, KeptMeans
  <2>2. CASE ~keepsEmpty
    <3>1. b \in Full(s) /\ b \in Nat
      BY <1>1, <1>2, <1>5, <2>2, KeptMeans
    <3>2. b <= b
      BY <3>1
    <3> QED
      BY <3>1, <3>2
  <2> QED
    BY <2>1, <2>2
<1>9. PICK k \in Full(s) : b <= k
  BY <1>8
<1>10. k <= b
  BY <1>2, <1>7, <1>9 DEF UpTo
<1>11. k \in Nat /\ b \in Nat
  BY <1>2, <1>5, <1>9
<1>12. k = b
  BY <1>9, <1>10, <1>11
<1> QED
  BY <1>1, <1>4, <1>9, <1>12

LEMMA SplitIsSolid ==
  ASSUME NEW s \in Seq(Texts), NEW keepsEmpty \in BOOLEAN, Len(Split(s, keepsEmpty)) # 0
  PROVE  Solid(Split(s, keepsEmpty), keepsEmpty)
<1>1. PICK K : K = Kept(s, keepsEmpty)
  OBVIOUS
<1>2. PICK n : n = Cardinality(K)
  OBVIOUS
<1>3. PICK texts : texts = Split(s, keepsEmpty)
  OBVIOUS
<1>4. Len(texts) = n /\ \A k \in 1..n : texts[k] = s[Nth(K, k)]
  BY <1>1, <1>2, <1>3, SplitTakesTexts
<1>5. K \subseteq Nat /\ IsFiniteSet(K) /\ n \in Nat /\ n # 0
  BY <1>1, <1>2, <1>3, <1>4, KeptIsFinite
<1>6. 1 \in 1..n /\ n \in 1..n
  BY <1>5
<1>7. Nth(K, 1) \in Full(s) /\ Nth(K, n) \in Full(s)
  BY <1>1, <1>2, <1>5, FirstIsFull, LastIsFull
<1>8. \A i \in Full(s) : s[i] # Empty
  BY DEF Full
<1>9. texts[1] # Empty /\ texts[n] # Empty
  BY <1>4, <1>6, <1>7, <1>8
<1>10. ASSUME ~keepsEmpty, NEW k \in 1..n PROVE texts[k] # Empty
  <2>1. Nth(K, k) \in K
    BY <1>2, <1>5, NthIsThere
  <2>2. Nth(K, k) \in Full(s)
    BY <1>1, <1>10, <2>1, KeptMeans
  <2> QED
    BY <1>4, <1>8, <2>2
<1> QED
  BY <1>3, <1>4, <1>5, <1>9, <1>10 DEF Solid

(* A path of these texts, with or without a slash at its end. *)
IsPathOf(s, texts) ==
  /\ s \in Seq(Texts) /\ s[1] = Empty
  /\ \A i \in 1..Len(texts) : s[i + 1] = texts[i]
  /\ \/ Len(s) = Len(texts) + 1
     \/ Len(s) = Len(texts) + 2 /\ s[Len(s)] = Empty

LEMMA PathsKeepTheirTexts ==
  ASSUME NEW texts \in Seq(Texts), NEW keepsEmpty \in BOOLEAN, Solid(texts, keepsEmpty),
         NEW s, IsPathOf(s, texts)
  PROVE  Kept(s, keepsEmpty) = 2..(Len(texts) + 1)
<1>1. PICK m : m = Len(texts)
  OBVIOUS
<1>2. m \in Nat /\ m # 0
  BY <1>1 DEF Solid
<1>3. s \in Seq(Texts) /\ Len(s) \in Nat /\ DOMAIN s = 1..Len(s)
  BY DEF IsPathOf
<1>4. Len(s) = m + 1 \/ Len(s) = m + 2
  BY <1>1 DEF IsPathOf
<1>5. ASSUME NEW i \in Full(s) PROVE i \in 2..(m + 1)
  <2>1. i \in 1..Len(s) /\ s[i] # Empty
    BY <1>3 DEF Full
  <2>2. i # 1
    BY <2>1 DEF IsPathOf
  <2>3. Len(s) = m + 2 => i # Len(s)
    BY <1>1, <1>2, <2>1 DEF IsPathOf
  <2> QED
    BY <1>2, <1>4, <2>1, <2>2, <2>3
<1>6. ASSUME NEW i \in 1..m, texts[i] # Empty PROVE i + 1 \in Full(s)
  <2>1. s[i + 1] = texts[i]
    BY <1>1 DEF IsPathOf
  <2>2. i + 1 \in 1..Len(s)
    BY <1>2, <1>4
  <2> QED
    BY <1>3, <1>6, <2>1, <2>2 DEF Full
<1>7. CASE keepsEmpty
  <2>1. 1 \in 1..m /\ m \in 1..m /\ texts[1] # Empty /\ texts[m] # Empty
    BY <1>1, <1>2 DEF Solid
  <2>2. 1 + 1 \in Full(s) /\ m + 1 \in Full(s)
    BY <1>6, <2>1
  <2>3. ASSUME NEW i \in 2..(m + 1) PROVE i \in Kept(s, keepsEmpty)
    <3>1. 1 + 1 <= i /\ i <= m + 1 /\ i \in 1..Len(s)
      BY <1>2, <1>4
    <3> QED
      BY <1>3, <1>7, <2>2, <3>1, KeptMeans
  <2>4. ASSUME NEW i \in Kept(s, keepsEmpty) PROVE i \in 2..(m + 1)
    <3>1. i \in 1..Len(s)
      BY <1>3, KeptIsFinite
    <3>2. PICK j, k \in Full(s) : j <= i /\ i <= k
      BY <1>7, KeptMeans
    <3>3. j \in 2..(m + 1) /\ k \in 2..(m + 1)
      BY <1>5
    <3> QED
      BY <1>2, <1>4, <3>1, <3>2, <3>3
  <2> QED
    BY <1>1, <2>3, <2>4
<1>8. CASE ~keepsEmpty
  <2>1. Kept(s, keepsEmpty) = Full(s)
    BY <1>8, KeptMeans
  <2>2. ASSUME NEW i \in 2..(m + 1) PROVE i \in Full(s)
    <3>1. PICK j \in 1..m : i = j + 1
      <4>1. i - 1 \in 1..m /\ i = (i - 1) + 1
        BY <1>2
      <4> QED
        BY <4>1
    <3>2. texts[j] # Empty
      BY <1>1, <1>8 DEF Solid
    <3> QED
      BY <1>6, <3>1, <3>2
  <2> QED
    BY <1>1, <1>5, <2>1, <2>2
<1> QED
  BY <1>7, <1>8

(* What was put into a path is what split() takes from it. *)
LEMMA SplitInvertsPath ==
  ASSUME NEW texts \in Seq(Texts), NEW keepsEmpty \in BOOLEAN, Solid(texts, keepsEmpty),
         NEW s, IsPathOf(s, texts)
  PROVE  Split(s, keepsEmpty) = texts
<1>1. PICK m : m = Len(texts)
  OBVIOUS
<1>2. m \in Nat
  BY <1>1
<1>3. PICK K : K = Kept(s, keepsEmpty)
  OBVIOUS
<1>4. K = 2..(m + 1)
  BY <1>1, <1>3, PathsKeepTheirTexts
<1>5. Cardinality(K) = m
  BY <1>2, <1>4, FS_Interval
<1>6. s \in Seq(Texts)
  BY DEF IsPathOf
<1>7. /\ Split(s, keepsEmpty) \in Seq(Texts) /\ Len(Split(s, keepsEmpty)) = m
      /\ \A k \in 1..m : Split(s, keepsEmpty)[k] = s[Nth(K, k)]
  BY <1>3, <1>5, <1>6, SplitTakesTexts
<1>8. ASSUME NEW k \in 1..m PROVE Split(s, keepsEmpty)[k] = texts[k]
  <2>1. Nth(K, k) = k + 1
    BY <1>2, <1>4, NthOfInterval
  <2>2. s[k + 1] = texts[k]
    BY <1>1 DEF IsPathOf
  <2> QED
    BY <1>7, <2>1, <2>2
<1> QED
  BY <1>1, <1>7, <1>8, SeqEqual

(* A name of one text is its only segment. *)
LEMMA SplitOfText ==
  ASSUME NEW s \in Seq(Texts), Len(s) = 1, s[1] # Empty, NEW keepsEmpty \in BOOLEAN
  PROVE  Split(s, keepsEmpty) = s
<1>1. DOMAIN s = 1..1
  OBVIOUS
<1>2. Full(s) = {1}
  BY <1>1 DEF Full
<1>3. PICK K : K = Kept(s, keepsEmpty)
  OBVIOUS
<1>4. K \subseteq 1..1 /\ Full(s) \subseteq K
  BY <1>3, KeptIsFinite
<1>5. K = {1}
  <2>1. 1 \in K
    BY <1>2, <1>4
  <2>2. ASSUME NEW x \in K PROVE x = 1
    <3>1. x \in 1..1
      BY <1>4
    <3> QED
      BY <3>1
  <2> QED
    BY <2>1, <2>2
<1>6. IsFiniteSet(K) /\ Cardinality(K) = 1 /\ K \subseteq Nat
  <2>1. IsFiniteSet({1}) /\ Cardinality({1}) = 1
    BY FS_Singleton
  <2> QED
    BY <1>5, <2>1
<1>7. Nth(K, 1) = 1
  BY <1>5, <1>6, NthIsThere
<1>8. /\ Split(s, keepsEmpty) \in Seq(Texts) /\ Len(Split(s, keepsEmpty)) = 1
      /\ Split(s, keepsEmpty)[1] = s[1]
  BY <1>3, <1>6, <1>7, SplitTakesTexts
<1> QED
  BY <1>8, SeqEqual

(* A string has one segment when just one of its texts is not empty. *)
LEMMA OneSegment ==
  ASSUME NEW s \in Seq(Texts), NEW keepsEmpty \in BOOLEAN
  PROVE  Len(Split(s, keepsEmpty)) = 1 <=> \E i \in DOMAIN s : \A j \in DOMAIN s : s[j] # Empty <=> j = i
<1>1. PICK K : K = Kept(s, keepsEmpty)
  OBVIOUS
<1>2. K \subseteq 1..Len(s) /\ K \subseteq Nat /\ IsFiniteSet(K) /\ Full(s) \subseteq K
  BY <1>1, KeptIsFinite
<1>3. Len(Split(s, keepsEmpty)) = 1 <=> \E i : K = {i}
  BY <1>1, <1>2, SplitTakesTexts, FS_Singleton
<1>4. DOMAIN s = 1..Len(s)
  OBVIOUS
<1>5. ASSUME NEW i, K = {i} PROVE i \in DOMAIN s /\ Full(s) = {i}
  <2>1. i \in DOMAIN s
    BY <1>2, <1>4, <1>5
  <2>2. Cardinality(K) # 0
    <3>1. Cardinality({i}) = 1
      BY FS_Singleton
    <3> QED
      BY <1>5, <3>1
  <2>3. Nth(K, 1) \in Full(s)
    BY <1>1, <2>2, FirstIsFull
  <2> QED
    BY <1>2, <1>5, <2>1, <2>3
<1>6. ASSUME NEW i \in DOMAIN s, Full(s) = {i} PROVE K = {i}
  <2>1. CASE keepsEmpty
    <3>1. ASSUME NEW x \in K PROVE x = i
      <4>1. PICK j, k \in Full(s) : j <= x /\ x <= k
        BY <1>1, <2>1, KeptMeans
      <4>2. j = i /\ k = i
        BY <1>6
      <4>3. x \in Nat /\ i \in Nat
        BY <1>2, <1>4
      <4> QED
        BY <4>1, <4>2, <4>3
    <3> QED
      BY <1>2, <1>6, <3>1
  <2>2. CASE ~keepsEmpty
    BY <1>1, <1>6, <2>2, KeptMeans
  <2> QED
    BY <2>1, <2>2
<1>7. \A i \in DOMAIN s : (\A j \in DOMAIN s : s[j] # Empty <=> j = i) <=> Full(s) = {i}
  BY DEF Full
<1> QED
  BY <1>3, <1>5, <1>6, <1>7

(***************************************************************************)
(* Escapes                                                                 *)
(***************************************************************************)

EscapedChar(char, n) == IF char.glyph \in Special THEN [char EXCEPT !.escapes = @ + n] ELSE char
EscapedText(text, n) == [j \in DOMAIN text |-> EscapedChar(text[j], n)]

IsRawChar(char) == char.escapes = 0
IsRaw(text) == \A j \in DOMAIN text : IsRawChar(text[j])
AreRaw(texts) == \A i \in DOMAIN texts : IsRaw(texts[i])

LEMMA CharsAreEscaped ==
  ASSUME NEW char \in Characters, NEW n \in Nat
  PROVE  /\ EscapedChar(char, n) \in Characters
         /\ EscapedChar(char, 0) = char
         /\ EscapeOnce(EscapedChar(char, n)) = EscapedChar(char, n + 1)
         /\ IsRawChar(char) => UnescapeOnce(EscapedChar(char, n + 1)) = EscapedChar(char, n)
<1>1. char = [glyph |-> char.glyph, escapes |-> char.escapes] /\ char.glyph \in Glyphs /\ char.escapes \in Nat
  BY DEF Characters
<1>2. CASE char.glyph \in Special
  <2>1. \A m \in Nat : EscapedChar(char, m) = [glyph |-> char.glyph, escapes |-> char.escapes + m]
    BY <1>1, <1>2 DEF EscapedChar
  <2>2. EscapedChar(char, n) = [glyph |-> char.glyph, escapes |-> char.escapes + n]
    BY <2>1
  <2>3. EscapedChar(char, n + 1) = [glyph |-> char.glyph, escapes |-> char.escapes + n + 1]
    BY <1>1, <2>1
  <2>4. EscapedChar(char, 0) = char
    BY <1>1, <2>1
  <2>5. EscapeOnce(EscapedChar(char, n)) = EscapedChar(char, n + 1)
    BY <1>1, <1>2, <2>2, <2>3 DEF EscapeOnce
  <2>6. ASSUME IsRawChar(char) PROVE UnescapeOnce(EscapedChar(char, n + 1)) = EscapedChar(char, n)
    BY <1>1, <2>2, <2>3, <2>6 DEF UnescapeOnce, IsRawChar
  <2>7. EscapedChar(char, n) \in Characters
    BY <1>1, <2>2 DEF Characters
  <2> QED
    BY <2>4, <2>5, <2>6, <2>7
<1>3. CASE char.glyph \notin Special
  BY <1>1, <1>3 DEF EscapedChar, EscapeOnce, UnescapeOnce, IsRawChar
<1> QED
  BY <1>2, <1>3

LEMMA TextsAreEscaped ==
  ASSUME NEW text \in Texts, NEW n \in Nat
  PROVE  /\ EscapedText(text, n) \in Texts
         /\ EscapedText(text, n) = Empty <=> text = Empty
         /\ EscapedText(text, 0) = text
         /\ Escape(EscapedText(text, n)) = EscapedText(text, n + 1)
         /\ IsRaw(text) => Unescape(EscapedText(text, n + 1)) = EscapedText(text, n)
<1>1. text \in Seq(Characters) /\ DOMAIN text = 1..Len(text) /\ Len(text) \in Nat
  BY DEF Texts
<1>2. ASSUME NEW j \in DOMAIN text PROVE text[j] \in Characters
  BY <1>1, ElementOfSeq
<1>3. \A m \in Nat : EscapedText(text, m) = [j \in DOMAIN text |-> EscapedChar(text[j], m)]
  BY DEF EscapedText
<1>4. EscapedText(text, n) \in [1..Len(text) -> Characters]
  BY <1>1, <1>2, <1>3, CharsAreEscaped
<1>5. EscapedText(text, n) \in Seq(Characters) /\ Len(EscapedText(text, n)) = Len(text)
  BY <1>1, <1>4
<1>6. EscapedText(text, n) = Empty <=> text = Empty
  BY <1>1, <1>5, EmptySeq DEF Empty
<1>7. EscapedText(text, 0) = text
  <2>1. \A j \in DOMAIN text : EscapedChar(text[j], 0) = text[j]
    BY <1>2, CharsAreEscaped
  <2> QED
    BY <1>1, <1>3, <2>1
<1>8. Escape(EscapedText(text, n)) = EscapedText(text, n + 1)
  <2>1. \A j \in DOMAIN text : EscapeOnce(EscapedChar(text[j], n)) = EscapedChar(text[j], n + 1)
    BY <1>2, CharsAreEscaped
  <2>2. n + 1 \in Nat
    OBVIOUS
  <2> QED
    BY <1>3, <2>1, <2>2 DEF Escape
<1>9. ASSUME IsRaw(text) PROVE Unescape(EscapedText(text, n + 1)) = EscapedText(text, n)
  <2>1. \A j \in DOMAIN text : UnescapeOnce(EscapedChar(text[j], n + 1)) = EscapedChar(text[j], n)
    BY <1>2, <1>9, CharsAreEscaped DEF IsRaw
  <2>2. n + 1 \in Nat
    OBVIOUS
  <2> QED
    BY <1>3, <2>1, <2>2 DEF Unescape
<1> QED
  BY <1>5, <1>6, <1>7, <1>8, <1>9 DEF Texts

(* The texts of a path, and what a client or the store makes of them.      *)
EscapedAll(texts) == [i \in DOMAIN texts |-> Escape(texts[i])]
UnescapedAll(texts) == [i \in DOMAIN texts |-> Unescape(texts[i])]

LEMMA EscapedTimesMeans ==
  ASSUME NEW texts, NEW n
  PROVE  EscapedTimes(texts, n) = [i \in DOMAIN texts |-> EscapedText(texts[i], n)]
BY DEF EscapedTimes, EscapedText, EscapedChar

LEMMA AllAreEscaped ==
  ASSUME NEW texts \in Seq(Texts), NEW n \in Nat
  PROVE  /\ EscapedTimes(texts, n) \in Seq(Texts) /\ Len(EscapedTimes(texts, n)) = Len(texts)
         /\ \A i \in 1..Len(texts) : EscapedTimes(texts, n)[i] = EscapedText(texts[i], n)
         /\ EscapedTimes(texts, 0) = texts
         /\ EscapedAll(EscapedTimes(texts, n)) = EscapedTimes(texts, n + 1)
         /\ AreRaw(texts) => UnescapedAll(EscapedTimes(texts, n + 1)) = EscapedTimes(texts, n)
<1>1. DOMAIN texts = 1..Len(texts) /\ Len(texts) \in Nat
  OBVIOUS
<1>2. ASSUME NEW i \in DOMAIN texts PROVE texts[i] \in Texts
  BY <1>1, ElementOfSeq
<1>3. \A m \in Nat : EscapedTimes(texts, m) = [i \in DOMAIN texts |-> EscapedText(texts[i], m)]
  BY EscapedTimesMeans
<1>4. EscapedTimes(texts, n) \in [1..Len(texts) -> Texts]
  BY <1>1, <1>2, <1>3, TextsAreEscaped
<1>5. EscapedTimes(texts, n) \in Seq(Texts) /\ Len(EscapedTimes(texts, n)) = Len(texts)
  BY <1>1, <1>4
<1>6. \A i \in 1..Len(texts) : EscapedTimes(texts, n)[i] = EscapedText(texts[i], n)
  BY <1>1, <1>3
<1>7. EscapedTimes(texts, 0) = texts
  <2>1. \A i \in DOMAIN texts : EscapedText(texts[i], 0) = texts[i]
    BY <1>2, TextsAreEscaped
  <2> QED
    BY <1>1, <1>3, <2>1
<1>8. EscapedAll(EscapedTimes(texts, n)) = EscapedTimes(texts, n + 1)
  <2>1. \A i \in DOMAIN texts : Escape(EscapedText(texts[i], n)) = EscapedText(texts[i], n + 1)
    BY <1>2, TextsAreEscaped
  <2>2. n + 1 \in Nat
    OBVIOUS
  <2> QED
    BY <1>3, <2>1, <2>2 DEF EscapedAll
<1>9. ASSUME AreRaw(texts) PROVE UnescapedAll(EscapedTimes(texts, n + 1)) = EscapedTimes(texts, n)
  <2>1. \A i \in DOMAIN texts : Unescape(EscapedText(texts[i], n + 1)) = EscapedText(texts[i], n)
    BY <1>2, <1>9, TextsAreEscaped DEF AreRaw
  <2>2. n + 1 \in Nat
    OBVIOUS
  <2> QED
    BY <1>3, <2>1, <2>2 DEF UnescapedAll
<1> QED
  BY <1>5, <1>6, <1>7, <1>8, <1>9

LEMMA EscapesKeepSolid ==
  ASSUME NEW texts \in Seq(Texts), NEW keepsEmpty \in BOOLEAN, Solid(texts, keepsEmpty), NEW n \in Nat
  PROVE  Solid(EscapedTimes(texts, n), keepsEmpty)
<1>1. PICK m : m = Len(texts)
  OBVIOUS
<1>2. PICK more : more = EscapedTimes(texts, n)
  OBVIOUS
<1>3. Len(more) = m /\ \A i \in 1..m : more[i] = EscapedText(texts[i], n)
  BY <1>1, <1>2, AllAreEscaped
<1>4. ASSUME NEW i \in 1..m PROVE more[i] = Empty <=> texts[i] = Empty
  <2>1. texts[i] \in Texts
    BY <1>1, ElementOfSeq
  <2> QED
    BY <1>3, <2>1, TextsAreEscaped
<1>5. m \in Nat /\ m # 0
  BY <1>1 DEF Solid
<1>6. 1 \in 1..m /\ m \in 1..m
  BY <1>5
<1> QED
  BY <1>1, <1>2, <1>3, <1>4, <1>5, <1>6 DEF Solid

(***************************************************************************)
(* The size of an escaped text                                             *)
(***************************************************************************)

SpecialAt(text) == {i \in DOMAIN text : text[i].glyph \in Special}

(* Each character has its own byte, and those to escape have 2n more.      *)
LEMMA BytesOfEscaped ==
  ASSUME NEW text \in Texts, IsRaw(text), NEW n \in Nat
  PROVE  Bytes(EscapedText(text, n)) = ((DOMAIN text) \X {0}) \cup (SpecialAt(text) \X (1..2 * n))
<1>1. PICK more : more = EscapedText(text, n)
  OBVIOUS
<1>2. text \in Seq(Characters) /\ DOMAIN text = 1..Len(text)
  BY DEF Texts
<1>3. DOMAIN more = DOMAIN text
  BY <1>1 DEF EscapedText
<1>4. ASSUME NEW i \in DOMAIN text, i \in SpecialAt(text) PROVE more[i].escapes = n
  <2>1. text[i] \in Characters /\ text[i].escapes = 0 /\ text[i].glyph \in Special
    BY <1>2, <1>4, ElementOfSeq DEF IsRaw, IsRawChar, SpecialAt
  <2>2. more[i] = [text[i] EXCEPT !.escapes = @ + n]
    BY <1>1, <2>1 DEF EscapedText, EscapedChar
  <2> QED
    BY <2>1, <2>2 DEF Characters
<1>5. ASSUME NEW i \in DOMAIN text, i \notin SpecialAt(text) PROVE more[i].escapes = 0
  BY <1>1, <1>5 DEF EscapedText, EscapedChar, SpecialAt, IsRaw, IsRawChar
<1>6. ASSUME NEW x \in Bytes(more) PROVE x \in ((DOMAIN text) \X {0}) \cup (SpecialAt(text) \X (1..2 * n))
  <2>1. PICK i \in DOMAIN text : x \in {i} \X (0..2 * more[i].escapes)
    BY <1>3 DEF Bytes
  <2>2. PICK k \in 0..2 * more[i].escapes : x = <<i, k>>
    BY <2>1
  <2>3. CASE i \in SpecialAt(text)
    <3>1. k \in 0..2 * n
      BY <1>4, <2>3
    <3>2. k = 0 \/ k \in 1..2 * n
      BY <3>1
    <3> QED
      BY <2>2, <2>3, <3>2
  <2>4. CASE i \notin SpecialAt(text)
    <3>1. more[i].escapes = 0
      BY <1>5, <2>4
    <3>2. k = 0
      BY <3>1
    <3> QED
      BY <2>2, <3>2
  <2> QED
    BY <2>3, <2>4
<1>7. ASSUME NEW i \in DOMAIN text PROVE <<i, 0>> \in Bytes(more)
  <2>1. more[i].escapes \in Nat
    BY <1>4, <1>5
  <2>2. 0 \in 0..2 * more[i].escapes
    BY <2>1
  <2> QED
    BY <1>3, <2>2 DEF Bytes
<1>8. ASSUME NEW i \in SpecialAt(text), NEW k \in 1..2 * n PROVE <<i, k>> \in Bytes(more)
  <2>1. i \in DOMAIN text
    BY DEF SpecialAt
  <2>2. more[i].escapes = n
    BY <1>4, <2>1
  <2>3. k \in 0..2 * more[i].escapes
    BY <2>2
  <2> QED
    BY <1>3, <2>1, <2>3 DEF Bytes
<1> QED
  BY <1>1, <1>6, <1>7, <1>8

LEMMA SizeOfEscaped ==
  ASSUME NEW text \in Texts, IsRaw(text), NEW n \in Nat
  PROVE  Size(EscapedText(text, n)) = Len(text) + 2 * n * Cardinality(SpecialAt(text))
<1>1. PICK D : D = DOMAIN text
  OBVIOUS
<1>2. PICK S : S = SpecialAt(text)
  OBVIOUS
<1>3. PICK m \in Nat : m = Len(text)
  BY DEF Texts
<1>4. D = 1..m
  BY <1>1, <1>3 DEF Texts
<1>5. IsFiniteSet(D) /\ Cardinality(D) = m
  BY <1>4, FS_Interval
<1>6. S \subseteq D
  BY <1>1, <1>2 DEF SpecialAt
<1>7. IsFiniteSet(S)
  BY <1>5, <1>6, FS_Subset
<1>8. PICK c \in Nat : c = Cardinality(S)
  BY <1>7, FS_CardinalityType
<1>9. IsFiniteSet({0}) /\ Cardinality({0}) = 1
  BY FS_Singleton
<1>10. PICK k \in Nat : k = 2 * n
  OBVIOUS
<1>11. IsFiniteSet(1..k) /\ Cardinality(1..k) = k
  BY FS_Interval
<1>12. PICK own : own = D \X {0}
  OBVIOUS
<1>13. PICK added : added = S \X (1..k)
  OBVIOUS
<1>14. IsFiniteSet(own) /\ Cardinality(own) = m * 1
  BY <1>5, <1>9, <1>12, FS_Product
<1>15. IsFiniteSet(added) /\ Cardinality(added) = c * k
  BY <1>7, <1>8, <1>11, <1>13, FS_Product
<1>16. own \cap added = {}
  <2> SUFFICES ASSUME NEW x \in own, x \in added PROVE FALSE
    OBVIOUS
  <2>1. x[2] = 0
    BY <1>12
  <2>2. x[2] \in 1..k
    BY <1>13
  <2> QED
    BY <2>1, <2>2
<1>17. Cardinality(own \cap added) = 0
  BY <1>16, FS_EmptySet
<1>18. Cardinality(own \cup added) = Cardinality(own) + Cardinality(added) - Cardinality(own \cap added)
  BY <1>14, <1>15, FS_Union
<1>19. Cardinality(own \cup added) = m + k * c
  <2>1. c * k \in Nat /\ c * k = k * c
    OBVIOUS
  <2>2. Cardinality(own \cup added) = m * 1 + c * k - 0
    BY <1>14, <1>15, <1>17, <1>18
  <2> QED
    BY <2>1, <2>2
<1>20. Bytes(EscapedText(text, n)) = own \cup added
  BY <1>1, <1>2, <1>10, <1>12, <1>13, BytesOfEscaped
<1> QED
  BY <1>2, <1>3, <1>8, <1>10, <1>19, <1>20 DEF Size

(***************************************************************************)
(* Paths                                                                   *)
(***************************************************************************)

LEMMA OneText ==
  ASSUME NEW text \in Texts
  PROVE  <<text>> \in Seq(Texts) /\ Len(<<text>>) = 1 /\ <<text>>[1] = text
OBVIOUS

LEMMA EmptyIsAText == Empty \in Texts
BY EmptySeq DEF Empty, Texts

LEMMA Prepended ==
  ASSUME NEW text \in Texts, NEW texts \in Seq(Texts), NEW s, s = <<text>> \o texts
  PROVE  /\ s \in Seq(Texts) /\ Len(s) = Len(texts) + 1 /\ s[1] = text
         /\ \A i \in 1..Len(texts) : s[i + 1] = texts[i]
<1>1. PICK one : one = <<text>>
  OBVIOUS
<1>2. one \in Seq(Texts) /\ Len(one) = 1 /\ one[1] = text
  BY <1>1, OneText
<1>3. PICK m : m = Len(texts)
  OBVIOUS
<1>4. m \in Nat
  BY <1>3
<1>5. s \in Seq(Texts) /\ Len(s) = 1 + m
  BY <1>1, <1>2, <1>3, ConcatProperties
<1>6. \A i \in 1..(1 + m) : s[i] = IF i <= 1 THEN one[i] ELSE texts[i - 1]
  BY <1>1, <1>2, <1>3, ConcatProperties
<1>7. s[1] = text
  BY <1>2, <1>4, <1>6
<1>8. ASSUME NEW i \in 1..m PROVE s[i + 1] = texts[i]
  <2>1. i + 1 \in 1..(1 + m) /\ ~(i + 1 <= 1) /\ (i + 1) - 1 = i
    BY <1>4
  <2> QED
    BY <1>6, <2>1
<1> QED
  BY <1>3, <1>4, <1>5, <1>7, <1>8

LEMMA Appended ==
  ASSUME NEW text \in Texts, NEW texts \in Seq(Texts)
  PROVE  /\ Append(texts, text) \in Seq(Texts) /\ Len(Append(texts, text)) = Len(texts) + 1
         /\ Append(texts, text)[Len(texts) + 1] = text
         /\ \A i \in 1..Len(texts) : Append(texts, text)[i] = texts[i]
OBVIOUS

LEMMA PrependedAppended ==
  ASSUME NEW text \in Texts, NEW texts \in Seq(Texts), NEW last \in Texts
  PROVE  <<text>> \o Append(texts, last) = Append(<<text>> \o texts, last)
<1>1. PICK s : s = <<text>> \o texts
  OBVIOUS
<1>2. PICK left : left = <<text>> \o Append(texts, last)
  OBVIOUS
<1>3. PICK right : right = Append(s, last)
  OBVIOUS
<1>4. PICK more : more = Append(texts, last)
  OBVIOUS
<1>5. PICK m : m = Len(texts)
  OBVIOUS
<1>6. m \in Nat
  BY <1>5
<1>7. more \in Seq(Texts) /\ Len(more) = m + 1 /\ more[m + 1] = last /\ \A i \in 1..m : more[i] = texts[i]
  BY <1>4, <1>5, Appended
<1>8. s \in Seq(Texts) /\ Len(s) = m + 1 /\ s[1] = text /\ \A i \in 1..m : s[i + 1] = texts[i]
  BY <1>1, <1>5, Prepended
<1>9. left \in Seq(Texts) /\ Len(left) = m + 1 + 1 /\ left[1] = text /\ \A i \in 1..(m + 1) : left[i + 1] = more[i]
  BY <1>2, <1>4, <1>7, Prepended
<1>10. /\ right \in Seq(Texts) /\ Len(right) = m + 1 + 1 /\ right[m + 1 + 1] = last
       /\ \A i \in 1..(m + 1) : right[i] = s[i]
  BY <1>3, <1>8, Appended
<1>11. ASSUME NEW i \in 1..(m + 1 + 1) PROVE left[i] = right[i]
  <2>1. CASE i = 1
    BY <1>6, <1>8, <1>9, <1>10, <2>1
  <2>2. CASE i = m + 1 + 1
    <3>1. m + 1 \in 1..(m + 1)
      BY <1>6
    <3> QED
      BY <1>7, <1>9, <1>10, <2>2, <3>1
  <2>3. CASE i # 1 /\ i # m + 1 + 1
    <3>1. PICK j \in 1..m : i = j + 1
      <4>1. i - 1 \in 1..m /\ i = (i - 1) + 1
        BY <1>6, <2>3
      <4> QED
        BY <4>1
    <3>2. j \in 1..(m + 1) /\ j + 1 \in 1..(m + 1)
      BY <1>6
    <3> QED
      BY <1>7, <1>8, <1>9, <1>10, <3>1, <3>2
  <2> QED
    BY <2>1, <2>2, <2>3
<1>12. left = right
  BY <1>9, <1>10, <1>11, SeqEqual
<1> QED
  BY <1>1, <1>2, <1>3, <1>12

(* A slash at the end is not escaped. *)
LEMMA EscapesKeepSlash ==
  ASSUME NEW texts \in Seq(Texts), NEW n \in Nat
  PROVE  EscapedTimes(Append(texts, Empty), n) = Append(EscapedTimes(texts, n), Empty)
<1>1. PICK more : more = Append(texts, Empty)
  OBVIOUS
<1>2. PICK escaped : escaped = EscapedTimes(texts, n)
  OBVIOUS
<1>3. PICK left : left = EscapedTimes(more, n)
  OBVIOUS
<1>4. PICK right : right = Append(escaped, Empty)
  OBVIOUS
<1>5. PICK m : m = Len(texts)
  OBVIOUS
<1>6. m \in Nat
  BY <1>5
<1>7. more \in Seq(Texts) /\ Len(more) = m + 1 /\ more[m + 1] = Empty /\ \A i \in 1..m : more[i] = texts[i]
  BY <1>1, <1>5, Appended, EmptyIsAText
<1>8. escaped \in Seq(Texts) /\ Len(escaped) = m /\ \A i \in 1..m : escaped[i] = EscapedText(texts[i], n)
  BY <1>2, <1>5, AllAreEscaped
<1>9. left \in Seq(Texts) /\ Len(left) = m + 1 /\ \A i \in 1..(m + 1) : left[i] = EscapedText(more[i], n)
  BY <1>3, <1>7, AllAreEscaped
<1>10. right \in Seq(Texts) /\ Len(right) = m + 1 /\ right[m + 1] = Empty /\ \A i \in 1..m : right[i] = escaped[i]
  BY <1>4, <1>8, Appended, EmptyIsAText
<1>11. EscapedText(Empty, n) = Empty
  BY EmptyIsAText, TextsAreEscaped
<1>12. ASSUME NEW i \in 1..(m + 1) PROVE left[i] = right[i]
  <2>1. CASE i = m + 1
    BY <1>7, <1>9, <1>10, <1>11, <2>1
  <2>2. CASE i # m + 1
    <3>1. i \in 1..m
      BY <1>6, <2>2
    <3> QED
      BY <1>7, <1>8, <1>9, <1>10, <3>1
  <2> QED
    BY <2>1, <2>2
<1>13. left = right
  BY <1>9, <1>10, <1>12, SeqEqual
<1> QED
  BY <1>1, <1>2, <1>3, <1>4, <1>13

LEMMA PathsAreFramed ==
  ASSUME NEW texts \in Seq(Texts)
  PROVE  /\ IsPathOf(<<Empty>> \o texts, texts)
         /\ IsPathOf(<<Empty>> \o Append(texts, Empty), texts)
         /\ Tail(<<Empty>> \o texts) = texts
<1>1. PICK s : s = <<Empty>> \o texts
  OBVIOUS
<1>2. PICK m : m = Len(texts)
  OBVIOUS
<1>3. m \in Nat
  BY <1>2
<1>4. s \in Seq(Texts) /\ Len(s) = m + 1 /\ s[1] = Empty /\ \A i \in 1..m : s[i + 1] = texts[i]
  BY <1>1, <1>2, Prepended, EmptyIsAText
<1>5. IsPathOf(s, texts)
  BY <1>2, <1>4 DEF IsPathOf
<1>6. PICK more : more = Append(texts, Empty)
  OBVIOUS
<1>7. more \in Seq(Texts) /\ Len(more) = m + 1 /\ more[m + 1] = Empty /\ \A i \in 1..m : more[i] = texts[i]
  BY <1>2, <1>6, Appended, EmptyIsAText
<1>8. PICK t : t = <<Empty>> \o more
  OBVIOUS
<1>9. t \in Seq(Texts) /\ Len(t) = m + 1 + 1 /\ t[1] = Empty /\ \A i \in 1..(m + 1) : t[i + 1] = more[i]
  BY <1>7, <1>8, Prepended, EmptyIsAText
<1>10. IsPathOf(t, texts)
  <2>1. m + 1 \in 1..(m + 1) /\ m + 1 + 1 = m + 2
    BY <1>3
  <2>2. Len(t) = m + 2 /\ t[Len(t)] = Empty
    BY <1>7, <1>9, <2>1
  <2>3. ASSUME NEW i \in 1..m PROVE t[i + 1] = texts[i]
    <3>1. i \in 1..(m + 1)
      BY <1>3
    <3> QED
      BY <1>7, <1>9, <3>1
  <2> QED
    BY <1>2, <1>9, <2>2, <2>3 DEF IsPathOf
<1>11. Tail(s) = texts
  <2>1. s # << >>
    BY <1>3, <1>4
  <2>2. Tail(s) \in Seq(Texts) /\ Len(Tail(s)) = m /\ \A i \in 1..m : Tail(s)[i] = s[i + 1]
    BY <1>3, <1>4, <2>1, HeadTailProperties
  <2>3. \A i \in 1..m : Tail(s)[i] = texts[i]
    BY <1>4, <2>2
  <2> QED
    BY <1>2, <2>2, <2>3, SeqEqual
<1> QED
  BY <1>1, <1>5, <1>6, <1>8, <1>10, <1>11

LEMMA PathOfEscaped ==
  ASSUME NEW texts \in Seq(Texts), NEW n \in Nat
  PROVE  PathOf(EscapedTimes(texts, n)) = <<Empty>> \o EscapedTimes(texts, n + 1)
<1>1. EscapedAll(EscapedTimes(texts, n)) = EscapedTimes(texts, n + 1)
  BY AllAreEscaped
<1> QED
  BY <1>1 DEF PathOf, EscapedAll

(* What a proxy sends for the two pieces of the path that it received. *)
LEMMA PathOfPieces ==
  ASSUME NEW slices \in Seq(Texts), Len(slices) = 2, slices[2] # Empty, NEW keepsEmpty \in BOOLEAN
  PROVE  EncodedPath(slices[1], <<slices[2]>>, keepsEmpty) = PathOf(slices)
<1>1. slices[1] \in Texts /\ slices[2] \in Texts
  OBVIOUS
<1>2. PICK one : one = <<slices[2]>>
  OBVIOUS
<1>3. one \in Seq(Texts) /\ Len(one) = 1 /\ one[1] = slices[2]
  BY <1>1, <1>2, OneText
<1>4. Split(one, keepsEmpty) = one
  BY <1>3, SplitOfText
<1>5. ~EndsWithSlash(one)
  BY <1>3 DEF EndsWithSlash
<1>6. PICK two : two = <<slices[1]>> \o one
  OBVIOUS
<1>7. two \in Seq(Texts) /\ Len(two) = 2 /\ two[1] = slices[1] /\ two[2] = slices[2]
  BY <1>1, <1>3, <1>6, Prepended
<1>8. two = slices
  BY <1>7, SeqEqual
<1> QED
  BY <1>2, <1>4, <1>5, <1>6, <1>8 DEF EncodedPath

(***************************************************************************)
(* The bucket and the object that a request is about                       *)
(***************************************************************************)

(* The pieces of a path, and with the slash at the end of the name, which  *)
(* only the first request has.                                             *)
Pieces == <<bucket>> \o Split(name, keeps)
Addressed == <<bucket>> \o (IF hops = 0 THEN Normal ELSE Split(name, keeps))

LEMMA PiecesAreSolid ==
  ASSUME bucket \in Buckets, name \in Names, keeps \in BOOLEAN
  PROVE  /\ Pieces[1] = bucket /\ Pieces \in Seq(Texts) /\ Len(Pieces) = Len(Split(name, keeps)) + 1
         /\ Solid(Pieces, keeps) /\ AreRaw(Pieces)
<1>1. name \in Seq(Texts) /\ bucket \in Texts /\ bucket # Empty
  BY NamesAssumption DEF Strings
<1>2. PICK texts : texts = Split(name, keeps)
  OBVIOUS
<1>3. PICK m : m = Len(texts)
  OBVIOUS
<1>4. PICK K : K = Kept(name, keeps)
  OBVIOUS
<1>5. texts \in Seq(Texts) /\ m \in Nat /\ m = Cardinality(K) /\ \A k \in 1..m : texts[k] = name[Nth(K, k)]
  BY <1>1, <1>2, <1>3, <1>4, SplitTakesTexts
<1>6. PICK pieces : pieces = <<bucket>> \o texts
  OBVIOUS
<1>7. /\ pieces \in Seq(Texts) /\ Len(pieces) = m + 1 /\ pieces[1] = bucket
      /\ \A i \in 1..m : pieces[i + 1] = texts[i]
  <2>1. bucket \in Texts /\ texts \in Seq(Texts)
    BY <1>1, <1>5
  <2>2. /\ pieces \in Seq(Texts) /\ Len(pieces) = Len(texts) + 1 /\ pieces[1] = bucket
        /\ \A i \in 1..Len(texts) : pieces[i + 1] = texts[i]
    BY <1>6, <2>1, Prepended
  <2> QED
    BY <1>3, <2>2
<1>8. ASSUME NEW i \in 1..(m + 1), i # 1 PROVE \E j \in 1..m : i = j + 1 /\ pieces[i] = texts[j]
  <2>1. i - 1 \in 1..m /\ i = (i - 1) + 1
    BY <1>5, <1>8
  <2> QED
    BY <1>7, <2>1
<1>9. m # 0 => Solid(texts, keeps)
  BY <1>1, <1>2, <1>3, SplitIsSolid
<1>10. Solid(pieces, keeps)
  <2>1. m + 1 # 0
    BY <1>5
  <2>2. pieces[m + 1] # Empty
    <3>1. CASE m = 0
      BY <1>1, <1>7, <3>1
    <3>2. CASE m # 0
      <4>1. m \in 1..m
        BY <1>5, <3>2
      <4>2. texts[m] # Empty
        BY <1>3, <1>9, <3>2 DEF Solid
      <4> QED
        BY <1>7, <4>1, <4>2
    <3> QED
      BY <3>1, <3>2
  <2>3. ASSUME ~keeps, NEW i \in 1..(m + 1) PROVE pieces[i] # Empty
    <3>1. CASE i = 1
      BY <1>1, <1>7, <3>1
    <3>2. CASE i # 1
      <4>1. PICK j \in 1..m : i = j + 1 /\ pieces[i] = texts[j]
        BY <1>8, <3>2
      <4>2. m # 0
        BY <1>5
      <4>3. texts[j] # Empty
        BY <1>3, <1>9, <2>3, <4>2 DEF Solid
      <4> QED
        BY <4>1, <4>3
    <3> QED
      BY <3>1, <3>2
  <2> QED
    BY <1>1, <1>7, <2>1, <2>2, <2>3 DEF Solid
<1>11. ASSUME NEW i \in 1..(m + 1) PROVE IsRaw(pieces[i])
  <2>1. CASE i = 1
    BY <1>7, <2>1, NamesAssumption DEF IsRaw, IsRawChar
  <2>2. CASE i # 1
    <3>1. PICK j \in 1..m : i = j + 1 /\ pieces[i] = texts[j]
      BY <1>8, <2>2
    <3>2. K \subseteq 1..Len(name) /\ K \subseteq Nat /\ IsFiniteSet(K) /\ DOMAIN name = 1..Len(name)
      BY <1>1, <1>4, KeptIsFinite
    <3>3. Nth(K, j) \in K
      BY <1>5, <3>2, NthIsThere
    <3>4. PICK k \in DOMAIN name : pieces[i] = name[k]
      BY <1>5, <3>1, <3>2, <3>3
    <3>5. \A x \in DOMAIN name[k] : name[k][x].escapes = 0
      BY NamesAssumption
    <3> QED
      BY <3>4, <3>5 DEF IsRaw, IsRawChar
  <2> QED
    BY <2>1, <2>2
<1>12. AreRaw(pieces)
  <2>1. DOMAIN pieces = 1..(m + 1)
    BY <1>7
  <2> QED
    BY <1>11, <2>1 DEF AreRaw
<1> QED
  BY <1>2, <1>3, <1>6, <1>7, <1>10, <1>12 DEF Pieces

LEMMA SlashStaysRaw ==
  ASSUME NEW texts \in Seq(Texts), AreRaw(texts)
  PROVE  AreRaw(Append(texts, Empty))
<1>1. PICK m : m = Len(texts)
  OBVIOUS
<1>2. PICK more : more = Append(texts, Empty)
  OBVIOUS
<1>3. more \in Seq(Texts) /\ Len(more) = m + 1 /\ more[m + 1] = Empty /\ \A i \in 1..m : more[i] = texts[i]
  BY <1>1, <1>2, Appended, EmptyIsAText
<1>4. DOMAIN more = 1..(m + 1) /\ DOMAIN texts = 1..m /\ m \in Nat
  BY <1>1, <1>3
<1>5. IsRaw(Empty)
  BY DEF IsRaw, Empty
<1>6. ASSUME NEW i \in 1..(m + 1) PROVE IsRaw(more[i])
  <2>1. CASE i = m + 1
    BY <1>3, <1>5, <2>1
  <2>2. CASE i # m + 1
    <3>1. i \in 1..m
      BY <1>4, <2>2
    <3> QED
      BY <1>3, <1>4, <3>1 DEF AreRaw
  <2> QED
    BY <2>1, <2>2
<1> QED
  BY <1>2, <1>4, <1>6 DEF AreRaw

KeepsSlash == hops = 0 /\ EndsWithSlash(name)

LEMMA AddressedIs ==
  ASSUME bucket \in Buckets, name \in Names, keeps \in BOOLEAN
  PROVE  /\ KeepsSlash => Addressed = Append(Pieces, Empty)
         /\ ~KeepsSlash => Addressed = Pieces
         /\ Addressed \in Seq(Texts) /\ AreRaw(Addressed)
<1>1. name \in Seq(Texts) /\ bucket \in Texts
  BY NamesAssumption DEF Strings
<1>2. PICK texts : texts = Split(name, keeps)
  OBVIOUS
<1>3. texts \in Seq(Texts)
  BY <1>1, <1>2, SplitTakesTexts
<1>4. ASSUME KeepsSlash PROVE Addressed = Append(Pieces, Empty)
  <2>1. Addressed = <<bucket>> \o Append(texts, Empty)
    BY <1>2, <1>4 DEF Addressed, Normal, KeepsSlash
  <2> QED
    BY <1>1, <1>2, <1>3, <2>1, PrependedAppended, EmptyIsAText DEF Pieces
<1>5. ASSUME ~KeepsSlash PROVE Addressed = Pieces
  BY <1>5 DEF Addressed, Normal, KeepsSlash, Pieces
<1>6. Pieces \in Seq(Texts) /\ AreRaw(Pieces)
  BY PiecesAreSolid
<1>7. Append(Pieces, Empty) \in Seq(Texts) /\ AreRaw(Append(Pieces, Empty))
  BY <1>6, SlashStaysRaw, EmptyIsAText
<1> QED
  BY <1>4, <1>5, <1>6, <1>7

(* What checkBucketName finds at the n-th proxy. *)
LEMMA FitsMeans ==
  ASSUME bucket \in Buckets, NEW n \in Nat
  PROVE  CheckBucketName(EscapedText(bucket, n)) <=> Fits(n)
<1>1. bucket \in Texts /\ IsRaw(bucket)
  BY NamesAssumption DEF IsRaw, IsRawChar
<1>2. Size(EscapedText(bucket, n)) = Len(bucket) + 2 * n * Cardinality(SpecialAt(bucket))
  BY <1>1, SizeOfEscaped
<1> QED
  BY <1>2 DEF CheckBucketName, Fits, SpecialAt

(***************************************************************************)
(* The invariant                                                           *)
(***************************************************************************)

TypeInv ==
  /\ bucket \in Buckets /\ name \in Names /\ keeps \in BOOLEAN /\ hops \in 0..MaxHops
  /\ outcome \in {"called", "sent", "not a mandatory URI", "invalid bucket", "stored"}

(* Every client and proxy has escaped the path once. *)
PathInv == outcome = "sent" => path = <<Empty>> \o EscapedTimes(Addressed, hops + 1)

(* What RefusedByRule says, by the number of the pieces. *)
OnePiece == Len(Split(name, keeps)) = 1

PassInv ==
  /\ outcome = "called" => hops = 0
  /\ outcome \in {"sent", "stored"} => Fits(hops)
  /\ hops # 0 => Fits(hops) /\ OnePiece
  /\ outcome = "not a mandatory URI" => hops = 0 /\ Fits(0) /\ ~OnePiece
  /\ outcome = "invalid bucket" => (hops = 0 /\ ~Fits(0)) \/ (OnePiece /\ ~Fits(hops + 1))

StoreInv == outcome = "stored" => stored = EscapedTimes(Addressed, hops)

Inv == TypeInv /\ PathInv /\ PassInv /\ StoreInv

LEMMA InvAtFirst == Init => Inv
BY MaxHopsAssumption DEF Init, Inv, TypeInv, PathInv, PassInv, StoreInv

(* What depends on the names alone, which stay as they are. *)
NamesStay == bucket' = bucket /\ name' = name /\ keeps' = keeps

LEMMA NamesDecide ==
  ASSUME NamesStay
  PROVE  /\ Split(name, keeps)' = Split(name, keeps) /\ OnePiece' = OnePiece /\ Normal' = Normal
         /\ Pieces' = Pieces
         /\ \A n \in Nat : Fits(n)' = Fits(n)
<1>1. bucket' = bucket /\ name' = name /\ keeps' = keeps
  BY DEF NamesStay
<1>2. Split(name, keeps)' = Split(name, keeps)
  BY <1>1 DEF Split
<1> QED
  BY <1>1, <1>2 DEF OnePiece, Normal, Pieces, Fits

(* The path of the client's request. *)
LEMMA FirstPath ==
  ASSUME bucket \in Buckets, name \in Names, keeps \in BOOLEAN, hops = 0
  PROVE  EncodedPath(bucket, name, keeps) = <<Empty>> \o EscapedTimes(Addressed, 1)
<1>1. PICK pieces : pieces = Pieces
  OBVIOUS
<1>2. pieces \in Seq(Texts)
  BY <1>1, PiecesAreSolid
<1>3. PICK escaped : escaped = EscapedTimes(pieces, 1)
  OBVIOUS
<1>4. escaped \in Seq(Texts)
  BY <1>2, <1>3, AllAreEscaped
<1>5. PathOf(pieces) = <<Empty>> \o escaped
  <2>1. EscapedTimes(pieces, 0) = pieces
    BY <1>2, AllAreEscaped
  <2>2. PathOf(EscapedTimes(pieces, 0)) = <<Empty>> \o EscapedTimes(pieces, 0 + 1)
    BY <1>2, PathOfEscaped
  <2> QED
    BY <1>3, <2>1, <2>2
<1>6. CASE KeepsSlash
  <2>1. EncodedPath(bucket, name, keeps) = Append(<<Empty>> \o escaped, Empty)
    BY <1>1, <1>5, <1>6 DEF EncodedPath, Pieces, KeepsSlash
  <2>2. EscapedTimes(Addressed, 1) = Append(escaped, Empty)
    BY <1>1, <1>2, <1>3, <1>6, AddressedIs, EscapesKeepSlash
  <2> QED
    BY <1>4, <2>1, <2>2, PrependedAppended, EmptyIsAText
<1>7. CASE ~KeepsSlash
  <2>1. EncodedPath(bucket, name, keeps) = <<Empty>> \o escaped
    BY <1>1, <1>5, <1>7 DEF EncodedPath, Pieces, KeepsSlash
  <2> QED
    BY <1>1, <1>3, <1>7, <2>1, AddressedIs
<1> QED
  BY <1>6, <1>7

LEMMA PutKeepsInv ==
  ASSUME Inv, PutObject
  PROVE  Inv'
<1>1. /\ bucket \in Buckets /\ name \in Names /\ keeps \in BOOLEAN /\ hops = 0 /\ 0 \in 0..MaxHops
      /\ bucket' = bucket /\ name' = name /\ keeps' = keeps
  BY MaxHopsAssumption DEF Inv, TypeInv, PassInv, PutObject
<1>2. CheckBucketName(bucket) <=> Fits(0)
  <2>1. bucket \in Texts
    BY <1>1, NamesAssumption
  <2>2. EscapedText(bucket, 0) = bucket
    BY <2>1, TextsAreEscaped
  <2> QED
    BY <1>1, <2>2, FitsMeans
<1>3. Split(name, keeps)' = Split(name, keeps) /\ Normal' = Normal /\ Fits(0)' = Fits(0)
  BY <1>1, NamesDecide DEF NamesStay
<1>4. CASE ~CheckBucketName(bucket)
  <2>1. outcome' = "invalid bucket" /\ hops' = 0
    BY <1>1, <1>4 DEF PutObject, CreateRequest
  <2> QED
    BY <1>1, <1>2, <1>3, <1>4, <2>1 DEF Inv, TypeInv, PathInv, PassInv, StoreInv
<1>5. CASE CheckBucketName(bucket)
  <2>1. outcome' = "sent" /\ hops' = 0 /\ path' = EncodedPath(bucket, name, keeps)
    BY <1>5 DEF PutObject, CreateRequest
  <2>2. Addressed' = Addressed
    BY <1>1, <1>3, <2>1 DEF Addressed
  <2>3. path' = <<Empty>> \o EscapedTimes(Addressed, 1)
    BY <1>1, <2>1, FirstPath
  <2>4. PathInv'
    BY <2>1, <2>2, <2>3 DEF PathInv
  <2> QED
    BY <1>1, <1>2, <1>3, <1>5, <2>1, <2>4 DEF Inv, TypeInv, PassInv, StoreInv
<1> QED
  BY <1>4, <1>5

(* What forwardObject takes from the path of the request. *)
LEMMA SlicesArePieces ==
  ASSUME Inv, outcome = "sent"
  PROVE  /\ Split(path, keeps) = EscapedTimes(Pieces, hops + 1)
         /\ Split(path, keeps) \in Seq(Texts) /\ Len(Split(path, keeps)) = Len(Split(name, keeps)) + 1
         /\ Solid(Split(path, keeps), keeps)
         /\ Split(path, keeps)[1] = EscapedText(bucket, hops + 1)
<1>1. bucket \in Buckets /\ name \in Names /\ keeps \in BOOLEAN /\ hops + 1 \in Nat
  BY MaxHopsAssumption DEF Inv, TypeInv
<1>2. PICK pieces : pieces = Pieces
  OBVIOUS
<1>3. PICK n \in Nat : n = hops + 1
  BY <1>1
<1>4. /\ pieces \in Seq(Texts) /\ Solid(pieces, keeps) /\ Len(pieces) = Len(Split(name, keeps)) + 1
      /\ pieces[1] = bucket
  BY <1>1, <1>2, PiecesAreSolid
<1>5. PICK escaped : escaped = EscapedTimes(pieces, n)
  OBVIOUS
<1>6. escaped \in Seq(Texts) /\ Len(escaped) = Len(pieces) /\ Solid(escaped, keeps)
  BY <1>1, <1>4, <1>5, AllAreEscaped, EscapesKeepSolid
<1>7. path = <<Empty>> \o EscapedTimes(Addressed, n)
  BY <1>3 DEF Inv, PathInv
<1>8. EscapedTimes(Addressed, n) = escaped \/ EscapedTimes(Addressed, n) = Append(escaped, Empty)
  BY <1>1, <1>2, <1>4, <1>5, AddressedIs, EscapesKeepSlash
<1>9. IsPathOf(path, escaped)
  BY <1>6, <1>7, <1>8, PathsAreFramed
<1>10. Split(path, keeps) = escaped
  BY <1>1, <1>6, <1>9, SplitInvertsPath
<1>11. escaped[1] = EscapedText(bucket, n)
  <2>1. Len(pieces) # 0 /\ Len(pieces) \in Nat
    BY <1>4 DEF Solid
  <2>2. 1 \in 1..Len(pieces)
    BY <2>1
  <2>3. escaped[1] = EscapedText(pieces[1], n)
    BY <1>4, <1>5, <2>2, AllAreEscaped
  <2> QED
    BY <1>4, <2>3
<1> QED
  BY <1>2, <1>3, <1>4, <1>5, <1>6, <1>10, <1>11

LEMMA ForwardKeepsInv ==
  ASSUME Inv, ForwardObject
  PROVE  Inv'
<1>1. /\ bucket \in Buckets /\ name \in Names /\ keeps \in BOOLEAN /\ hops \in Nat /\ hops \in 0..MaxHops
      /\ outcome = "sent" /\ hops < MaxHops /\ bucket' = bucket /\ name' = name /\ keeps' = keeps
  <2>1. bucket \in Buckets /\ name \in Names /\ keeps \in BOOLEAN /\ hops \in 0..MaxHops
    BY DEF Inv, TypeInv
  <2>2. outcome = "sent" /\ hops < MaxHops /\ bucket' = bucket /\ name' = name /\ keeps' = keeps
    BY DEF ForwardObject
  <2>3. hops \in Nat
    BY <2>1
  <2> QED
    BY <2>1, <2>2, <2>3
<1>2. PICK slices : slices = Split(path, keeps)
  OBVIOUS
<1>3. /\ slices = EscapedTimes(Pieces, hops + 1) /\ slices \in Seq(Texts)
      /\ Len(slices) = Len(Split(name, keeps)) + 1 /\ Solid(slices, keeps)
      /\ slices[1] = EscapedText(bucket, hops + 1)
  BY <1>1, <1>2, SlicesArePieces
<1>4. PICK n \in Nat : n = hops + 1
  BY <1>1
<1>5. n # 0 /\ n \in 0..MaxHops
  BY <1>1, <1>4, MaxHopsAssumption
<1>6. IsMandatoryUri(slices) <=> OnePiece
  <2>1. PICK m \in Nat : m = Len(Split(name, keeps))
    BY <1>1, NamesAssumption, SplitTakesTexts DEF Strings
  <2>2. Len(slices) = m + 1
    BY <1>3, <2>1
  <2> QED
    BY <2>1, <2>2 DEF IsMandatoryUri, OnePiece
<1>7. CheckBucketName(slices[1]) <=> Fits(n)
  BY <1>1, <1>3, <1>4, FitsMeans
<1>8. Split(name, keeps)' = Split(name, keeps) /\ OnePiece' = OnePiece /\ Pieces' = Pieces
  BY <1>1, NamesDecide DEF NamesStay
<1>9. Fits(0)' = Fits(0) /\ Fits(hops)' = (Fits(hops'))
  BY <1>1 DEF Fits
<1>10. CASE ~IsMandatoryUri(slices)
  <2>1. outcome' = "not a mandatory URI" /\ hops' = hops
    BY <1>2, <1>10 DEF ForwardObject
  <2>2. hops = 0 /\ Fits(0) /\ ~OnePiece
    BY <1>1, <1>6, <1>10 DEF Inv, PassInv
  <2> QED
    BY <1>1, <1>8, <2>1, <2>2, NamesDecide DEF NamesStay, Inv, TypeInv, PathInv, PassInv, StoreInv
<1>11. CASE IsMandatoryUri(slices) /\ ~CheckBucketName(slices[1])
  <2>1. outcome' = "invalid bucket" /\ hops' = hops
    BY <1>2, <1>11 DEF ForwardObject, CreateRequest
  <2>2. OnePiece /\ ~Fits(hops + 1)
    BY <1>4, <1>6, <1>7, <1>11
  <2>3. Fits(hops)' = Fits(hops) /\ Fits(hops + 1)' = Fits(hops + 1)
    BY <1>1, <2>1 DEF Fits
  <2> QED
    BY <1>1, <1>8, <2>1, <2>2, <2>3 DEF Inv, TypeInv, PathInv, PassInv, StoreInv
<1>12. CASE IsMandatoryUri(slices) /\ CheckBucketName(slices[1])
  <2>1. hops' = n /\ outcome' = "sent" /\ path' = EncodedPath(slices[1], <<slices[Len(slices)]>>, keeps)
    BY <1>2, <1>4, <1>12 DEF ForwardObject, CreateRequest
  <2>2. Len(slices) = 2
    BY <1>12 DEF IsMandatoryUri
  <2>3. slices[2] # Empty
    BY <1>3, <2>2 DEF Solid
  <2>4. path' = PathOf(slices)
    BY <1>1, <1>3, <2>1, <2>2, <2>3, PathOfPieces
  <2>5. PICK pieces \in Seq(Texts) : pieces = Pieces
    BY <1>1, PiecesAreSolid
  <2>6. path' = <<Empty>> \o EscapedTimes(pieces, n + 1)
    BY <1>3, <1>4, <2>4, <2>5, PathOfEscaped
  <2>7. Addressed' = pieces
    BY <1>1, <1>5, <1>8, <2>1, <2>5 DEF Addressed, Pieces
  <2>8. PathInv'
    BY <2>1, <2>6, <2>7 DEF PathInv
  <2>9. Fits(hops)'
    <3>1. Fits(n)
      BY <1>7, <1>12
    <3> QED
      BY <1>1, <2>1, <3>1 DEF Fits
  <2> QED
    BY <1>1, <1>5, <1>6, <1>8, <1>12, <2>1, <2>8, <2>9 DEF Inv, TypeInv, PassInv, StoreInv
<1> QED
  BY <1>10, <1>11, <1>12

LEMMA StoreKeepsInv ==
  ASSUME Inv, Store
  PROVE  Inv'
<1>1. /\ bucket \in Buckets /\ name \in Names /\ keeps \in BOOLEAN /\ hops \in Nat
      /\ bucket' = bucket /\ name' = name /\ keeps' = keeps /\ hops' = hops
      /\ outcome = "sent" /\ outcome' = "stored"
  BY MaxHopsAssumption DEF Inv, TypeInv, Store
<1>2. OnePiece' = OnePiece /\ Fits(hops)' = Fits(hops)
  BY <1>1, NamesDecide DEF NamesStay, Fits
<1>3. Addressed' = Addressed
  BY <1>1, NamesDecide DEF NamesStay, Addressed
<1>4. PICK texts : texts = Addressed
  OBVIOUS
<1>5. texts \in Seq(Texts) /\ AreRaw(texts)
  BY <1>1, <1>4, AddressedIs
<1>6. PICK escaped : escaped = EscapedTimes(texts, hops + 1)
  OBVIOUS
<1>7. escaped \in Seq(Texts)
  BY <1>1, <1>5, <1>6, AllAreEscaped
<1>8. Tail(path) = escaped
  BY <1>1, <1>4, <1>6, <1>7, PathsAreFramed DEF Inv, PathInv
<1>9. stored' = UnescapedAll(escaped)
  BY <1>8 DEF Store, UnescapedAll
<1>10. UnescapedAll(escaped) = EscapedTimes(texts, hops)
  BY <1>1, <1>5, <1>6, AllAreEscaped
<1>11. StoreInv'
  BY <1>1, <1>3, <1>4, <1>9, <1>10 DEF StoreInv
<1> QED
  BY <1>1, <1>2, <1>11 DEF Inv, TypeInv, PathInv, PassInv

LEMMA NextKeepsInv == Inv /\ [Next]_vars => Inv'
<1> SUFFICES ASSUME Inv, [Next]_vars PROVE Inv'
  OBVIOUS
<1>1. CASE PutObject
  BY <1>1, PutKeepsInv
<1>2. CASE ForwardObject
  BY <1>2, ForwardKeepsInv
<1>3. CASE Store
  BY <1>3, StoreKeepsInv
<1>4. CASE UNCHANGED vars
  <2>1. /\ bucket' = bucket /\ name' = name /\ keeps' = keeps /\ path' = path /\ hops' = hops
        /\ outcome' = outcome /\ stored' = stored
    BY <1>4 DEF vars
  <2>2. OnePiece' = OnePiece /\ Addressed' = Addressed
    BY <2>1, NamesDecide DEF NamesStay, Addressed
  <2>3. Fits(0)' = Fits(0) /\ Fits(hops)' = Fits(hops) /\ Fits(hops + 1)' = Fits(hops + 1)
    BY <2>1 DEF Fits
  <2> QED
    BY <2>1, <2>2, <2>3 DEF Inv, TypeInv, PathInv, PassInv, StoreInv
<1> QED
  BY <1>1, <1>2, <1>3, <1>4 DEF Next, Over

(***************************************************************************)
(* The theorems                                                            *)
(***************************************************************************)

LEMMA InvAlways == Spec => []Inv
BY InvAtFirst, NextKeepsInv, PTL DEF Spec

(* For every object name, whatever its texts and their number, and for any *)
(* number of proxies: the store has the object under the bucket and the    *)
(* name that createRequest wrote into the path (minioclient.cpp:658-669),  *)
(* escaped once more by each proxy.                                        *)
THEOREM NamesAreStored == Spec => []StoredUnderItsName
<1>1. Inv => StoredUnderItsName
  BY DEF Inv, StoreInv, StoredUnderItsName, Addressed
<1> QED
  BY <1>1, InvAlways, PTL

(* For all names, and any number of proxies: how far a request gets is     *)
(* settled by the segments of its name (line 148) and by how long the      *)
(* bucket has grown that each proxy has createRequest check (line 774).    *)
THEOREM RefusalsHaveRules == Spec => []RefusedByRule
<1>1. ASSUME Inv PROVE RefusedByRule
  <2>1. name \in Seq(Texts) /\ keeps \in BOOLEAN
    BY <1>1, NamesAssumption DEF Inv, TypeInv, Strings
  <2>2. IsOneSegment <=> OnePiece
    BY <2>1, OneSegment DEF IsOneSegment, OnePiece
  <2>3. hops > 0 => hops # 0
    <3>1. hops \in 0..MaxHops
      BY <1>1 DEF Inv, TypeInv
    <3> QED
      BY <3>1
  <2> QED
    BY <1>1, <2>2, <2>3, Zenon DEF Inv, PassInv, RefusedByRule
<1> QED
  BY <1>1, InvAlways, PTL
=============================================================================
