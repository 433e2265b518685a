------------------------ MODULE EnactCollectionsProofs -----------------------
(***************************************************************************)
(* Proofs about EnactCollections, for lists of any length over any values: *)
(* a Set never holds a value twice, sets and bags obey the algebra of      *)
(* multisets, and lists keep their order.                                  *)
(***************************************************************************)
EXTENDS EnactCollections, EnactListsProofs

-----------------------------------------------------------------------------
(***************************************************************************)
(* How often a value occurs in what the operations make.                   *)
(***************************************************************************)
\* How many numbers are at most m, and how many are not.
LEMMA NumbersUpTo ==
  ASSUME NEW P, IsFiniteSet(P), NEW f, NEW m \in Nat, Matches(f, P, 1..Cardinality(P))
  PROVE  /\ Cardinality({i \in P : f[i] <= m}) = Smaller(Cardinality(P), m)
         /\ Cardinality({i \in P : f[i] > m}) = Excess(Cardinality(P), m)
<1> DEFINE N == Cardinality(P)
           Low == {i \in P : f[i] <= m}
           High == {i \in P : f[i] > m}
           g == [i \in Low |-> f[i]]
<1>1. N \in Nat /\ Smaller(N, m) \in Nat
  BY FiniteSubsets DEF Smaller
<1>2. IsFiniteSet(Low) /\ IsFiniteSet(High)
  BY FiniteSubsets
<1>3. Matches(g, Low, 1..Smaller(N, m))
  <2>1. ASSUME NEW i \in Low PROVE f[i] \in 1..Smaller(N, m)
    BY <1>1 DEF Matches, Smaller
  <2>2. ASSUME NEW k \in 1..Smaller(N, m) PROVE \E i \in Low : f[i] = k
    <3>1. k \in 1..N /\ k <= m
      BY <1>1 DEF Smaller
    <3> QED
      BY <3>1 DEF Matches
  <2> QED
    BY <2>1, <2>2 DEF Matches
<1>4. Cardinality(Low) = Smaller(N, m)
  <2>1. IsFiniteSet(1..Smaller(N, m)) /\ Cardinality(1..Smaller(N, m)) = Smaller(N, m)
    BY <1>1, FirstNumbers
  <2> HIDE DEF N, Low, g
  <2> QED
    BY <1>2, <1>3, <2>1, SameNumber
<1>5. High = P \ Low /\ P \cap Low = Low
  <2>1. \A i \in P : f[i] \in Nat
    BY <1>1 DEF Matches
  <2> QED
    BY <2>1
<1>6. Cardinality(High) = N - Cardinality(Low)
  <2>1. Cardinality(P \ Low) = Cardinality(P) - Cardinality(P \cap Low)
    BY FS_Difference, Zenon
  <2> QED
    BY <1>5, <2>1
<1>7. Cardinality(High) = Excess(N, m)
  BY <1>1, <1>4, <1>6 DEF Smaller, Excess
<1> QED
  BY <1>4, <1>7

LEMMA CountsFromBehind ==
  ASSUME NEW V, NEW s \in Seq(V), NEW e
  PROVE  Matches([i \in Positions(s, e) |-> CountFrom(s, i, e)],
                 Positions(s, e), 1..Cardinality(Positions(s, e)))
<1> DEFINE P == Positions(s, e)
           D == [i \in P |-> {j \in P : i <= j}]
<1>1. IsFiniteSet(P)
  BY CountIsPositions
<1>2. Len(s) \in Nat /\ P \subseteq 1..Len(s) /\ \A i \in P : i \in Nat
  BY DEF Positions
<1>3. ASSUME NEW i \in P PROVE CountFrom(s, i, e) = Cardinality(D[i])
  <2>1. {j \in i..Len(s) : s[j] = e} = {j \in P : i <= j}
    BY <1>2 DEF Positions
  <2> QED
    BY <2>1 DEF CountFrom
<1>4. /\ D \in [P -> SUBSET P]
      /\ \A i, j \in P : j \in D[i] <=> i <= j
  OBVIOUS
<1>5. \A i \in P : i \in D[i]
  BY <1>2, <1>4
<1>6. ASSUME NEW i \in P, NEW j \in P, i # j
      PROVE  D[i] # D[j] /\ (D[i] \subseteq D[j] \/ D[j] \subseteq D[i])
  <2> HIDE DEF D, P
  <2>1. \A a, b \in P : a < b => a \notin D[b] /\ \A k \in P : b <= k => a <= k
    BY <1>2, <1>4
  <2>2. \A a, b \in P : a < b => D[b] \subseteq D[a] /\ a \notin D[b]
    BY <1>4, <2>1
  <2>3. i < j \/ j < i
    BY <1>2, <1>6
  <2> QED
    BY <1>5, <2>2, <2>3
<1>7. Matches([i \in P |-> Cardinality(D[i])], P, 1..Cardinality(P))
  <2> HIDE DEF D, P
  <2> QED
    BY <1>1, <1>4, <1>5, <1>6, ChainNumbers
<1>8. [i \in P |-> CountFrom(s, i, e)] = [i \in P |-> Cardinality(D[i])]
  <2> HIDE DEF D, P
  <2> QED
    BY <1>3
<1> QED
  BY <1>7, <1>8

LEMMA CountsOfRest ==
  ASSUME NEW V, NEW s \in Seq(V), NEW e, NEW m \in Nat
  PROVE  /\ Cardinality({i \in Positions(s, e) : CountFrom(s, i, e) <= m}) =
              Smaller(CountValue(s, e), m)
         /\ Cardinality({i \in Positions(s, e) : CountFrom(s, i, e) > m}) =
              Excess(CountValue(s, e), m)
<1> DEFINE P == Positions(s, e)
           f == [i \in P |-> CountFrom(s, i, e)]
<1>1. IsFiniteSet(P) /\ Matches(f, P, 1..Cardinality(P)) /\ CountValue(s, e) = Cardinality(P)
  BY CountIsPositions, CountsFromBehind
<1>2. /\ Cardinality({i \in P : f[i] <= m}) = Smaller(Cardinality(P), m)
      /\ Cardinality({i \in P : f[i] > m}) = Excess(Cardinality(P), m)
  <2> HIDE DEF P, f
  <2> QED
    BY <1>1, NumbersUpTo
<1>3. /\ {i \in P : f[i] <= m} = {i \in P : CountFrom(s, i, e) <= m}
      /\ {i \in P : f[i] > m} = {i \in P : CountFrom(s, i, e) > m}
  OBVIOUS
<1> QED
  BY <1>1, <1>2, <1>3

\* Some occurrence of a value counts every one of them.
LEMMA FirstCountsAll ==
  ASSUME NEW V, NEW s \in Seq(V), NEW e
  PROVE  /\ \A i \in Positions(s, e) : /\ CountFrom(s, i, e) \in Nat
                                       /\ CountFrom(s, i, e) <= CountValue(s, e)
         /\ CountValue(s, e) # 0 =>
              \E i \in Positions(s, e) : CountFrom(s, i, e) = CountValue(s, e)
<1> DEFINE P == Positions(s, e)
           f == [i \in P |-> CountFrom(s, i, e)]
<1>1. /\ CountValue(s, e) \in Nat /\ CountValue(s, e) = Cardinality(P)
      /\ Matches(f, P, 1..Cardinality(P))
  BY CountIsPositions, CountsFromBehind
<1>2. /\ \A i \in P : f[i] \in 1..CountValue(s, e)
      /\ \A k \in 1..CountValue(s, e) : \E i \in P : f[i] = k
  <2> HIDE DEF P, f
  <2> QED
    BY <1>1 DEF Matches
<1> QED
  BY <1>1, <1>2

LEMMA CountConcatenated ==
  ASSUME NEW V, NEW s \in Seq(V), NEW t \in Seq(V), NEW e
  PROVE  CountValue(s \o t, e) = CountValue(s, e) + CountValue(t, e)
<1> DEFINE m == Len(s)
           n == Len(t)
           First == Positions(s, e)
           Second == {i \in (m + 1)..(m + n) : t[i - m] = e}
           f == [j \in Positions(t, e) |-> j + m]
<1>1. /\ m \in Nat /\ n \in Nat /\ s \o t \in Seq(V) /\ Len(s \o t) = m + n
      /\ \A i \in 1..(m + n) : (s \o t)[i] = IF i <= m THEN s[i] ELSE t[i - m]
      /\ DOMAIN s = 1..m /\ DOMAIN t = 1..n /\ DOMAIN (s \o t) = 1..(m + n)
  OBVIOUS
<1>2. Positions(s \o t, e) = First \cup Second
  <2>1. ASSUME NEW i \in 1..(m + n) PROVE (s \o t)[i] = e <=> i \in First \cup Second
    <3>1. CASE i <= m
      BY <1>1, <3>1 DEF Positions
    <3>2. CASE i > m
      BY <1>1, <3>2 DEF Positions
    <3> QED
      BY <1>1, <3>1, <3>2
  <2>2. First \cup Second \subseteq 1..(m + n)
    <3>1. \A i \in First : i \in 1..m
      BY <1>1, Zenon DEF Positions
    <3>2. \A i \in Second : i \in (m + 1)..(m + n)
      OBVIOUS
    <3>3. 1..m \subseteq 1..(m + n) /\ (m + 1)..(m + n) \subseteq 1..(m + n)
      BY <1>1
    <3> QED
      BY <3>1, <3>2, <3>3, Zenon
  <2> HIDE DEF First, Second
  <2> QED
    BY <1>1, <2>1, <2>2 DEF Positions
<1>3. First \cap Second = {}
  BY <1>1 DEF Positions
<1>4. Matches(f, Positions(t, e), Second)
  <2>1. \A j \in Positions(t, e) : j \in Nat /\ f[j] = j + m /\ f[j] \in Second
    BY <1>1 DEF Positions
  <2>2. ASSUME NEW k \in Second PROVE k - m \in Positions(t, e) /\ f[k - m] = k
    <3>1. k - m \in 1..n /\ k - m + m = k /\ t[k - m] = e
      BY <1>1
    <3> QED
      BY <1>1, <3>1 DEF Positions
  <2>3. f \in [Positions(t, e) -> Second]
    BY <2>1
  <2> HIDE DEF Second, f
  <2>4. \A i, j \in Positions(t, e) : f[i] = f[j] => i = j
    BY <1>1, <2>1
  <2> QED
    BY <2>2, <2>3, <2>4 DEF Matches
<1>5. /\ IsFiniteSet(First) /\ CountValue(s, e) = Cardinality(First) /\ CountValue(s, e) \in Nat
      /\ IsFiniteSet(Positions(t, e)) /\ CountValue(t, e) = Cardinality(Positions(t, e))
      /\ CountValue(s \o t, e) = Cardinality(Positions(s \o t, e))
  BY <1>1, CountIsPositions
<1>6. IsFiniteSet(Second) /\ Cardinality(Second) = CountValue(t, e)
  <2> HIDE DEF Second, f
  <2> QED
    BY <1>4, <1>5, SameNumber
<1>7. Cardinality(First \cup Second) = Cardinality(First) + Cardinality(Second)
  <2> HIDE DEF First, Second
  <2>1. Cardinality(First \cup Second) =
          Cardinality(First) + Cardinality(Second) - Cardinality(First \cap Second)
    BY <1>5, <1>6, FS_Union, Zenon
  <2>2. Cardinality(First \cap Second) = 0
    BY <1>3, FS_EmptySet
  <2>3. Cardinality(First) \in Nat /\ Cardinality(Second) \in Nat
    BY <1>5, <1>6, FS_CardinalityType
  <2> QED
    BY <2>1, <2>2, <2>3
<1> QED
  BY <1>2, <1>5, <1>6, <1>7

LEMMA CountInDistinct ==
  ASSUME NEW V, NEW s \in Seq(V), NEW e, IsDistinct(s)
  PROVE  CountValue(s, e) = IF e \in ToSet(s) THEN 1 ELSE 0
<1>1. /\ CountValue(s, e) = Cardinality(Positions(s, e))
      /\ CountValue(s, e) = 0 <=> e \notin ToSet(s)
  BY CountIsPositions
<1>2. ASSUME e \in ToSet(s) PROVE CountValue(s, e) = 1
  <2>1. PICK i \in DOMAIN s : s[i] = e
    BY <1>2 DEF ToSet
  <2>2. Positions(s, e) = {i}
    BY <2>1 DEF Positions, IsDistinct
  <2> QED
    BY <1>1, <2>2, FS_Singleton
<1> QED
  BY <1>1, <1>2

LEMMA DifferenceKeeps ==
  ASSUME NEW V, NEW l \in Seq(V), NEW r \in Seq(V)
  PROVE  /\ DifferenceLists(l, r) \in Seq(V)
         /\ ToSet(DifferenceLists(l, r)) = ToSet(l) \ ToSet(r)
         /\ IsDistinct(l) => IsDistinct(DifferenceLists(l, r))
<1> DEFINE I == {i \in DOMAIN l : l[i] \notin ToSet(r)}
<1>1. I \in SUBSET DOMAIN l /\ DifferenceLists(l, r) = Pick(l, I)
  BY DEF DifferenceLists
<1>2. {l[i] : i \in I} = ToSet(l) \ ToSet(r)
  BY DEF ToSet
<1>3. IsDistinct(l) => \A i, j \in I : l[i] = l[j] => i = j
  BY DEF IsDistinct
<1> HIDE DEF I
<1>4. Pick(l, I) \in Seq(V)
  BY <1>1, Picked
<1>5. /\ ToSet(Pick(l, I)) = {l[i] : i \in I}
      /\ (\A i, j \in I : l[i] = l[j] => i = j) => IsDistinct(Pick(l, I))
  BY <1>1, MembersPicked
<1> QED
  BY <1>1, <1>2, <1>3, <1>4, <1>5

LEMMA IntersectionKeeps ==
  ASSUME NEW V, NEW l \in Seq(V), NEW r \in Seq(V)
  PROVE  /\ IntersectionLists(l, r) \in Seq(V)
         /\ ToSet(IntersectionLists(l, r)) = ToSet(l) \cap ToSet(r)
         /\ IsDistinct(l) => IsDistinct(IntersectionLists(l, r))
<1> DEFINE I == {i \in DOMAIN l : l[i] \in ToSet(r)}
<1>1. I \in SUBSET DOMAIN l /\ IntersectionLists(l, r) = Pick(l, I)
  BY DEF IntersectionLists
<1>2. {l[i] : i \in I} = ToSet(l) \cap ToSet(r)
  BY DEF ToSet
<1>3. IsDistinct(l) => \A i, j \in I : l[i] = l[j] => i = j
  BY DEF IsDistinct
<1> HIDE DEF I
<1>4. Pick(l, I) \in Seq(V)
  BY <1>1, Picked
<1>5. /\ ToSet(Pick(l, I)) = {l[i] : i \in I}
      /\ (\A i, j \in I : l[i] = l[j] => i = j) => IsDistinct(Pick(l, I))
  BY <1>1, MembersPicked
<1> QED
  BY <1>1, <1>2, <1>3, <1>4, <1>5

LEMMA ConcatenationMembers ==
  ASSUME NEW V, NEW s \in Seq(V), NEW t \in Seq(V)
  PROVE  /\ s \o t \in Seq(V) /\ Len(s \o t) = Len(s) + Len(t)
         /\ ToSet(s \o t) = ToSet(s) \cup ToSet(t)
         /\ IsDistinct(s) /\ IsDistinct(t) /\ ToSet(s) \cap ToSet(t) = {} => IsDistinct(s \o t)
<1> DEFINE m == Len(s)
           n == Len(t)
           u == s \o t
<1>1. /\ m \in Nat /\ n \in Nat /\ u \in Seq(V) /\ Len(u) = m + n
      /\ DOMAIN s = 1..m /\ DOMAIN t = 1..n /\ DOMAIN u = 1..(m + n)
      /\ \A k \in 1..(m + n) : u[k] = IF k <= m THEN s[k] ELSE t[k - m]
  OBVIOUS
<1>2. /\ \A i \in 1..m : i \in 1..(m + n) /\ u[i] = s[i]
      /\ \A i \in 1..n : i + m \in 1..(m + n) /\ u[i + m] = t[i]
  BY <1>1
<1>3. \A k \in 1..(m + n) :
        (k \in 1..m /\ u[k] = s[k]) \/ (k - m \in 1..n /\ u[k] = t[k - m])
  <2>2. \A k \in 1..(m + n) : (k \in 1..m /\ k <= m) \/ (k - m \in 1..n /\ ~(k <= m))
    BY <1>1
  <2> QED
    BY <1>1, <2>2
<1> HIDE DEF m, n, u
<1>4. ToSet(u) = ToSet(s) \cup ToSet(t)
  <2>1. ToSet(u) = {u[k] : k \in 1..(m + n)} /\ ToSet(s) = {s[k] : k \in 1..m}
        /\ ToSet(t) = {t[k] : k \in 1..n}
    BY <1>1 DEF ToSet
  <2>2. ToSet(u) \subseteq ToSet(s) \cup ToSet(t)
    BY <2>1, <1>3
  <2>3. ToSet(s) \subseteq ToSet(u) /\ ToSet(t) \subseteq ToSet(u)
    BY <2>1, <1>2
  <2> QED
    BY <2>2, <2>3
<1>5. ASSUME IsDistinct(s), IsDistinct(t), ToSet(s) \cap ToSet(t) = {} PROVE IsDistinct(u)
  <2>1. \A i \in 1..m, j \in 1..n : s[i] # t[j]
    BY <1>1, <1>5 DEF ToSet
  <2>2. /\ \A i, j \in 1..m : s[i] = s[j] => i = j
        /\ \A i, j \in 1..n : t[i] = t[j] => i = j
    BY <1>1, <1>5, Zenon DEF IsDistinct
  <2>3. ASSUME NEW i \in 1..(m + n), NEW j \in 1..(m + n), u[i] = u[j] PROVE i = j
    <3>1. CASE i \in 1..m /\ u[i] = s[i]
      BY <1>3, <2>1, <2>2, <2>3, <3>1
    <3>2. CASE i - m \in 1..n /\ u[i] = t[i - m]
      <4>1. j - m \in 1..n /\ u[j] = t[j - m]
        BY <1>3, <2>1, <2>3, <3>2
      <4>2. i - m = j - m
        BY <2>2, <2>3, <3>2, <4>1
      <4> QED
        BY <1>1, <4>2
    <3> QED
      BY <1>3, <3>1, <3>2
  <2> QED
    BY <1>1, <2>3 DEF IsDistinct
<1> QED
  BY <1>1, <1>4, <1>5 DEF m, n, u

\* What a list may hold as the items of a collection.
Contents(V, kind) == {s \in Seq(V) : kind = "Set" => IsDistinct(s)}

\* What each walk of the code does to the occurrences of a value.
LEMMA DifferenceCounts ==
  ASSUME NEW V, NEW kind \in {"Set", "Bag"}, NEW l \in Contents(V, kind),
         NEW r \in Contents(V, kind),
         NEW u, u = IF kind = "Bag" THEN BagDifferenceLists(l, r) ELSE DifferenceLists(l, r)
  PROVE  /\ u \in Contents(V, kind)
         /\ \A e : CountValue(u, e) = Excess(CountValue(l, e), CountValue(r, e))
<1>1. CASE kind = "Bag"
  <2> DEFINE I == {i \in DOMAIN l : CountFrom(l, i, l[i]) > CountValue(r, l[i])}
  <2>1. l \in Seq(V) /\ r \in Seq(V) /\ u = Pick(l, I) /\ I \in SUBSET DOMAIN l
    BY <1>1 DEF Contents, BagDifferenceLists
  <2>2. u \in Contents(V, kind)
    BY <1>1, <2>1, Picked DEF Contents
  <2>3. ASSUME NEW e PROVE CountValue(u, e) = Excess(CountValue(l, e), CountValue(r, e))
    <3>1. CountValue(u, e) = Cardinality({i \in I : l[i] = e})
      <4> HIDE DEF I
      <4> QED
        BY <2>1, CountPicked
    <3>2. {i \in I : l[i] = e} = {i \in Positions(l, e) : CountFrom(l, i, e) > CountValue(r, e)}
      BY DEF Positions
    <3>3. CountValue(r, e) \in Nat
      BY <2>1, CountIsPositions
    <3>4. Cardinality({i \in Positions(l, e) : CountFrom(l, i, e) > CountValue(r, e)}) =
            Excess(CountValue(l, e), CountValue(r, e))
      BY <2>1, <3>3, CountsOfRest
    <3> QED
      BY <3>1, <3>2, <3>4
  <2> QED
    BY <2>2, <2>3
<1>2. CASE kind = "Set"
  <2>1. l \in Seq(V) /\ r \in Seq(V) /\ IsDistinct(l) /\ IsDistinct(r) /\ u = DifferenceLists(l, r)
    BY <1>2 DEF Contents
  <2>2. u \in Seq(V) /\ IsDistinct(u) /\ ToSet(u) = ToSet(l) \ ToSet(r)
    BY <2>1, DifferenceKeeps
  <2>3. ASSUME NEW e PROVE CountValue(u, e) = Excess(CountValue(l, e), CountValue(r, e))
    <3>1. /\ CountValue(l, e) = IF e \in ToSet(l) THEN 1 ELSE 0
          /\ CountValue(r, e) = IF e \in ToSet(r) THEN 1 ELSE 0
          /\ CountValue(u, e) = IF e \in ToSet(u) THEN 1 ELSE 0
      BY <2>1, <2>2, CountInDistinct
    <3> QED
      BY <2>2, <3>1 DEF Excess
  <2> QED
    BY <2>2, <2>3 DEF Contents
<1> QED
  BY <1>1, <1>2

LEMMA IntersectionCounts ==
  ASSUME NEW V, NEW kind \in {"Set", "Bag"}, NEW l \in Contents(V, kind),
         NEW r \in Contents(V, kind),
         NEW u, u = IF kind = "Bag" THEN BagIntersectionLists(l, r) ELSE IntersectionLists(l, r)
  PROVE  /\ u \in Contents(V, kind)
         /\ \A e : CountValue(u, e) = Smaller(CountValue(l, e), CountValue(r, e))
<1>1. CASE kind = "Bag"
  <2> DEFINE I == {i \in DOMAIN l : CountFrom(l, i, l[i]) <= CountValue(r, l[i])}
  <2>1. l \in Seq(V) /\ r \in Seq(V) /\ u = Pick(l, I) /\ I \in SUBSET DOMAIN l
    BY <1>1 DEF Contents, BagIntersectionLists
  <2>2. u \in Contents(V, kind)
    BY <1>1, <2>1, Picked DEF Contents
  <2>3. ASSUME NEW e PROVE CountValue(u, e) = Smaller(CountValue(l, e), CountValue(r, e))
    <3>1. CountValue(u, e) = Cardinality({i \in I : l[i] = e})
      <4> HIDE DEF I
      <4> QED
        BY <2>1, CountPicked
    <3>2. {i \in I : l[i] = e} = {i \in Positions(l, e) : CountFrom(l, i, e) <= CountValue(r, e)}
      BY DEF Positions
    <3>3. CountValue(r, e) \in Nat
      BY <2>1, CountIsPositions
    <3>4. Cardinality({i \in Positions(l, e) : CountFrom(l, i, e) <= CountValue(r, e)}) =
            Smaller(CountValue(l, e), CountValue(r, e))
      BY <2>1, <3>3, CountsOfRest
    <3> QED
      BY <3>1, <3>2, <3>4
  <2> QED
    BY <2>2, <2>3
<1>2. CASE kind = "Set"
  <2>1. l \in Seq(V) /\ r \in Seq(V) /\ IsDistinct(l) /\ IsDistinct(r)
        /\ u = IntersectionLists(l, r)
    BY <1>2 DEF Contents
  <2>2. u \in Seq(V) /\ IsDistinct(u) /\ ToSet(u) = ToSet(l) \cap ToSet(r)
    BY <2>1, IntersectionKeeps
  <2>3. ASSUME NEW e PROVE CountValue(u, e) = Smaller(CountValue(l, e), CountValue(r, e))
    <3>1. /\ CountValue(l, e) = IF e \in ToSet(l) THEN 1 ELSE 0
          /\ CountValue(r, e) = IF e \in ToSet(r) THEN 1 ELSE 0
          /\ CountValue(u, e) = IF e \in ToSet(u) THEN 1 ELSE 0
      BY <2>1, <2>2, CountInDistinct
    <3> QED
      BY <2>2, <3>1 DEF Smaller
  <2> QED
    BY <2>2, <2>3 DEF Contents
<1> QED
  BY <1>1, <1>2

LEMMA UnionCounts ==
  ASSUME NEW V, NEW kind \in {"Set", "Bag"}, NEW l \in Contents(V, kind),
         NEW r \in Contents(V, kind)
  PROVE  /\ UnionItems(kind, l, r) \in Contents(V, kind)
         /\ \A e : CountValue(UnionItems(kind, l, r), e) =
                     Larger(CountValue(l, e), CountValue(r, e))
<1> DEFINE d == IF kind = "Bag" THEN BagDifferenceLists(l, r) ELSE DifferenceLists(l, r)
<1>1. UnionItems(kind, l, r) = d \o r
  BY DEF UnionItems, BagUnionLists, UnionLists
<1>2. /\ d \in Contents(V, kind)
      /\ \A e : CountValue(d, e) = Excess(CountValue(l, e), CountValue(r, e))
  <2> HIDE DEF d
  <2>1. d = IF kind = "Bag" THEN BagDifferenceLists(l, r) ELSE DifferenceLists(l, r)
    BY DEF d
  <2> QED
    BY <2>1, DifferenceCounts
<1>3. l \in Seq(V) /\ r \in Seq(V) /\ d \in Seq(V)
  BY <1>2 DEF Contents
<1>4. kind = "Set" => IsDistinct(d) /\ IsDistinct(r) /\ ToSet(d) \cap ToSet(r) = {}
  <2> HAVE kind = "Set"
  <2>1. ToSet(d) = ToSet(l) \ ToSet(r)
    BY <1>3, DifferenceKeeps
  <2> HIDE DEF d
  <2> QED
    BY <1>2, <2>1 DEF Contents
<1> HIDE DEF d
<1>5. d \o r \in Contents(V, kind)
  BY <1>3, <1>4, ConcatenationMembers DEF Contents
<1>6. ASSUME NEW e PROVE CountValue(d \o r, e) = Larger(CountValue(l, e), CountValue(r, e))
  <2>1. CountValue(d \o r, e) = CountValue(d, e) + CountValue(r, e)
    BY <1>3, CountConcatenated
  <2>2. CountValue(l, e) \in Nat /\ CountValue(r, e) \in Nat
    BY <1>3, CountIsPositions
  <2> QED
    BY <1>2, <2>1, <2>2 DEF Excess, Larger
<1> QED
  BY <1>1, <1>5, <1>6

LEMMA FirstPosition ==
  ASSUME NEW V, NEW s \in Seq(V), NEW e, e \in ToSet(s)
  PROVE  \E p \in Positions(s, e) : \A i \in Positions(s, e) : p <= i
<1> DEFINE P == Positions(s, e)
<1>1. /\ IsFiniteSet(P) /\ CountValue(s, e) = Cardinality(P) /\ CountValue(s, e) # 0
      /\ Len(s) \in Nat /\ DOMAIN s = 1..Len(s)
  BY CountIsPositions
<1>2. PICK p \in P : CountFrom(s, p, e) = CountValue(s, e)
  BY <1>1, FirstCountsAll
<1>3. {j \in p..Len(s) : s[j] = e} \in SUBSET P
  BY <1>1 DEF Positions
<1>4. {j \in p..Len(s) : s[j] = e} = P
  <2> HIDE DEF P
  <2>1. Cardinality({j \in p..Len(s) : s[j] = e}) = Cardinality(P)
    BY <1>1, <1>2 DEF CountFrom
  <2> QED
    BY <1>1, <1>3, <2>1, FiniteSubsets
<1>5. \A i \in P : p <= i
  <2> HIDE DEF P
  <2> QED
    BY <1>4
<1> QED
  BY <1>5

LEMMA RemoveCounts ==
  ASSUME NEW V, NEW kind, NEW s \in Contents(V, kind), NEW e
  PROVE  /\ RemoveOne(e, s) \in Contents(V, kind)
         /\ \A x : CountValue(RemoveOne(e, s), x) =
                     IF x = e THEN Excess(CountValue(s, e), 1) ELSE CountValue(s, x)
<1> DEFINE I == {i \in DOMAIN s : s[i] # e \/ \E j \in 1..(i - 1) : s[j] = e}
           P == Positions(s, e)
<1>1. s \in Seq(V) /\ I \in SUBSET DOMAIN s /\ RemoveOne(e, s) = Pick(s, I)
  BY DEF Contents, RemoveOne
<1>2. Len(s) \in Nat /\ DOMAIN s = 1..Len(s)
  BY <1>1
<1>3. Pick(s, I) \in Contents(V, kind)
  <2>1. IsDistinct(s) => \A i, j \in I : s[i] = s[j] => i = j
    BY DEF IsDistinct
  <2> HIDE DEF I
  <2>2. Pick(s, I) \in Seq(V)
    BY <1>1, Picked
  <2>3. (\A i, j \in I : s[i] = s[j] => i = j) => IsDistinct(Pick(s, I))
    BY <1>1, MembersPicked
  <2> QED
    BY <2>1, <2>2, <2>3 DEF Contents
<1>4. ASSUME NEW x PROVE CountValue(Pick(s, I), x) = Cardinality({i \in I : s[i] = x})
  <2> HIDE DEF I
  <2> QED
    BY <1>1, CountPicked
<1>5. ASSUME NEW x, x # e PROVE CountValue(Pick(s, I), x) = CountValue(s, x)
  <2>1. {i \in I : s[i] = x} = Positions(s, x)
    BY <1>5 DEF Positions
  <2>2. CountValue(s, x) = Cardinality(Positions(s, x))
    BY <1>1, CountIsPositions
  <2> HIDE DEF I
  <2> QED
    BY <1>4, <2>1, <2>2
<1>6. CountValue(Pick(s, I), e) = Excess(CountValue(s, e), 1)
  <2> DEFINE K == {i \in I : s[i] = e}
  <2>1. /\ IsFiniteSet(P) /\ CountValue(s, e) \in Nat /\ CountValue(s, e) = Cardinality(P)
        /\ CountValue(s, e) = 0 <=> e \notin ToSet(s)
    BY <1>1, CountIsPositions
  <2>2. K = {i \in P : \E j \in P : j < i}
    BY <1>2 DEF Positions
  <2>3. CASE e \notin ToSet(s)
    <3>1. P = {}
      BY <2>3 DEF Positions, ToSet
    <3>2. K = {}
      BY <2>2, <3>1
    <3>3. Cardinality(K) = 0
      BY <3>2, FS_EmptySet
    <3> QED
      BY <1>4, <2>1, <2>3, <3>3 DEF Excess
  <2>4. CASE e \in ToSet(s)
    <3>1. PICK p \in P : \A i \in P : p <= i
      BY <1>1, <2>4, FirstPosition
    <3>2. \A i \in P : i \in Nat
      BY <1>2 DEF Positions
    <3>3. K = P \ {p}
      <4>1. \A i \in P : (\E j \in P : j < i) <=> i # p
        <5> HIDE DEF P
        <5> QED
          BY <3>1, <3>2
      <4> HIDE DEF P, K
      <4> QED
        BY <2>2, <4>1
    <3>4. Cardinality(P \ {p}) = Cardinality(P) - 1
      BY <2>1, <3>1, FS_RemoveElement
    <3> HIDE DEF P
    <3>5. Cardinality(K) = CountValue(s, e) - 1
      BY <2>1, <3>3, <3>4
    <3> QED
      BY <1>4, <2>1, <2>4, <3>5 DEF Excess
  <2> QED
    BY <2>3, <2>4
<1> QED
  BY <1>1, <1>3, <1>5, <1>6

LEMMA DistinctItemsDistinct ==
  ASSUME NEW V, NEW s \in Seq(V)
  PROVE  DistinctItems(s) \in Contents(V, "Set")
<1> DEFINE I == {i \in DOMAIN s : CountFrom(s, i + 1, s[i]) = 0}
<1>1. /\ I \in SUBSET DOMAIN s /\ DistinctItems(s) = Pick(s, I)
      /\ Len(s) \in Nat /\ DOMAIN s = 1..Len(s)
  BY DEF DistinctItems
<1>2. ASSUME NEW i \in I, NEW j \in I, i < j PROVE s[i] # s[j]
  <2> DEFINE later == {k \in (i + 1)..Len(s) : s[k] = s[i]}
  <2>1. i \in 1..Len(s) /\ j \in 1..Len(s)
    BY <1>1
  <2>2. later \in SUBSET (1..Len(s)) /\ IsFiniteSet(1..Len(s))
    BY <1>1, <2>1, FirstNumbers
  <2>3. Cardinality(later) = 0
    BY DEF CountFrom
  <2>4. later = {}
    <3> HIDE DEF later
    <3> QED
      BY <2>2, <2>3, FiniteSubsets
  <2>5. j \in (i + 1)..Len(s)
    BY <1>2, <2>1
  <2> QED
    BY <2>4, <2>5
<1>3. \A i, j \in I : s[i] = s[j] => i = j
  <2>1. \A i \in I : i \in Nat
    BY <1>1
  <2> HIDE DEF I
  <2> QED
    BY <1>2, <2>1
<1> HIDE DEF I
<1>4. Pick(s, I) \in Seq(V)
  BY <1>1, Picked
<1>5. IsDistinct(Pick(s, I))
  BY <1>1, <1>3, MembersPicked
<1> QED
  BY <1>1, <1>4, <1>5 DEF Contents

LEMMA SubsetCounts ==
  ASSUME NEW V, NEW kind \in {"Set", "Bag"}, NEW l \in Contents(V, kind),
         NEW r \in Contents(V, kind)
  PROVE  (IF kind = "Set" THEN ListIsSubset(l, r) ELSE ListIsBagSubset(l, r)) <=>
           \A e \in V : CountValue(l, e) <= CountValue(r, e)
<1>1. /\ l \in Seq(V) /\ r \in Seq(V) /\ DOMAIN l = 1..Len(l)
      /\ \A i \in DOMAIN l : l[i] \in V
      /\ ToSet(l) \subseteq V
  BY DEF Contents, ToSet
<1>2. \A e : CountValue(l, e) \in Nat /\ CountValue(r, e) \in Nat
  BY <1>1, CountIsPositions
<1>3. CASE kind = "Set"
  <2>1. \A e : /\ CountValue(l, e) = IF e \in ToSet(l) THEN 1 ELSE 0
               /\ CountValue(r, e) = IF e \in ToSet(r) THEN 1 ELSE 0
    BY <1>1, <1>3, CountInDistinct DEF Contents
  <2>2. \A e : CountValue(l, e) <= CountValue(r, e) <=> (e \in ToSet(l) => e \in ToSet(r))
    BY <2>1
  <2>3. ListIsSubset(l, r) <=> \A e \in V : e \in ToSet(l) => e \in ToSet(r)
    BY <1>1 DEF ListIsSubset
  <2> QED
    BY <1>3, <2>2, <2>3
<1>4. CASE kind = "Bag"
  <2>1. ASSUME ListIsBagSubset(l, r), NEW e \in V
        PROVE  CountValue(l, e) <= CountValue(r, e)
    <3>1. CASE CountValue(l, e) = 0
      BY <1>2, <3>1
    <3>2. CASE CountValue(l, e) # 0
      <4>1. PICK i \in Positions(l, e) : CountFrom(l, i, e) = CountValue(l, e)
        BY <1>1, <3>2, FirstCountsAll
      <4>2. i \in DOMAIN l /\ l[i] = e
        BY <4>1 DEF Positions
      <4> QED
        BY <2>1, <4>1, <4>2 DEF ListIsBagSubset
    <3> QED
      BY <3>1, <3>2
  <2>2. ASSUME \A e \in V : CountValue(l, e) <= CountValue(r, e), NEW i \in DOMAIN l
        PROVE  CountFrom(l, i, l[i]) <= CountValue(r, l[i])
    <3>1. i \in Positions(l, l[i])
      BY DEF Positions
    <3>2. CountFrom(l, i, l[i]) \in Nat /\ CountFrom(l, i, l[i]) <= CountValue(l, l[i])
      BY <1>1, <3>1, FirstCountsAll
    <3>3. CountValue(l, l[i]) <= CountValue(r, l[i])
      BY <1>1, <2>2
    <3> QED
      BY <1>2, <3>2, <3>3
  <2>3. ListIsBagSubset(l, r) <=> \A e \in V : CountValue(l, e) <= CountValue(r, e)
    BY <2>1, <2>2 DEF ListIsBagSubset
  <2> QED
    BY <1>4, <2>3
<1> QED
  BY <1>3, <1>4

-----------------------------------------------------------------------------
(***************************************************************************)
(* The builtins on collections.                                            *)
(***************************************************************************)
Records == [kind : Kinds, items : Seq(Elem)]

LEMMA CollectionContents ==
  ASSUME NEW c
  PROVE  Collection(c) <=> c \in Records /\ c.items \in Contents(Elem, c.kind)
BY DEF Collection, Records, Contents

LEMMA WithContents ==
  ASSUME NEW c \in Records, NEW s \in Contents(Elem, c.kind)
  PROVE  /\ Collection(WithItems(c, s))
         /\ WithItems(c, s).kind = c.kind /\ WithItems(c, s).items = s
<1>1. WithItems(c, s) \in Records /\ WithItems(c, s).kind = c.kind /\ WithItems(c, s).items = s
  BY DEF WithItems, Records, Contents
<1> QED
  BY <1>1, CollectionContents

LEMMA DifferenceWorks ==
  ASSUME NEW c, NEW d, Collection(c), Collection(d), c.kind = d.kind
  PROVE  /\ Collection(Difference(c, d)) /\ Difference(c, d).kind = c.kind
         /\ c.kind # "List" =>
              \A e : Count(Difference(c, d), e) = Excess(Count(c, e), Count(d, e))
<1> DEFINE u == IF c.kind = "Bag" THEN BagDifferenceLists(c.items, d.items)
                                  ELSE DifferenceLists(c.items, d.items)
<1>1. /\ c \in Records /\ c.items \in Contents(Elem, c.kind)
      /\ d.items \in Contents(Elem, c.kind)
      /\ c.kind \in Kinds /\ Difference(c, d) = WithItems(c, u)
  BY CollectionContents DEF Records, Difference
<1>2. ASSUME c.kind # "List"
      PROVE  /\ u \in Contents(Elem, c.kind)
             /\ \A e : CountValue(u, e) = Excess(CountValue(c.items, e), CountValue(d.items, e))
  <2>1. c.kind \in {"Set", "Bag"}
    BY <1>1, <1>2 DEF Kinds
  <2>2. u = IF c.kind = "Bag" THEN BagDifferenceLists(c.items, d.items)
                              ELSE DifferenceLists(c.items, d.items)
    OBVIOUS
  <2> HIDE DEF u
  <2> QED
    BY <1>1, <2>1, <2>2, DifferenceCounts
<1>3. ASSUME c.kind = "List" PROVE u \in Contents(Elem, c.kind)
  BY <1>1, <1>3, DifferenceKeeps DEF Contents
<1>4. u \in Contents(Elem, c.kind)
  <2> HIDE DEF u
  <2> QED
    BY <1>2, <1>3
<1>5. /\ Collection(Difference(c, d)) /\ Difference(c, d).kind = c.kind
      /\ Difference(c, d).items = u
  <2> HIDE DEF u
  <2> QED
    BY <1>1, <1>4, WithContents
<1> HIDE DEF u
<1> QED
  BY <1>2, <1>5 DEF Count

LEMMA IntersectionWorks ==
  ASSUME NEW c, NEW d, Collection(c), Collection(d), c.kind = d.kind
  PROVE  /\ Collection(Intersection(c, d)) /\ Intersection(c, d).kind = c.kind
         /\ c.kind # "List" =>
              \A e : Count(Intersection(c, d), e) = Smaller(Count(c, e), Count(d, e))
<1> DEFINE u == IF c.kind = "Bag" THEN BagIntersectionLists(c.items, d.items)
                                  ELSE IntersectionLists(c.items, d.items)
<1>1. /\ c \in Records /\ c.items \in Contents(Elem, c.kind)
      /\ d.items \in Contents(Elem, c.kind)
      /\ c.kind \in Kinds /\ Intersection(c, d) = WithItems(c, u)
  BY CollectionContents DEF Records, Intersection
<1>2. ASSUME c.kind # "List"
      PROVE  /\ u \in Contents(Elem, c.kind)
             /\ \A e : CountValue(u, e) = Smaller(CountValue(c.items, e), CountValue(d.items, e))
  <2>1. c.kind \in {"Set", "Bag"}
    BY <1>1, <1>2 DEF Kinds
  <2>2. u = IF c.kind = "Bag" THEN BagIntersectionLists(c.items, d.items)
                              ELSE IntersectionLists(c.items, d.items)
    OBVIOUS
  <2> HIDE DEF u
  <2> QED
    BY <1>1, <2>1, <2>2, IntersectionCounts
<1>3. ASSUME c.kind = "List" PROVE u \in Contents(Elem, c.kind)
  BY <1>1, <1>3, IntersectionKeeps DEF Contents
<1>4. u \in Contents(Elem, c.kind)
  <2> HIDE DEF u
  <2> QED
    BY <1>2, <1>3
<1>5. /\ Collection(Intersection(c, d)) /\ Intersection(c, d).kind = c.kind
      /\ Intersection(c, d).items = u
  <2> HIDE DEF u
  <2> QED
    BY <1>1, <1>4, WithContents
<1> HIDE DEF u
<1> QED
  BY <1>2, <1>5 DEF Count

LEMMA UnionWorks ==
  ASSUME NEW c, NEW d, Collection(c), Collection(d), c.kind = d.kind
  PROVE  /\ Collection(Union(c, d)) /\ Union(c, d).kind = c.kind
         /\ c.kind # "List" => \A e : Count(Union(c, d), e) = Larger(Count(c, e), Count(d, e))
<1> DEFINE u == UnionItems(c.kind, c.items, d.items)
<1>1. /\ c \in Records /\ c.items \in Contents(Elem, c.kind)
      /\ d.items \in Contents(Elem, c.kind)
      /\ c.kind \in Kinds /\ Union(c, d) = WithItems(c, u)
  BY CollectionContents DEF Records, Union
<1>2. ASSUME c.kind # "List"
      PROVE  /\ u \in Contents(Elem, c.kind)
             /\ \A e : CountValue(u, e) = Larger(CountValue(c.items, e), CountValue(d.items, e))
  <2>1. c.kind \in {"Set", "Bag"}
    BY <1>1, <1>2 DEF Kinds
  <2> QED
    BY <1>1, <2>1, UnionCounts
<1>3. ASSUME c.kind = "List" PROVE u \in Contents(Elem, c.kind)
  <2>1. c.items \in Seq(Elem) /\ d.items \in Seq(Elem)
    BY <1>1 DEF Contents
  <2>2. u = DifferenceLists(c.items, d.items) \o d.items
    BY <1>3 DEF UnionItems, UnionLists
  <2>3. DifferenceLists(c.items, d.items) \in Seq(Elem)
    BY <2>1, DifferenceKeeps
  <2>4. u \in Seq(Elem)
    BY <2>1, <2>2, <2>3, ConcatenationMembers
  <2> QED
    BY <1>3, <2>4 DEF Contents
<1> HIDE DEF u
<1>4. /\ Collection(Union(c, d)) /\ Union(c, d).kind = c.kind
      /\ Union(c, d).items = u
  BY <1>1, <1>2, <1>3, WithContents
<1> QED
  BY <1>2, <1>4 DEF Count

LEMMA SubsetWorks ==
  ASSUME NEW c, NEW d, Collection(c), Collection(d), c.kind = d.kind, c.kind # "List"
  PROVE  /\ Subset(c, d) <=> \A e \in Elem : Count(c, e) <= Count(d, e)
         /\ Equal(c, d) <=> \A e \in Elem : Count(c, e) = Count(d, e)
<1>1. /\ c.items \in Contents(Elem, c.kind) /\ d.items \in Contents(Elem, c.kind)
      /\ c.kind \in {"Set", "Bag"}
  BY CollectionContents DEF Records, Kinds
<1>2. /\ Subset(c, d) <=> \A e \in Elem : Count(c, e) <= Count(d, e)
      /\ Subset(d, c) <=> \A e \in Elem : Count(d, e) <= Count(c, e)
  BY <1>1, SubsetCounts DEF Subset, Count
<1>3. \A e : Count(c, e) \in Nat /\ Count(d, e) \in Nat
  BY <1>1, CountIsPositions DEF Contents, Count
<1> QED
  BY <1>2, <1>3 DEF Equal

LEMMA AggregateWorks ==
  ASSUME NEW cs, NEW n \in {2, 3}, cs \in [1..n -> Records],
         \A i \in 1..n : Collection(cs[i]) /\ cs[i].kind = cs[1].kind,
         cs[1].kind # "List", Len(cs) = n
  PROVE  /\ Collection(UnionAggregate(cs)) /\ UnionAggregate(cs).kind = cs[1].kind
         /\ \A e : Count(UnionAggregate(cs), e) =
                     LET two == Larger(Count(cs[1], e), Count(cs[2], e))
                     IN IF n = 2 THEN two ELSE Larger(two, Count(cs[3], e))
<1> DEFINE kind == cs[1].kind
           U(s, i) == UnionItems(kind, s, cs[i].items)
           Def(f) == f = [k \in 0..n |-> IF k = 0 THEN <<>> ELSE U(f[k - 1], k)]
           one == U(<<>>, 1)
           two == U(one, 2)
           three == U(two, 3)
           g == [k \in 0..n |-> IF k = 0 THEN <<>> ELSE IF k = 1 THEN one
                                ELSE IF k = 2 THEN two ELSE three]
           all == CHOOSE f : Def(f)
<1>1. UnionAggregate(cs) = WithItems(cs[1], all[n])
  BY DEF UnionAggregate
<1>2. Def(g)
  <2>1. ASSUME NEW k \in 0..n PROVE g[k] = IF k = 0 THEN <<>> ELSE U(g[k - 1], k)
    <3> HIDE DEF U
    <3>1. k = 0 \/ k = 1 \/ k = 2 \/ k = 3
      OBVIOUS
    <3> QED
      BY <3>1
  <2> HIDE DEF U
  <2>2. g = [k \in 0..n |-> g[k]]
    OBVIOUS
  <2> HIDE DEF g
  <2> QED
    BY <2>1, <2>2
<1>3. Def(all)
  <2> HIDE DEF Def
  <2> QED
    BY <1>2
<1>4. all[n] = IF n = 2 THEN two ELSE three
  <2> HIDE DEF U, all
  <2>1. all[0] = <<>> /\ all[1] = U(all[0], 1) /\ all[2] = U(all[1], 2)
    BY <1>3
  <2>2. n = 3 => all[3] = U(all[2], 3)
    BY <1>3
  <2> QED
    BY <2>1, <2>2
<1>5. /\ kind \in {"Set", "Bag"}
      /\ \A i \in 1..n : cs[i].items \in Contents(Elem, kind)
      /\ <<>> \in Contents(Elem, kind)
  <2>1. \A i \in 1..n : cs[i].items \in Contents(Elem, kind) /\ cs[i] \in Records
    BY CollectionContents
  <2>2. <<>> \in Contents(Elem, kind)
    BY DEF Contents, IsDistinct
  <2> QED
    BY <2>1, <2>2 DEF Records, Kinds
<1>6. \A e : CountValue(<<>>, e) = 0
  <2>1. <<>> \in Seq(Elem) /\ ToSet(<<>>) = {}
    BY DEF ToSet
  <2> QED
    BY <2>1, CountIsPositions
<1>7. ASSUME NEW s \in Contents(Elem, kind), NEW i \in 1..n
      PROVE  /\ U(s, i) \in Contents(Elem, kind)
             /\ \A e : CountValue(U(s, i), e) = Larger(CountValue(s, e), Count(cs[i], e))
  BY <1>5, UnionCounts DEF Count
<1> HIDE DEF U, all
<1>8. one \in Contents(Elem, kind) /\ \A e : CountValue(one, e) = Count(cs[1], e)
  <2>1. \A e : Count(cs[1], e) \in Nat
    BY <1>5, CountIsPositions DEF Contents, Count
  <2> QED
    BY <1>5, <1>6, <1>7, <2>1 DEF Larger
<1> HIDE DEF one
<1>9. /\ two \in Contents(Elem, kind)
      /\ \A e : CountValue(two, e) = Larger(Count(cs[1], e), Count(cs[2], e))
  BY <1>7, <1>8
<1> HIDE DEF two
<1>10. n = 3 => /\ three \in Contents(Elem, kind)
                /\ \A e : CountValue(three, e) = Larger(CountValue(two, e), Count(cs[3], e))
  BY <1>7, <1>9
<1> HIDE DEF three
<1>11. all[n] \in Contents(Elem, kind) /\ cs[1] \in Records
  BY <1>4, <1>9, <1>10
<1>12. /\ Collection(UnionAggregate(cs)) /\ UnionAggregate(cs).kind = kind
       /\ UnionAggregate(cs).items = all[n]
  BY <1>1, <1>11, WithContents
<1> QED
  BY <1>4, <1>9, <1>10, <1>12 DEF Count

-----------------------------------------------------------------------------
(***************************************************************************)
(* The steps of a program.                                                 *)
(***************************************************************************)
LEMMA AssignKeeps ==
  ASSUME SetsDistinct, NEW c, Collection(c), Assign(c)
  PROVE  SetsDistinct'
BY DEF SetsDistinct, Assign, Collection

LEMMA PutInFront ==
  ASSUME NEW s \in Seq(Elem), NEW e \in Elem
  PROVE  /\ <<e>> \o s \in Seq(Elem)
         /\ IsDistinct(s) /\ e \notin ToSet(s) => IsDistinct(<<e>> \o s)
<1>1. <<e>> \in Seq(Elem) /\ IsDistinct(<<e>>) /\ ToSet(<<e>>) = {e}
  BY DEF IsDistinct, ToSet
<1> QED
  BY <1>1, ConcatenationMembers

LEMMA StepKeepsSetsDistinct ==
  ASSUME SetsDistinct, [Next]_vars
  PROVE  SetsDistinct'
<1> USE DEF SameKind
<1>1. Collection(left) /\ Collection(right) /\ left \in Records /\ right \in Records
  BY CollectionContents DEF SetsDistinct
<1>2. /\ left.items \in Seq(Elem) /\ right.items \in Seq(Elem) /\ left.kind \in Kinds
      /\ left.items \in Contents(Elem, left.kind)
  BY <1>1, CollectionContents DEF Records
<1>3. CASE DoUnion
  BY <1>1, <1>3, UnionWorks, AssignKeeps DEF DoUnion
<1>4. CASE DoDifference
  BY <1>1, <1>4, DifferenceWorks, AssignKeeps DEF DoDifference
<1>5. CASE DoIntersection
  BY <1>1, <1>5, IntersectionWorks, AssignKeeps DEF DoIntersection
<1>6. CASE DoUnionAggregate
  <2>1. PICK cs \in {<<right, left>>, <<left, right, left>>} : Assign(UnionAggregate(cs))
    BY <1>6 DEF DoUnionAggregate
  <2>2. left.kind = right.kind /\ left.kind # "List"
    BY <1>6 DEF DoUnionAggregate
  <2>3. \E n \in {2, 3} : /\ cs \in [1..n -> Records] /\ Len(cs) = n
                          /\ \A i \in 1..n : cs[i] = left \/ cs[i] = right
    <3>1. CASE cs = <<right, left>>
      BY <1>1, <3>1
    <3>2. CASE cs = <<left, right, left>>
      BY <1>1, <3>2
    <3> QED
      BY <3>1, <3>2
  <2>4. Collection(UnionAggregate(cs))
    <3>1. PICK n \in {2, 3} : /\ cs \in [1..n -> Records] /\ Len(cs) = n
                              /\ \A i \in 1..n : cs[i] = left \/ cs[i] = right
      BY <2>3
    <3>2. \A i \in 1..n : Collection(cs[i]) /\ cs[i].kind = left.kind
      BY <1>1, <2>2, <3>1
    <3>3. 1 \in 1..n
      OBVIOUS
    <3> QED
      BY <2>2, <3>1, <3>2, <3>3, AggregateWorks
  <2> QED
    BY <2>1, <2>4, AssignKeeps
<1>7. CASE DoInsert
  <2>1. PICK e \in Elem :
          Assign(IF left.kind = "List" THEN WithItems(left, <<e>> \o left.items)
                                       ELSE Insert(e, left))
    BY <1>7 DEF DoInsert
  <2>2. left.kind = "Set" => IsDistinct(left.items)
    BY <1>2 DEF Contents
  <2>3. CASE left.kind = "Set" /\ e \in ToSet(left.items)
    BY <1>1, <2>1, <2>3, AssignKeeps DEF Insert
  <2>4. CASE ~(left.kind = "Set" /\ e \in ToSet(left.items))
    <3>1. Assign(WithItems(left, <<e>> \o left.items))
      BY <2>1, <2>4 DEF Insert
    <3>2. <<e>> \o left.items \in Contents(Elem, left.kind)
      BY <1>2, <2>2, <2>4, PutInFront DEF Contents
    <3> QED
      BY <1>1, <3>1, <3>2, WithContents, AssignKeeps
  <2> QED
    BY <2>3, <2>4
<1>8. CASE DoRemove
  <2>1. PICK e \in Elem : Assign(WithItems(left, RemoveOne(e, left.items)))
    BY <1>8 DEF DoRemove, RemoveFrom
  <2>2. RemoveOne(e, left.items) \in Contents(Elem, left.kind)
    BY <1>2, RemoveCounts
  <2> QED
    BY <1>1, <2>1, <2>2, WithContents, AssignKeeps
<1>9. CASE DoAppend
  <2>1. left.items \o right.items \in Contents(Elem, left.kind)
    BY <1>2, <1>9 DEF Contents, DoAppend
  <2> QED
    BY <1>1, <1>9, <2>1, WithContents, AssignKeeps DEF DoAppend
<1>10. CASE Collect
  <2>1. PICK mapped \in [DOMAIN left.items -> Elem] :
          Assign(WithItems(left, ItemsOf(left.kind, mapped)))
    BY <1>10 DEF Collect
  <2>2. mapped \in Seq(Elem)
    BY <1>2
  <2>3. ItemsOf(left.kind, mapped) \in Contents(Elem, left.kind)
    BY <2>2, DistinctItemsDistinct DEF ItemsOf, Contents
  <2> QED
    BY <1>1, <2>1, <2>3, WithContents, AssignKeeps
<1>11. CASE Filter
  <2>1. PICK I \in SUBSET DOMAIN left.items : Assign(WithItems(left, Pick(left.items, I)))
    BY <1>11 DEF Filter
  <2>2. Pick(left.items, I) \in Seq(Elem)
    BY <1>2, Picked
  <2>3. left.kind = "Set" => IsDistinct(Pick(left.items, I))
    <3> HAVE left.kind = "Set"
    <3>1. IsDistinct(left.items)
      BY <1>2 DEF Contents
    <3>2. \A i, j \in I : left.items[i] = left.items[j] => i = j
      BY <3>1 DEF IsDistinct
    <3> QED
      BY <1>2, <3>2, MembersPicked
  <2>4. Pick(left.items, I) \in Contents(Elem, left.kind)
    BY <2>2, <2>3 DEF Contents
  <2> QED
    BY <1>1, <2>1, <2>4, WithContents, AssignKeeps
<1>12. CASE Construct
  <2>1. PICK k \in Kinds : Assign([kind |-> k, items |-> ItemsOf(k, left.items)])
    BY <1>12 DEF Construct
  <2> DEFINE c == [kind |-> k, items |-> ItemsOf(k, left.items)]
  <2>2. ItemsOf(k, left.items) \in Contents(Elem, k)
    BY <1>2, DistinctItemsDistinct DEF ItemsOf, Contents
  <2>3. Collection(c)
    BY <2>2 DEF Collection, Contents
  <2> QED
    BY <2>1, <2>3, AssignKeeps
<1>13. CASE Swap
  BY <1>13 DEF Swap, SetsDistinct, Collection
<1>14. CASE Copy
  BY <1>14 DEF Copy, SetsDistinct, Collection
<1>15. CASE UNCHANGED vars
  BY <1>15 DEF vars, SetsDistinct, Collection
<1> QED
  BY <1>3, <1>4, <1>5, <1>6, <1>7, <1>8, <1>9, <1>10, <1>11, <1>12, <1>13, <1>14, <1>15 DEF Next

(***************************************************************************)
(* However a program makes it, a Set never holds a value twice: every      *)
(* operation of builtin.c keeps the list of a Set free of repetitions.     *)
(***************************************************************************)
THEOREM SetsStayDistinct == Spec => []SetsDistinct
<1>1. ASSUME Init PROVE SetsDistinct
  <2>1. PICK k \in Kinds : left = Empty(k) /\ right = Empty(k)
    BY <1>1 DEF Init
  <2> QED
    BY <2>1 DEF SetsDistinct, Collection, Empty, IsDistinct
<1>2. SetsDistinct /\ [Next]_vars => SetsDistinct'
  BY StepKeepsSetsDistinct
<1> QED
  BY <1>1, <1>2, PTL DEF Spec

(***************************************************************************)
(* Union, intersection and difference of sets and of bags take the         *)
(* maximum, the minimum and the excess of the occurrences of every value,  *)
(* and remove takes one of them.                                           *)
(***************************************************************************)
THEOREM OperationsAreMultisets == Spec => []MultisetAlgebra
<1>1. ASSUME SetsDistinct, SameKind, left.kind # "List", NEW e \in Elem
      PROVE  /\ Count(Union(left, right), e) = Larger(Count(left, e), Count(right, e))
             /\ Count(Intersection(left, right), e) = Smaller(Count(left, e), Count(right, e))
             /\ Count(Difference(left, right), e) = Excess(Count(left, e), Count(right, e))
             /\ Equal(RemoveFrom(e, left), Difference(left, WithItems(left, <<e>>)))
  <2>1. Collection(left) /\ Collection(right) /\ left.kind = right.kind
    BY <1>1 DEF SetsDistinct, SameKind
  <2>2. left \in Records /\ left.items \in Contents(Elem, left.kind) /\ left.items \in Seq(Elem)
    BY <2>1, CollectionContents DEF Contents
  <2> DEFINE one == WithItems(left, <<e>>)
             without == Difference(left, one)
             removed == RemoveFrom(e, left)
  <2>3. <<e>> \in Seq(Elem) /\ IsDistinct(<<e>>) /\ ToSet(<<e>>) = {e}
    BY DEF IsDistinct, ToSet
  <2>4. Collection(one) /\ one.kind = left.kind /\ one.items = <<e>>
    BY <2>2, <2>3, WithContents DEF Contents
  <2>5. Collection(removed) /\ removed.kind = left.kind
        /\ removed.items = RemoveOne(e, left.items)
    BY <2>2, RemoveCounts, WithContents DEF RemoveFrom
  <2>6. \A x : Count(one, x) = IF x = e THEN 1 ELSE 0
    <3>1. \A x : CountValue(<<e>>, x) = IF x \in {e} THEN 1 ELSE 0
      BY <2>3, CountInDistinct
    <3> HIDE DEF one
    <3> QED
      BY <2>4, <3>1 DEF Count
  <2>7. \A x : Count(removed, x) = IF x = e THEN Excess(Count(left, x), 1) ELSE Count(left, x)
    BY <2>2, <2>5, RemoveCounts DEF Count
  <2>8. \A x : Count(left, x) \in Nat
    BY <2>2, CountIsPositions DEF Count
  <2> HIDE DEF one, removed
  <2>9. /\ Collection(without) /\ without.kind = left.kind
        /\ \A x : Count(without, x) = Excess(Count(left, x), Count(one, x))
    BY <1>1, <2>1, <2>4, DifferenceWorks
  <2> HIDE DEF without
  <2>10. \A x : Count(removed, x) = Count(without, x)
    BY <2>6, <2>7, <2>8, <2>9 DEF Excess
  <2>11. Equal(removed, without)
    BY <1>1, <2>5, <2>9, <2>10, SubsetWorks
  <2> QED
    BY <1>1, <2>1, <2>11, UnionWorks, IntersectionWorks, DifferenceWorks DEF removed, without, one
<1>2. SetsDistinct => MultisetAlgebra
  BY <1>1 DEF MultisetAlgebra
<1> QED
  BY <1>2, SetsStayDistinct, PTL

(***************************************************************************)
(* equal and subset of sets and of bags decide by the occurrences of the   *)
(* values, whatever the order of the items.                                *)
(***************************************************************************)
THEOREM EqualityCounts == Spec => []EqualAgrees
<1>1. SetsDistinct => EqualAgrees
  BY SubsetWorks DEF SetsDistinct, SameKind, EqualAgrees
<1> QED
  BY <1>1, SetsStayDistinct, PTL

(***************************************************************************)
(* UNION of a list of two or three collections does not depend on their    *)
(* order or on one being listed twice.                                     *)
(***************************************************************************)
THEOREM AggregateIsUnion == Spec => []AggregateAgrees
<1>1. ASSUME SetsDistinct, SameKind, left.kind # "List",
             NEW cs \in {<<left, right>>, <<right, left>>, <<left, right, left>>}
      PROVE  Equal(UnionAggregate(cs), Union(left, right))
  <2> DEFINE both == UnionAggregate(cs)
             union == Union(left, right)
  <2>1. Collection(left) /\ Collection(right) /\ left.kind = right.kind
        /\ left \in Records /\ right \in Records
    BY <1>1, CollectionContents DEF SetsDistinct, SameKind
  <2>2. /\ Collection(union) /\ union.kind = left.kind
        /\ \A e : Count(union, e) = Larger(Count(left, e), Count(right, e))
    BY <1>1, <2>1, UnionWorks
  <2>3. \A e : Count(left, e) \in Nat /\ Count(right, e) \in Nat
    BY <2>1, CountIsPositions DEF Count, Records
  <2> HIDE DEF both, union
  <2>4. CASE cs = <<left, right, left>>
    <3>1. cs \in [1..3 -> Records] /\ Len(cs) = 3
          /\ cs[1] = left /\ cs[2] = right /\ cs[3] = left
      BY <2>1, <2>4
    <3>2. \A i \in 1..3 : Collection(cs[i]) /\ cs[i].kind = cs[1].kind
      BY <2>1, <3>1
    <3>3. /\ Collection(both) /\ both.kind = left.kind
          /\ \A e : Count(both, e) =
                      Larger(Larger(Count(left, e), Count(right, e)), Count(left, e))
      BY <1>1, <3>1, <3>2, AggregateWorks DEF both
    <3>4. \A e : Count(both, e) = Count(union, e)
      BY <2>2, <2>3, <3>3 DEF Larger
    <3> QED
      BY <1>1, <2>2, <3>3, <3>4, SubsetWorks DEF both, union
  <2>5. CASE cs = <<left, right>> \/ cs = <<right, left>>
    <3>1. cs \in [1..2 -> Records] /\ Len(cs) = 2
          /\ ((cs[1] = left /\ cs[2] = right) \/ (cs[1] = right /\ cs[2] = left))
      BY <2>1, <2>5
    <3>2. \A i \in 1..2 : Collection(cs[i]) /\ cs[i].kind = cs[1].kind /\ cs[i].kind = left.kind
      BY <2>1, <3>1
    <3>3. /\ Collection(both) /\ both.kind = left.kind
          /\ \A e : Count(both, e) = Larger(Count(cs[1], e), Count(cs[2], e))
      BY <1>1, <3>1, <3>2, AggregateWorks DEF both
    <3>4. \A e : Count(both, e) = Count(union, e)
      BY <2>2, <2>3, <3>1, <3>3 DEF Larger
    <3> QED
      BY <1>1, <2>2, <3>3, <3>4, SubsetWorks DEF both, union
  <2> QED
    BY <2>4, <2>5
<1>2. SetsDistinct => AggregateAgrees
  BY <1>1 DEF AggregateAgrees
<1> QED
  BY <1>2, SetsStayDistinct, PTL

(***************************************************************************)
(* difference and intersection of lists split the left operand in two,     *)
(* each in its order and with its repetitions, and union puts the one in   *)
(* front of the right operand.                                             *)
(***************************************************************************)
THEOREM ListsKeepOrder == Spec => []ListAlgebra
<1>1. ASSUME SetsDistinct, SameKind, left.kind = "List"
      PROVE  ListAlgebra
  <2> DEFINE l == left.items
             r == right.items
             New == {i \in DOMAIN l : l[i] \notin ToSet(r)}
             Shared == {i \in DOMAIN l : l[i] \in ToSet(r)}
             new == Difference(left, right).items
             shared == Intersection(left, right).items
             UpTo(i) == Cardinality({j \in 1..i : l[j] \in ToSet(r)})
  <2>1. /\ Collection(left) /\ Collection(right) /\ left.kind = right.kind
        /\ left \in Records /\ l \in Seq(Elem) /\ r \in Seq(Elem)
        /\ Len(l) \in Nat /\ DOMAIN l = 1..Len(l)
    BY <1>1, CollectionContents DEF SetsDistinct, SameKind, Records
  <2>2. /\ \A s \in Seq(Elem) : WithItems(left, s).items = s
        /\ DifferenceLists(l, r) \in Seq(Elem) /\ IntersectionLists(l, r) \in Seq(Elem)
    BY <1>1, <2>1, WithContents, DifferenceKeeps, IntersectionKeeps DEF Contents
  <2>3. new = Pick(l, New) /\ shared = Pick(l, Shared)
    BY <1>1, <2>2 DEF Difference, Intersection, DifferenceLists, IntersectionLists
  <2>4. Union(left, right).items = new \o r
    <3>1. new = DifferenceLists(l, r)
      BY <2>3 DEF DifferenceLists
    <3>2. new \o r \in Seq(Elem)
      BY <2>1, <2>2, <3>1
    <3>3. Union(left, right) = WithItems(left, new \o r)
      BY <1>1, <3>1 DEF Union, UnionItems, UnionLists
    <3> QED
      BY <2>2, <3>2, <3>3
  <2>5. New \in SUBSET DOMAIN l /\ Shared \in SUBSET DOMAIN l
        /\ New \cap Shared = {} /\ New \cup Shared = 1..Len(l)
    BY <2>1
  <2>6. ASSUME NEW i \in DOMAIN l
        PROVE  /\ UpTo(i) = Rank(Shared, i)
               /\ i - UpTo(i) = Rank(New, i)
    <3> DEFINE A == {j \in 1..i : l[j] \in ToSet(r)}
               B == {j \in 1..i : l[j] \notin ToSet(r)}
    <3>1. A = {j \in Shared : j <= i} /\ B = {j \in New : j <= i}
      BY <2>1
    <3>2. A \in SUBSET (1..i) /\ B = (1..i) \ A /\ (1..i) \cap A = A /\ i \in Nat
      BY <2>1
    <3>3. IsFiniteSet(1..i) /\ Cardinality(1..i) = i
      BY <3>2, FirstNumbers
    <3> HIDE DEF A, B
    <3>4. Cardinality(A) \in Nat
      BY <3>2, <3>3, FiniteSubsets
    <3>5. Cardinality(B) = i - Cardinality(A)
      <4>1. Cardinality((1..i) \ A) = Cardinality(1..i) - Cardinality((1..i) \cap A)
        BY <3>3, FS_Difference, Zenon
      <4> QED
        BY <3>2, <3>3, <4>1
    <3>6. UpTo(i) = Cardinality(A)
      BY DEF A
    <3> QED
      BY <3>1, <3>5, <3>6 DEF Rank
  <2>7. ASSUME NEW i \in DOMAIN l
        PROVE  IF l[i] \in ToSet(r) THEN shared[UpTo(i)] = l[i] ELSE new[i - UpTo(i)] = l[i]
    <3>1. /\ \A k \in New : Pick(l, New)[Rank(New, k)] = l[k]
          /\ \A k \in Shared : Pick(l, Shared)[Rank(Shared, k)] = l[k]
      <4> HIDE DEF New, Shared, l
      <4> QED
        BY <2>1, <2>5, Picked
    <3>2. l[i] \in ToSet(r) => i \in Shared
      OBVIOUS
    <3>3. l[i] \notin ToSet(r) => i \in New
      OBVIOUS
    <3> HIDE DEF New, Shared, UpTo, new, shared, l, r
    <3> QED
      BY <2>3, <2>6, <3>1, <3>2, <3>3
  <2>8. Len(new) + Len(shared) = Len(l)
    <3> HIDE DEF New, Shared, new, shared, l, r
    <3>1. /\ Len(new) = Cardinality(New) /\ Len(shared) = Cardinality(Shared)
          /\ IsFiniteSet(New) /\ IsFiniteSet(Shared)
          /\ Cardinality(New) \in Nat /\ Cardinality(Shared) \in Nat
      BY <2>1, <2>3, <2>5, Picked
    <3>2. Cardinality(New \cup Shared) =
            Cardinality(New) + Cardinality(Shared) - Cardinality(New \cap Shared)
      BY <3>1, FS_Union
    <3>3. Cardinality(New \cap Shared) = 0 /\ Cardinality(New \cup Shared) = Len(l)
      BY <2>1, <2>5, FS_EmptySet, FirstNumbers
    <3> QED
      BY <3>1, <3>2, <3>3
  <2> QED
    BY <2>4, <2>7, <2>8 DEF ListAlgebra
<1>2. SetsDistinct => ListAlgebra
  BY <1>1 DEF ListAlgebra
<1> QED
  BY <1>2, SetsStayDistinct, PTL

=============================================================================
