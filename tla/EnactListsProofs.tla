-------------------------- MODULE EnactListsProofs --------------------------
(***************************************************************************)
(* Lemmas about the walks over lists, for lists of any length over any     *)
(* values.  Every walk of the code keeps the items at some of the          *)
(* positions of a list.  What it keeps is counted through the numbers that *)
(* the walk gives to the positions: a chain of sets, each inside the next, *)
(* numbers its members from one on by their cardinalities.                 *)
(***************************************************************************)
EXTENDS EnactLists, Integers, WellFoundedInduction, FiniteSetTheorems, FunctionTheorems,
        SequenceTheorems, TLAPS

-----------------------------------------------------------------------------
(***************************************************************************)
(* Numbers: a set of numbers has a least member, and a set with 0 that has *)
(* the successors of its members has all of them.                          *)
(***************************************************************************)
Below == {p \in Nat \X Nat : p[1] < p[2]}

LEMMA BelowWellFounded == IsWellFoundedOn(Below, Nat)
<1>1. IsWellFoundedOn(OpToRel(<, Nat), Nat)
  BY Zenon, NatLessThanWellFounded
<1>2. OpToRel(<, Nat) = Below
  BY Zenon DEF OpToRel, Below
<1> QED
  BY Zenon, <1>1, <1>2

LEMMA LeastElement ==
  ASSUME NEW S \in SUBSET Nat, S # {}
  PROVE  \E x \in S : \A y \in S : x <= y
<1>1. PICK x \in S : \A y \in S : <<y, x>> \notin Below
  BY BelowWellFounded, WFMin, Zenon
<1>2. \A y \in S : x <= y
  <2>1. TAKE y \in S
  <2>2. <<y, x>> \notin Below
    BY <1>1
  <2>3. ~(y < x)
    BY <2>2 DEF Below
  <2> QED
    BY <2>3
<1> QED
  BY <1>2

LEMMA SetInduction ==
  ASSUME NEW T, 0 \in T, \A n \in Nat : n \in T => n + 1 \in T
  PROVE  \A n \in Nat : n \in T
<1> SUFFICES ASSUME Nat \ T # {} PROVE FALSE
  OBVIOUS
<1>1. PICK x \in Nat \ T : \A y \in Nat \ T : x <= y
  BY LeastElement
<1>2. x # 0 /\ x - 1 \in Nat /\ x - 1 + 1 = x
  BY <1>1
<1>3. x - 1 \in T
  BY <1>1, <1>2
<1> QED
  BY <1>1, <1>2, <1>3

LEMMA GreatestElement ==
  ASSUME NEW n \in Nat, NEW S \in SUBSET (1..n), S # {}
  PROVE  \E x \in S : \A y \in S : y <= x
<1> DEFINE R == {n - x : x \in S}
<1>1. R \in SUBSET Nat /\ R # {}
  <2>1. \A x \in S : n - x \in Nat
    OBVIOUS
  <2>2. PICK x \in S : TRUE
    OBVIOUS
  <2>3. n - x \in R
    OBVIOUS
  <2> QED
    BY <2>1, <2>3
<1>2. PICK m \in R : \A y \in R : m <= y
  <2> HIDE DEF R
  <2> QED
    BY <1>1, LeastElement
<1>3. PICK x \in S : m = n - x
  BY <1>2
<1>4. \A y \in S : y <= x
  <2> TAKE y \in S
  <2>1. n - y \in R /\ x \in 1..n /\ y \in 1..n
    OBVIOUS
  <2> QED
    BY <1>2, <1>3, <2>1
<1> QED
  BY <1>4

-----------------------------------------------------------------------------
(***************************************************************************)
(* Counting.                                                               *)
(***************************************************************************)
LEMMA FiniteSubsets ==
  ASSUME NEW P, IsFiniteSet(P)
  PROVE  /\ Cardinality(P) \in Nat
         /\ \A S \in SUBSET P :
              /\ IsFiniteSet(S) /\ Cardinality(S) \in Nat /\ Cardinality(S) <= Cardinality(P)
              /\ Cardinality(S) = Cardinality(P) <=> S = P
              /\ Cardinality(S) = 0 <=> S = {}
BY FS_Subset, FS_CardinalityType, FS_EmptySet

LEMMA FirstNumbers ==
  ASSUME NEW n \in Nat
  PROVE  IsFiniteSet(1..n) /\ Cardinality(1..n) = n
<1>1. IsFiniteSet(1..n) /\ Cardinality(1..n) = IF 1 > n THEN 0 ELSE n - 1 + 1
  BY FS_Interval
<1> QED
  BY <1>1

\* A one-to-one correspondence of S and T.
Matches(f, S, T) ==
  /\ f \in [S -> T]
  /\ \A i, j \in S : f[i] = f[j] => i = j
  /\ \A k \in T : \E i \in S : f[i] = k

LEMMA SameNumber ==
  ASSUME NEW S, IsFiniteSet(S), NEW T, NEW f, Matches(f, S, T)
  PROVE  IsFiniteSet(T) /\ Cardinality(T) = Cardinality(S)
<1>1. f \in Injection(S, T)
  BY Fun_IsInj DEF Matches
<1>2. f \in Surjection(S, T)
  BY Fun_IsSurj DEF Matches
<1>3. ExistsBijection(S, T)
  BY <1>1, <1>2 DEF ExistsBijection, Bijection
<1> QED
  BY <1>3, FS_Bijection

LEMMA InjectionMatches ==
  ASSUME NEW S, IsFiniteSet(S), NEW T, IsFiniteSet(T), Cardinality(S) = Cardinality(T),
         NEW f \in [S -> T], \A i, j \in S : f[i] = f[j] => i = j
  PROVE  Matches(f, S, T)
<1>1. f \in Injection(S, T)
  BY Fun_IsInj
<1>2. f \in Surjection(S, T)
  BY <1>1, FS_Injection, Zenon
<1>3. \A k \in T : \E i \in S : f[i] = k
  BY <1>2 DEF Surjection
<1> QED
  BY <1>3 DEF Matches

\* A chain of sets, one for each member of P, numbers P.
LEMMA ChainNumbers ==
  ASSUME NEW P, IsFiniteSet(P), NEW D \in [P -> SUBSET P], \A i \in P : i \in D[i],
         \A i, j \in P : i # j => D[i] # D[j] /\ (D[i] \subseteq D[j] \/ D[j] \subseteq D[i])
  PROVE  Matches([i \in P |-> Cardinality(D[i])], P, 1..Cardinality(P))
<1> DEFINE f == [i \in P |-> Cardinality(D[i])]
<1>1. /\ Cardinality(P) \in Nat
      /\ IsFiniteSet(1..Cardinality(P)) /\ Cardinality(1..Cardinality(P)) = Cardinality(P)
  BY FiniteSubsets, FirstNumbers
<1>2. ASSUME NEW i \in P
      PROVE  IsFiniteSet(D[i]) /\ Cardinality(D[i]) \in 1..Cardinality(P)
  <2>1. /\ IsFiniteSet(D[i]) /\ Cardinality(D[i]) \in Nat
        /\ Cardinality(D[i]) <= Cardinality(P) /\ Cardinality(D[i]) # 0
    BY FiniteSubsets
  <2> QED
    BY <2>1, <1>1
<1>3. ASSUME NEW i \in P, NEW j \in P, Cardinality(D[i]) = Cardinality(D[j])
      PROVE  i = j
  BY <1>2, <1>3, FiniteSubsets
<1>4. f \in [P -> 1..Cardinality(P)] /\ \A i, j \in P : f[i] = f[j] => i = j
  BY <1>2, <1>3
<1>5. Matches(f, P, 1..Cardinality(P))
  <2> HIDE DEF f
  <2> QED
    BY <1>1, <1>4, InjectionMatches
<1> QED
  BY <1>5

-----------------------------------------------------------------------------
(***************************************************************************)
(* What a walk keeps of a list.                                            *)
(***************************************************************************)
Rank(I, i) == Cardinality({j \in I : j <= i})

LEMMA RanksMatch ==
  ASSUME NEW n \in Nat, NEW I \in SUBSET (1..n)
  PROVE  /\ IsFiniteSet(I) /\ Cardinality(I) \in Nat /\ Cardinality(I) <= n
         /\ Matches([i \in I |-> Rank(I, i)], I, 1..Cardinality(I))
<1> DEFINE D == [i \in I |-> {j \in I : j <= i}]
<1>1. IsFiniteSet(I) /\ Cardinality(I) \in Nat /\ Cardinality(I) <= n
  <2>1. IsFiniteSet(1..n) /\ Cardinality(1..n) = n
    BY FirstNumbers
  <2>2. \A S \in SUBSET (1..n) :
          IsFiniteSet(S) /\ Cardinality(S) \in Nat /\ Cardinality(S) <= Cardinality(1..n)
    BY <2>1, FiniteSubsets, Zenon
  <2> QED
    BY <2>1, <2>2
<1>2. D \in [I -> SUBSET I] /\ \A i \in I : i \in D[i]
  OBVIOUS
<1>3. ASSUME NEW i \in I, NEW j \in I, i # j
      PROVE  D[i] # D[j] /\ (D[i] \subseteq D[j] \/ D[j] \subseteq D[i])
  <2> i \in Int /\ j \in Int /\ \A k \in I : k \in Int
    OBVIOUS
  <2>0. \A k \in I : (k \in D[i] <=> k <= i) /\ (k \in D[j] <=> k <= j)
    OBVIOUS
  <2>9. D[i] \subseteq I /\ D[j] \subseteq I
    OBVIOUS
  <2> HIDE DEF D
  <2>1. CASE i < j
    <3>1. j \in D[j] /\ j \notin D[i]
      BY <2>0, <2>1
    <3>2. \A k \in I : k <= i => k <= j
      BY <2>1
    <3>3. D[i] \subseteq D[j]
      BY <2>0, <2>9, <3>2, Zenon
    <3> QED
      BY <3>1, <3>3
  <2>2. CASE j < i
    <3>1. i \in D[i] /\ i \notin D[j]
      BY <2>0, <2>2
    <3>2. \A k \in I : k <= j => k <= i
      BY <2>2
    <3>3. D[j] \subseteq D[i]
      BY <2>0, <2>9, <3>2, Zenon
    <3> QED
      BY <3>1, <3>3
  <2> QED
    BY <1>3, <2>1, <2>2
<1>4. [i \in I |-> Rank(I, i)] = [i \in I |-> Cardinality(D[i])]
  BY DEF Rank
<1>5. Matches([i \in I |-> Cardinality(D[i])], I, 1..Cardinality(I))
  <2> HIDE DEF D
  <2> QED
    BY <1>1, <1>2, <1>3, ChainNumbers
<1> QED
  BY <1>1, <1>4, <1>5

LEMMA Picked ==
  ASSUME NEW V, NEW s \in Seq(V), NEW I \in SUBSET DOMAIN s
  PROVE  /\ IsFiniteSet(I) /\ Cardinality(I) \in Nat
         /\ Pick(s, I) \in Seq(V)
         /\ Len(Pick(s, I)) = Cardinality(I)
         /\ \A i \in I : Rank(I, i) \in 1..Cardinality(I) /\ Pick(s, I)[Rank(I, i)] = s[i]
         /\ \A i, j \in I : Rank(I, i) = Rank(I, j) => i = j
         /\ \A k \in 1..Cardinality(I) : \E i \in I : Rank(I, i) = k /\ Pick(s, I)[k] = s[i]
<1> DEFINE at(k) == CHOOSE i \in I : Rank(I, i) = k
<1>1. Len(s) \in Nat /\ DOMAIN s = 1..Len(s) /\ \A i \in I : s[i] \in V
  OBVIOUS
<1>2. /\ IsFiniteSet(I) /\ Cardinality(I) \in Nat
      /\ Matches([i \in I |-> Rank(I, i)], I, 1..Cardinality(I))
  BY <1>1, RanksMatch
<1>3. /\ \A i \in I : Rank(I, i) \in 1..Cardinality(I)
      /\ \A i, j \in I : Rank(I, i) = Rank(I, j) => i = j
      /\ \A k \in 1..Cardinality(I) : \E i \in I : Rank(I, i) = k
  BY <1>2 DEF Matches
<1>4. Pick(s, I) = [k \in 1..Cardinality(I) |-> s[at(k)]]
  BY DEF Pick, Rank
<1>5. \A k \in 1..Cardinality(I) : at(k) \in I /\ Rank(I, at(k)) = k
  BY <1>3
<1>6. \A i \in I : at(Rank(I, i)) = i
  BY <1>3, <1>5
<1> HIDE DEF at
<1>7. Pick(s, I) \in [1..Cardinality(I) -> V]
  BY <1>1, <1>4, <1>5
<1>8. Pick(s, I) \in Seq(V) /\ Len(Pick(s, I)) = Cardinality(I)
  BY <1>2, <1>7
<1>9. \A i \in I : Pick(s, I)[Rank(I, i)] = s[i]
  BY <1>3, <1>4, <1>6
<1>10. \A k \in 1..Cardinality(I) : Rank(I, at(k)) = k /\ Pick(s, I)[k] = s[at(k)]
  BY <1>4, <1>5
<1> QED
  BY <1>2, <1>3, <1>5, <1>8, <1>9, <1>10

\* The positions of a value.
Positions(s, e) == {i \in DOMAIN s : s[i] = e}

LEMMA CountIsPositions ==
  ASSUME NEW V, NEW s \in Seq(V), NEW e
  PROVE  /\ IsFiniteSet(Positions(s, e)) /\ CountValue(s, e) \in Nat
         /\ CountValue(s, e) = Cardinality(Positions(s, e))
         /\ CountValue(s, e) = 0 <=> e \notin ToSet(s)
<1>1. Len(s) \in Nat /\ DOMAIN s = 1..Len(s)
  OBVIOUS
<1>2. IsFiniteSet(1..Len(s)) /\ Positions(s, e) \in SUBSET (1..Len(s))
  BY <1>1, FirstNumbers DEF Positions
<1>3. CountValue(s, e) = Cardinality(Positions(s, e))
  BY <1>1 DEF CountValue, CountFrom, Positions
<1>4. /\ IsFiniteSet(Positions(s, e)) /\ Cardinality(Positions(s, e)) \in Nat
      /\ Cardinality(Positions(s, e)) = 0 <=> Positions(s, e) = {}
  BY <1>2, FiniteSubsets
<1>5. Positions(s, e) = {} <=> e \notin ToSet(s)
  BY DEF Positions, ToSet
<1> QED
  BY <1>3, <1>4, <1>5

LEMMA CountPicked ==
  ASSUME NEW V, NEW s \in Seq(V), NEW I \in SUBSET DOMAIN s, NEW e
  PROVE  CountValue(Pick(s, I), e) = Cardinality({i \in I : s[i] = e})
<1> DEFINE t == Pick(s, I)
           Kept == {i \in I : s[i] = e}
           f == [i \in Kept |-> Rank(I, i)]
<1>1. /\ IsFiniteSet(I) /\ Cardinality(I) \in Nat
      /\ t \in Seq(V) /\ Len(t) = Cardinality(I)
      /\ \A i \in I : Rank(I, i) \in 1..Cardinality(I) /\ t[Rank(I, i)] = s[i]
      /\ \A i, j \in I : Rank(I, i) = Rank(I, j) => i = j
      /\ \A k \in 1..Cardinality(I) : \E i \in I : Rank(I, i) = k /\ t[k] = s[i]
  BY Picked, Zenon
<1>2. CountValue(t, e) = Cardinality(Positions(t, e))
  BY <1>1, CountIsPositions
<1>3. DOMAIN t = 1..Cardinality(I)
  BY <1>1
<1> HIDE DEF t
<1>4. Matches(f, Kept, Positions(t, e))
  BY <1>1, <1>3 DEF Matches, Positions
<1>5. IsFiniteSet(Kept)
  BY <1>1, FiniteSubsets
<1>6. Cardinality(Positions(t, e)) = Cardinality(Kept)
  BY <1>4, <1>5, SameNumber
<1> QED
  BY <1>2, <1>6 DEF t

LEMMA MembersPicked ==
  ASSUME NEW V, NEW s \in Seq(V), NEW I \in SUBSET DOMAIN s
  PROVE  /\ ToSet(Pick(s, I)) = {s[i] : i \in I}
         /\ (\A i, j \in I : s[i] = s[j] => i = j) => IsDistinct(Pick(s, I))
<1> DEFINE t == Pick(s, I)
<1>1. /\ Cardinality(I) \in Nat
      /\ t \in Seq(V) /\ Len(t) = Cardinality(I)
      /\ \A i \in I : Rank(I, i) \in 1..Cardinality(I) /\ t[Rank(I, i)] = s[i]
      /\ \A k \in 1..Cardinality(I) : \E i \in I : Rank(I, i) = k /\ t[k] = s[i]
  BY Picked, Zenon
<1>2. DOMAIN t = 1..Cardinality(I)
  BY <1>1
<1> HIDE DEF t
<1>3. ToSet(t) = {s[i] : i \in I}
  BY <1>1, <1>2 DEF ToSet
<1>4. ASSUME \A i, j \in I : s[i] = s[j] => i = j PROVE IsDistinct(t)
  BY <1>1, <1>2, <1>4 DEF IsDistinct
<1> QED
  BY <1>3, <1>4 DEF t

=============================================================================
