-------------------------- MODULE EnactClassesProofs -------------------------
(***************************************************************************)
(* Proofs about EnactLinearization and EnactClasses, for every hierarchy:  *)
(* the recursive definitions are what they say they are, the merge keeps   *)
(* the order of every sequence, and a linearization lists a class and its  *)
(* ancestors once each, every class before its superclasses.  Whatever     *)
(* classes a program defines, every linearization is in order, a method    *)
(* definition changes no dispatch but the one it should, and dispatch and  *)
(* super find what the suppliers are.                                      *)
(*                                                                         *)
(* Then about EnactMerge, the loop by which the code merges, one iteration *)
(* at a time, and EnactHierarchy, in which real classes supply the loop.   *)
(*                                                                         *)
(* Then about EnactDispatch: the method context of super is right for      *)
(* every hierarchy, every number of objects and callables and every depth  *)
(* of the stack, arguments are counted exactly, a bound method belongs to  *)
(* its receiver for good, and super only moves on in the linearization.    *)
(*                                                                         *)
(* The recursion of a function over numbers is justified by induction.     *)
(***************************************************************************)
EXTENDS EnactDispatch, EnactHierarchy, EnactListsProofs, SequenceTheorems

-----------------------------------------------------------------------------
(***************************************************************************)
(* Recursive functions on natural numbers.                                 *)
(***************************************************************************)
\* What a function on 1..N has for the numbers before c.
Before(f, c) == [i \in 1..(c - 1) |-> f[i]]

\* The functions on the numbers before c that have the values allowed by S.
Allowed(S, c) == {g \in [1..(c - 1) -> UNION {S[i] : i \in 1..(c - 1)}] : \A i \in 1..(c - 1) : g[i] \in S[i]}

\* step[c][g] is the value at c, if g has those before c.
IsStep(S, N, step) == \A c \in 1..N : \A g \in Allowed(S, c) : step[c][g] \in S[c]

Solves(f, N, step) == f = [c \in 1..N |-> step[c][Before(f, c)]]

LEMMA StrongInduction ==
  ASSUME NEW N \in Nat, NEW T,
         \A c \in 1..N : (\A i \in 1..(c - 1) : i \in T) => c \in T
  PROVE  \A c \in 1..N : c \in T
<1> DEFINE U == {n \in Nat : \A c \in 1..N : c <= n => c \in T}
<1>1. 0 \in U
  OBVIOUS
<1>2. ASSUME NEW n \in Nat, n \in U PROVE n + 1 \in U
  <2> SUFFICES ASSUME n + 1 \in 1..N PROVE n + 1 \in T
    BY <1>2
  <2>1. \A i \in 1..(n + 1 - 1) : i \in T
    BY <1>2
  <2> QED
    BY <2>1
<1> HIDE DEF U
<1>3. \A n \in Nat : n \in U
  BY <1>1, <1>2, SetInduction
<1>4. N \in U
  BY <1>3
<1> QED
  BY <1>4 DEF U

LEMMA SolutionAllowed ==
  ASSUME NEW N \in Nat, NEW S, NEW step, IsStep(S, N, step), NEW f, Solves(f, N, step)
  PROVE  \A c \in 1..N : f[c] \in S[c] /\ Before(f, c) \in Allowed(S, c)
<1> DEFINE T == {c \in 1..N : f[c] \in S[c]}
<1>1. ASSUME NEW c \in 1..N, \A i \in 1..(c - 1) : i \in T
      PROVE  Before(f, c) \in Allowed(S, c) /\ c \in T
  <2>1. \A i \in 1..(c - 1) : f[i] \in S[i]
    BY <1>1
  <2>2. Before(f, c) \in Allowed(S, c)
    BY <2>1 DEF Allowed, Before
  <2>3. f[c] = step[c][Before(f, c)]
    BY DEF Solves
  <2> QED
    BY <2>2, <2>3 DEF IsStep
<1> HIDE DEF T
<1>2. \A c \in 1..N : c \in T
  BY <1>1, StrongInduction
<1>3. \A c \in 1..N : \A i \in 1..(c - 1) : i \in 1..N
  OBVIOUS
<1> QED
  BY <1>1, <1>2, <1>3 DEF T

LEMMA SolutionExists ==
  ASSUME NEW N \in Nat, NEW step
  PROVE  \E f : Solves(f, N, step)
<1> DEFINE T == {n \in Nat : n <= N => \E f : Solves(f, n, step)}
<1>1. 0 \in T
  <2> DEFINE f == [c \in 1..0 |-> c]
  <2>1. Solves(f, 0, step)
    BY DEF Solves
  <2> QED
    BY <2>1
<1>2. ASSUME NEW n \in Nat, n \in T PROVE n + 1 \in T
  <2> SUFFICES ASSUME n + 1 <= N PROVE \E f : Solves(f, n + 1, step)
    OBVIOUS
  <2>1. PICK f : Solves(f, n, step)
    BY <1>2
  <2> DEFINE h == [c \in 1..(n + 1) |-> IF c <= n THEN f[c] ELSE step[n + 1][f]]
  <2>2. f = [c \in 1..n |-> step[c][Before(f, c)]]
    BY <2>1 DEF Solves
  <2>3. \A c \in 1..(n + 1) : Before(h, c) = Before(f, c)
    <3> TAKE c \in 1..(n + 1)
    <3>1. \A i \in 1..(c - 1) : h[i] = f[i]
      OBVIOUS
    <3> QED
      BY <3>1 DEF Before
  <2>4. Before(f, n + 1) = f
    <3>1. n + 1 - 1 = n
      OBVIOUS
    <3> QED
      BY <2>2, <3>1 DEF Before
  <2>5. \A c \in 1..(n + 1) : h[c] = step[c][Before(h, c)]
    <3> TAKE c \in 1..(n + 1)
    <3>1. CASE c <= n
      <4>1. h[c] = f[c] /\ c \in 1..n
        BY <3>1
      <4>2. f[c] = step[c][Before(f, c)]
        BY <2>2, <4>1
      <4> QED
        BY <2>3, <4>1, <4>2
    <3>2. CASE c = n + 1
      <4>1. h[c] = step[n + 1][f]
        BY <3>2
      <4> QED
        BY <2>3, <2>4, <3>2, <4>1
    <3> QED
      BY <3>1, <3>2
  <2> HIDE DEF h
  <2>6. h = [c \in 1..(n + 1) |-> h[c]]
    BY DEF h
  <2>7. Solves(h, n + 1, step)
    BY <2>5, <2>6 DEF Solves
  <2> QED
    BY <2>7
<1> HIDE DEF T
<1>3. \A n \in Nat : n \in T
  BY <1>1, <1>2, SetInduction
<1>4. N \in T
  BY <1>3
<1> QED
  BY <1>4 DEF T

\* A loop: step[n][x] is the value after n rounds, if x was the one before.
Runs(f, N, start, step) == f = [n \in 0..N |-> IF n = 0 THEN start ELSE step[n][f[n - 1]]]

LEMMA RunExists ==
  ASSUME NEW N \in Nat, NEW start, NEW step
  PROVE  \E f : Runs(f, N, start, step)
<1> DEFINE T == {n \in Nat : \E f : Runs(f, n, start, step)}
<1>1. 0 \in T
  <2> DEFINE f == [n \in 0..0 |-> start]
  <2>1. Runs(f, 0, start, step)
    BY DEF Runs
  <2> QED
    BY <2>1
<1>2. ASSUME NEW n \in Nat, n \in T PROVE n + 1 \in T
  <2>1. PICK f : Runs(f, n, start, step)
    BY <1>2
  <2> DEFINE h == [k \in 0..(n + 1) |-> IF k <= n THEN f[k] ELSE step[n + 1][f[n]]]
  <2>2. f = [k \in 0..n |-> IF k = 0 THEN start ELSE step[k][f[k - 1]]]
    BY <2>1 DEF Runs
  <2>3. \A k \in 0..(n + 1) : h[k] = IF k = 0 THEN start ELSE step[k][h[k - 1]]
    <3> TAKE k \in 0..(n + 1)
    <3>1. CASE k = 0
      <4>1. h[0] = f[0] /\ f[0] = start
        BY <2>2
      <4> QED
        BY <3>1, <4>1
    <3>2. CASE k \in 1..n
      <4>1. h[k] = f[k] /\ k - 1 \in 0..n /\ h[k - 1] = f[k - 1] /\ k # 0
        BY <3>2
      <4>2. f[k] = step[k][f[k - 1]]
        BY <2>2, <3>2
      <4> QED
        BY <4>1, <4>2
    <3>3. CASE k = n + 1
      <4>1. h[k] = step[n + 1][f[n]] /\ k - 1 = n /\ h[n] = f[n] /\ k # 0
        BY <3>3
      <4> QED
        BY <3>3, <4>1
    <3> QED
      BY <3>1, <3>2, <3>3
  <2> HIDE DEF h
  <2>4. h = [k \in 0..(n + 1) |-> h[k]]
    BY DEF h
  <2>5. Runs(h, n + 1, start, step)
    BY <2>3, <2>4 DEF Runs
  <2> QED
    BY <2>5
<1> HIDE DEF T
<1>3. \A n \in Nat : n \in T
  BY <1>1, <1>2, SetInduction
<1>4. N \in T
  BY <1>3
<1> QED
  BY <1>4 DEF T

\* What holds at the start and is kept by every round holds after each.
LEMMA RunKeeps ==
  ASSUME NEW N \in Nat, NEW S, NEW f, f[0] \in S[0],
         \A n \in 1..N : f[n - 1] \in S[n - 1] => f[n] \in S[n]
  PROVE  \A n \in 0..N : f[n] \in S[n]
<1> DEFINE T == {n \in Nat : n <= N => f[n] \in S[n]}
<1>1. 0 \in T
  OBVIOUS
<1>2. ASSUME NEW n \in Nat, n \in T PROVE n + 1 \in T
  <2> SUFFICES ASSUME n + 1 <= N PROVE f[n + 1] \in S[n + 1]
    OBVIOUS
  <2>1. n + 1 \in 1..N /\ n + 1 - 1 = n /\ f[n] \in S[n]
    BY <1>2
  <2> QED
    BY <2>1
<1> HIDE DEF T
<1>3. \A n \in Nat : n \in T
  BY <1>1, <1>2, SetInduction
<1> QED
  BY <1>3 DEF T

-----------------------------------------------------------------------------
(***************************************************************************)
(* Sequences of classes.                                                   *)
(***************************************************************************)
Distinct(s) == \A i, j \in 1..Len(s) : s[i] = s[j] => i = j

\* x stands somewhere before y.
Precedes(s, x, y) == \E i, j \in 1..Len(s) : i < j /\ s[i] = x /\ s[j] = y

LEMMA AppendedClass ==
  ASSUME NEW C, NEW s \in Seq(C), NEW c \in C
  PROVE  /\ Append(s, c) \in Seq(C)
         /\ Len(s) \in Nat /\ Len(Append(s, c)) = Len(s) + 1
         /\ \A m \in 1..Len(s) : Append(s, c)[m] = s[m]
         /\ Append(s, c)[Len(s) + 1] = c
         /\ ClassesOf(Append(s, c)) = ClassesOf(s) \cup {c}
<1>1. /\ Append(s, c) \in Seq(C)
      /\ Len(s) \in Nat /\ Len(Append(s, c)) = Len(s) + 1
      /\ \A m \in 1..Len(s) : Append(s, c)[m] = s[m]
      /\ Append(s, c)[Len(s) + 1] = c
  OBVIOUS
<1>2. ASSUME NEW x \in ClassesOf(Append(s, c)) PROVE x \in ClassesOf(s) \cup {c}
  BY <1>1 DEF ClassesOf
<1>3. ASSUME NEW x \in ClassesOf(s) PROVE x \in ClassesOf(Append(s, c))
  <2>1. PICK m \in 1..Len(s) : x = s[m]
    BY DEF ClassesOf
  <2>2. m \in 1..(Len(s) + 1) /\ Append(s, c)[m] = x
    BY <2>1, <1>1
  <2> QED
    BY <2>2, <1>1 DEF ClassesOf
<1>4. c \in ClassesOf(Append(s, c))
  BY <1>1 DEF ClassesOf
<1> QED
  BY <1>1, <1>2, <1>3, <1>4

\* A new class goes behind all others and leaves their order alone.
LEMMA AppendedBehind ==
  ASSUME NEW C, NEW s \in Seq(C), NEW c \in C, c \notin ClassesOf(s), Distinct(s)
  PROVE  /\ Distinct(Append(s, c))
         /\ \A x, y : Precedes(s, x, y) => Precedes(Append(s, c), x, y)
         /\ \A x \in ClassesOf(s) : Precedes(Append(s, c), x, c)
<1> DEFINE t == Append(s, c)
<1>1. /\ Len(s) \in Nat /\ Len(t) = Len(s) + 1
      /\ \A m \in 1..Len(s) : t[m] = s[m]
      /\ t[Len(s) + 1] = c
  BY AppendedClass
<1> HIDE DEF t
<1>2. \A m \in 1..Len(s) : s[m] # c
  BY DEF ClassesOf
<1>3. Distinct(t)
  BY <1>1, <1>2 DEF Distinct
<1>4. ASSUME NEW x, NEW y, Precedes(s, x, y) PROVE Precedes(t, x, y)
  BY <1>1, <1>4 DEF Precedes
<1>5. ASSUME NEW x \in ClassesOf(s) PROVE Precedes(t, x, c)
  <2>1. PICK m \in 1..Len(s) : x = s[m]
    BY DEF ClassesOf
  <2>2. m \in 1..Len(t) /\ Len(t) \in 1..Len(t) /\ m < Len(t) /\ t[m] = x /\ t[Len(t)] = c
    BY <1>1, <2>1
  <2> QED
    BY <2>2 DEF Precedes
<1> QED
  BY <1>3, <1>4, <1>5 DEF t

LEMMA AppendUniqueKeeps ==
  ASSUME NEW C, NEW s \in Seq(C), NEW c \in C, Distinct(s)
  PROVE  /\ AppendUnique(s, c) \in Seq(C)
         /\ Distinct(AppendUnique(s, c))
         /\ ClassesOf(AppendUnique(s, c)) = ClassesOf(s) \cup {c}
<1>1. CASE c \in ClassesOf(s)
  BY <1>1 DEF AppendUnique
<1>2. CASE c \notin ClassesOf(s)
  BY <1>2, AppendedClass, AppendedBehind DEF AppendUnique
<1> QED
  BY <1>1, <1>2

\* The direct superclasses are those of the list, each once.
LEMMA DirectIsDistinct ==
  ASSUME NEW C, NEW list \in Seq(C)
  PROVE  /\ Direct(list) \in Seq(C)
         /\ Distinct(Direct(list))
         /\ ClassesOf(Direct(list)) = ClassesOf(list)
<1> DEFINE N == Len(list)
           P(f) == f = [i \in 0..N |-> IF i = 0 THEN <<>> ELSE AppendUnique(f[i - 1], list[i])]
           upto == CHOOSE f : P(f)
           Correct(n, u) == u \in Seq(C) /\ Distinct(u) /\ ClassesOf(u) = {list[i] : i \in 1..n}
           S == [n \in 0..N |-> {u \in Seq(C) : Correct(n, u)}]
           step == [n \in 1..N |-> [u \in Seq(C) |-> AppendUnique(u, list[n])]]
<1>1. N \in Nat /\ \A n \in 1..N : list[n] \in C
  OBVIOUS
<1>2. Direct(list) = upto[N]
  BY DEF Direct
<1> HIDE DEF N
<1>3. Correct(0, <<>>)
  BY DEF Distinct, ClassesOf
<1>4. ASSUME NEW n \in 1..N, NEW u, Correct(n - 1, u)
      PROVE  Correct(n, AppendUnique(u, list[n]))
  <2>1. /\ AppendUnique(u, list[n]) \in Seq(C) /\ Distinct(AppendUnique(u, list[n]))
        /\ ClassesOf(AppendUnique(u, list[n])) = ClassesOf(u) \cup {list[n]}
    <3>1. u \in Seq(C) /\ Distinct(u) /\ list[n] \in C
      BY <1>1, <1>4
    <3> QED
      BY <3>1, AppendUniqueKeeps
  <2>2. {list[i] : i \in 1..(n - 1)} \cup {list[n]} = {list[i] : i \in 1..n}
    OBVIOUS
  <2> QED
    BY <1>4, <2>1, <2>2
<1>5. \E f : P(f)
  <2>1. PICK f : Runs(f, N, <<>>, step)
    BY <1>1, RunExists
  <2>2. f = [n \in 0..N |-> IF n = 0 THEN <<>> ELSE step[n][f[n - 1]]]
    BY <2>1 DEF Runs
  <2>3. f[0] \in S[0]
    BY <1>1, <1>3, <2>2
  <2>4. ASSUME NEW n \in 1..N, f[n - 1] \in S[n - 1]
        PROVE  f[n] = AppendUnique(f[n - 1], list[n]) /\ f[n] \in S[n]
    <3>1. n \in 0..N /\ n - 1 \in 0..N /\ n # 0
      BY <1>1
    <3>2. f[n - 1] \in Seq(C) /\ Correct(n - 1, f[n - 1])
      BY <2>4, <3>1
    <3>3. f[n] = step[n][f[n - 1]]
      BY <2>2, <3>1
    <3>4. f[n] = AppendUnique(f[n - 1], list[n])
      BY <3>2, <3>3
    <3> QED
      BY <1>4, <3>1, <3>2, <3>4
  <2> HIDE DEF S, step
  <2>5. \A n \in 0..N : f[n] \in S[n]
    BY <1>1, <2>3, <2>4, RunKeeps
  <2>6. \A n \in 1..N : f[n] = AppendUnique(f[n - 1], list[n])
    BY <1>1, <2>4, <2>5
  <2>7. \A n \in 0..N : f[n] = IF n = 0 THEN <<>> ELSE AppendUnique(f[n - 1], list[n])
    <3>1. f[0] = <<>>
      BY <1>1, <2>2
    <3>2. \A n \in 0..N : n # 0 => n \in 1..N
      BY <1>1
    <3> QED
      BY <2>6, <3>1, <3>2, Zenon
  <2>8. f = [n \in 0..N |-> f[n]]
    BY <2>2, Zenon
  <2>9. P(f)
    BY <2>7, <2>8
  <2> QED
    BY <2>9
<1>6. P(upto)
  <2> HIDE DEF P
  <2> QED
    BY <1>5, Zenon
<1> HIDE DEF upto
<1>7. upto[0] \in S[0]
  BY <1>1, <1>3, <1>6
<1>8. ASSUME NEW n \in 1..N, upto[n - 1] \in S[n - 1] PROVE upto[n] \in S[n]
  <2>1. n \in 0..N /\ n - 1 \in 0..N /\ n # 0
    BY <1>1
  <2>2. Correct(n - 1, upto[n - 1])
    BY <1>8, <2>1
  <2>3. upto[n] = AppendUnique(upto[n - 1], list[n])
    BY <1>6, <2>1
  <2> QED
    BY <1>4, <2>1, <2>2, <2>3
<1>9. upto[N] \in S[N]
  <2> HIDE DEF S, P
  <2>1. \A n \in 0..N : upto[n] \in S[n]
    BY <1>1, <1>7, <1>8, RunKeeps
  <2> QED
    BY <1>1, <2>1
<1>10. Correct(N, upto[N])
  BY <1>1, <1>9
<1> QED
  BY <1>2, <1>10 DEF ClassesOf, N

-----------------------------------------------------------------------------
(***************************************************************************)
(* The merge.                                                              *)
(***************************************************************************)

\* A candidate is the head of a sequence and in the tail of none.
LEMMA CandidateIsHead ==
  ASSUME NEW C, NEW s \in Seq(Seq(C)), NEW idx \in [DOMAIN s -> Nat],
         HasCandidate(s, idx)
  PROVE  \E i \in DOMAIN s :
           Placeable(s, idx, i) /\ NextCandidate(s, idx) = s[i][idx[i] + 1]
<1> DEFINE heads == {i \in DOMAIN s : Placeable(s, idx, i)}
           First(i) == /\ Placeable(s, idx, i)
                       /\ \A j \in 1..(i - 1) : ~Placeable(s, idx, j)
           first == CHOOSE i \in DOMAIN s : First(i)
<1>1. heads \in SUBSET Nat /\ heads # {}
  BY DEF HasCandidate
<1>2. PICK i \in heads : \A j \in heads : i <= j
  <2> HIDE DEF heads
  <2> QED
    BY <1>1, LeastElement, Zenon
<1>3. i \in DOMAIN s /\ First(i)
  <2>1. i \in DOMAIN s /\ Placeable(s, idx, i)
    BY <1>2
  <2>2. ASSUME NEW j \in 1..(i - 1), Placeable(s, idx, j) PROVE FALSE
    <3>1. j \in DOMAIN s
      BY <2>1
    <3>2. j \in heads
      BY <3>1, <2>2
    <3> QED
      BY <1>2, <3>2, <2>1
  <2> QED
    BY <2>1, <2>2
<1>4. first \in DOMAIN s /\ First(first)
  <2> HIDE DEF First
  <2> QED
    BY <1>3, Zenon
<1>5. NextCandidate(s, idx) = s[first][idx[first] + 1]
  BY Zenon DEF NextCandidate
<1> HIDE DEF first
<1> QED
  BY <1>4, <1>5, Zenon

(***************************************************************************)
(* The state of a merge for class c: what stands before the index of a     *)
(* sequence has been placed, behind c and in the order of the sequence,    *)
(* and nothing else has.                                                   *)
(***************************************************************************)
Merging(C, c, s, m) ==
  /\ m \in [out : Seq(C), index : [DOMAIN s -> Nat]]
  /\ Distinct(m.out) /\ m.out # <<>> /\ m.out[1] = c
  /\ \A i \in DOMAIN s : m.index[i] <= Len(s[i])
  /\ \A i \in DOMAIN s : \A j \in 1..Len(s[i]) : j <= m.index[i] <=> s[i][j] \in ClassesOf(m.out)
  /\ \A i \in DOMAIN s : \A j, k \in 1..m.index[i] : j < k => Precedes(m.out, s[i][j], s[i][k])
  /\ ClassesOf(m.out) \subseteq {c} \cup UNION {ClassesOf(s[i]) : i \in DOMAIN s}

LEMMA MergeStarts ==
  ASSUME NEW C, NEW c \in C, NEW s \in Seq(Seq(C)),
         \A i \in DOMAIN s : c \notin ClassesOf(s[i])
  PROVE  Merging(C, c, s, [out |-> <<c>>, index |-> FirstIndex(s)])
<1> DEFINE m == [out |-> <<c>>, index |-> FirstIndex(s)]
<1>1. /\ m.out = <<c>> /\ m.index = [i \in DOMAIN s |-> 0]
      /\ m \in [out : Seq(C), index : [DOMAIN s -> Nat]]
  BY DEF FirstIndex
<1> HIDE DEF m
<1>2. Distinct(m.out) /\ m.out # <<>> /\ m.out[1] = c /\ ClassesOf(m.out) = {c}
  BY <1>1 DEF Distinct, ClassesOf
<1>3. \A i \in DOMAIN s : Len(s[i]) \in Nat /\ m.index[i] = 0
  BY <1>1
<1>4. \A i \in DOMAIN s : \A j \in 1..Len(s[i]) : s[i][j] # c
  BY DEF ClassesOf
<1> QED
  BY <1>1, <1>2, <1>3, <1>4 DEF Merging, m

\* An iteration that finds a candidate.
\* The iteration places x, which is nowhere but at the heads of the sequences.
PlacedNext(s, m, x) ==
  /\ x \notin ClassesOf(m.out)
  /\ \E i \in DOMAIN s : x \in ClassesOf(s[i])
  /\ \A i \in DOMAIN s : \A j \in 1..Len(s[i]) : s[i][j] = x => j = m.index[i] + 1
  /\ Iteration(s, m).out = Append(m.out, x)
  /\ Iteration(s, m).index = DropCandidate(s, m.index, x)
  /\ Iteration(s, m) = [out |-> Append(m.out, x), index |-> DropCandidate(s, m.index, x)]

LEMMA IterationPlaces ==
  ASSUME NEW C, NEW c \in C, NEW s \in Seq(Seq(C)), NEW m, Merging(C, c, s, m),
         HasCandidate(s, m.index)
  PROVE  \E x \in C : PlacedNext(s, m, x)
<1>1. m.out \in Seq(C) /\ m.index \in [DOMAIN s -> Nat]
  BY DEF Merging
<1>2. PICK i \in DOMAIN s : /\ Placeable(s, m.index, i)
                            /\ NextCandidate(s, m.index) = s[i][m.index[i] + 1]
  BY <1>1, CandidateIsHead
<1> DEFINE x == NextCandidate(s, m.index)
           k == m.index[i] + 1
<1>3. s[i] \in Seq(C) /\ m.index[i] \in Nat /\ k \in 1..Len(s[i]) /\ ~(k <= m.index[i])
  BY <1>1, <1>2 DEF Placeable
<1>4. x = s[i][k] /\ x \in C /\ x \in ClassesOf(s[i])
  BY <1>2, <1>3 DEF ClassesOf
<1>5. x \notin ClassesOf(m.out)
  BY <1>3, <1>4 DEF Merging
<1>6. ~TailContains(s, m.index, x)
  BY <1>2 DEF Placeable
<1> HIDE DEF x, k
<1>7. ASSUME NEW a \in DOMAIN s, NEW j \in 1..Len(s[a]), s[a][j] = x PROVE j = m.index[a] + 1
  <2>1. s[a] \in Seq(C) /\ Len(s[a]) \in Nat /\ m.index[a] \in Nat
    BY <1>1
  <2>2. ~(j <= m.index[a])
    BY <1>5, <1>7 DEF Merging
  <2>3. ~(j \in (m.index[a] + 2)..Len(s[a]))
    BY <1>6, <1>7 DEF TailContains
  <2> QED
    BY <2>1, <2>2, <2>3
<1>8. Iteration(s, m) = [out |-> Append(m.out, x), index |-> DropCandidate(s, m.index, x)]
  BY <1>5 DEF Iteration, AppendUnique, x
<1>9. /\ Iteration(s, m).out = Append(m.out, x)
      /\ Iteration(s, m).index = DropCandidate(s, m.index, x)
  BY <1>8
<1>10. x \in C
  BY <1>4
<1> QED
  BY <1>4, <1>5, <1>7, <1>8, <1>9, <1>10, Zenon DEF PlacedNext

LEMMA IterationKeeps ==
  ASSUME NEW C, NEW c \in C, NEW s \in Seq(Seq(C)), NEW m, Merging(C, c, s, m)
  PROVE  Merging(C, c, s, Iteration(s, m))
<1>1. CASE ~HasCandidate(s, m.index)
  BY <1>1 DEF Iteration
<1>2. CASE HasCandidate(s, m.index)
  <2>0. PICK x \in C : PlacedNext(s, m, x)
    BY <1>2, IterationPlaces
  <2>1. /\ x \notin ClassesOf(m.out)
        /\ \E i \in DOMAIN s : x \in ClassesOf(s[i])
        /\ \A i \in DOMAIN s : \A j \in 1..Len(s[i]) : s[i][j] = x => j = m.index[i] + 1
        /\ Iteration(s, m).out = Append(m.out, x)
        /\ Iteration(s, m).index = DropCandidate(s, m.index, x)
        /\ Iteration(s, m) = [out |-> Append(m.out, x), index |-> DropCandidate(s, m.index, x)]
    BY <2>0 DEF PlacedNext
  <2> DEFINE n == Iteration(s, m)
  <2>2. m.out \in Seq(C) /\ m.index \in [DOMAIN s -> Nat] /\ Distinct(m.out)
    BY DEF Merging
  <2>3. \A i \in DOMAIN s : Len(s[i]) \in Nat /\ m.index[i] \in Nat /\ m.index[i] <= Len(s[i])
    BY <2>2 DEF Merging
  <2>4. /\ DOMAIN n.index = DOMAIN s
        /\ \A i \in DOMAIN s : n.index[i] =
             IF m.index[i] < Len(s[i]) /\ s[i][m.index[i] + 1] = x THEN m.index[i] + 1 ELSE m.index[i]
    BY <2>1 DEF DropCandidate
  <2>5. n.index \in [DOMAIN s -> Nat]
    <3>1. \A i \in DOMAIN s : n.index[i] \in Nat
      BY <2>3, <2>4
    <3>2. n.index = [i \in DOMAIN s |-> n.index[i]]
      BY <2>1, Zenon DEF DropCandidate
    <3> HIDE DEF n
    <3> QED
      BY <3>1, <3>2
  <2>6. n.out \in Seq(C) /\ ClassesOf(n.out) = ClassesOf(m.out) \cup {x} /\ n.out[1] = c /\ n.out # <<>>
    <3>1. m.out # <<>> /\ m.out[1] = c
      BY DEF Merging
    <3>2. 1 \in 1..Len(m.out)
      BY <2>2, <3>1
    <3>3. /\ n.out \in Seq(C) /\ ClassesOf(n.out) = ClassesOf(m.out) \cup {x}
          /\ Len(n.out) = Len(m.out) + 1 /\ \A i \in 1..Len(m.out) : n.out[i] = m.out[i]
      BY <2>1, <2>2, AppendedClass
    <3> HIDE DEF n
    <3> QED
      BY <2>2, <3>1, <3>2, <3>3
  <2>7. /\ Distinct(n.out)
        /\ \A y, z : Precedes(m.out, y, z) => Precedes(n.out, y, z)
        /\ \A y \in ClassesOf(m.out) : Precedes(n.out, y, x)
    BY <2>1, <2>2, AppendedBehind
  <2>8. n \in [out : Seq(C), index : [DOMAIN s -> Nat]]
    BY <2>1, <2>5, <2>6
  <2> HIDE DEF n
  <2>9. \A i \in DOMAIN s : n.index[i] <= Len(s[i])
    BY <2>3, <2>4
  <2>10. ASSUME NEW i \in DOMAIN s, NEW j \in 1..Len(s[i])
         PROVE  j <= n.index[i] <=> s[i][j] \in ClassesOf(n.out)
    <3>1. j <= m.index[i] <=> s[i][j] \in ClassesOf(m.out)
      BY DEF Merging
    <3>2. CASE s[i][j] = x
      <4>1. j = m.index[i] + 1
        BY <2>1, <3>2
      <4> QED
        BY <2>3, <2>4, <2>6, <3>2, <4>1
    <3>3. CASE s[i][j] # x
      <4>1. j <= n.index[i] <=> j <= m.index[i]
        BY <2>3, <2>4, <3>3
      <4> QED
        BY <2>6, <3>1, <3>3, <4>1
    <3> QED
      BY <3>2, <3>3
  <2>11. ASSUME NEW i \in DOMAIN s, NEW j \in 1..n.index[i], NEW k \in 1..n.index[i], j < k
         PROVE  Precedes(n.out, s[i][j], s[i][k])
    <3>1. j \in 1..m.index[i] /\ j \in 1..Len(s[i]) /\ k \in Nat
      <4>1. /\ n.index[i] \in Nat /\ m.index[i] \in Nat /\ Len(s[i]) \in Nat
            /\ n.index[i] <= m.index[i] + 1 /\ m.index[i] <= Len(s[i])
        BY <2>3, <2>4
      <4> QED
        BY <2>11, <4>1
    <3>2. CASE k \in 1..m.index[i]
      <4>1. Precedes(m.out, s[i][j], s[i][k])
        BY <2>11, <3>1, <3>2 DEF Merging
      <4> QED
        BY <2>7, <4>1
    <3>3. CASE k \notin 1..m.index[i]
      <4>1. s[i][k] = x
        BY <2>3, <2>4, <3>1, <3>3
      <4>2. s[i][j] \in ClassesOf(m.out)
        BY <3>1 DEF Merging
      <4> QED
        BY <2>7, <4>1, <4>2
    <3> QED
      BY <3>2, <3>3
  <2>12. ClassesOf(n.out) \subseteq {c} \cup UNION {ClassesOf(s[i]) : i \in DOMAIN s}
    <3>1. ClassesOf(m.out) \subseteq {c} \cup UNION {ClassesOf(s[i]) : i \in DOMAIN s}
      BY DEF Merging
    <3> QED
      BY <2>1, <2>6, <3>1
  <2>13. Merging(C, c, s, n)
    BY <2>6, <2>7, <2>8, <2>9, <2>10, <2>11, <2>12 DEF Merging
  <2> QED
    BY <2>13 DEF n
<1> QED
  BY <1>1, <1>2

LEMMA IterationsKeep ==
  ASSUME NEW C, NEW c \in C, NEW s \in Seq(Seq(C)), NEW N \in Nat,
         \A i \in DOMAIN s : c \notin ClassesOf(s[i])
  PROVE  Merging(C, c, s, Iterations(<<c>>, s, N))
<1> DEFINE start == [out |-> <<c>>, index |-> FirstIndex(s)]
           P(f) == f = [n \in 0..N |-> IF n = 0 THEN [out |-> <<c>>, index |-> FirstIndex(s)]
                                       ELSE Iteration(s, f[n - 1])]
           loop == CHOOSE f : P(f)
           M == {m \in [out : Seq(C), index : [DOMAIN s -> Nat]] : Merging(C, c, s, m)}
           S == [n \in 0..N |-> M]
           step == [n \in 1..N |-> [m \in M |-> Iteration(s, m)]]
<1>1. Iterations(<<c>>, s, N) = loop[N]
  BY DEF Iterations
<1>2. start \in M
  <2>1. Merging(C, c, s, start)
    BY MergeStarts
  <2> QED
    BY <2>1 DEF Merging
<1>3. \A m \in M : Iteration(s, m) \in M
  <2> TAKE m \in M
  <2>1. Merging(C, c, s, Iteration(s, m))
    BY IterationKeeps
  <2> QED
    BY <2>1 DEF Merging
<1> HIDE DEF M
<1>4. \E f : P(f)
  <2>1. PICK f : Runs(f, N, start, step)
    BY RunExists
  <2>2. f = [n \in 0..N |-> IF n = 0 THEN start ELSE step[n][f[n - 1]]]
    BY <2>1 DEF Runs
  <2>3. f[0] = start /\ S[0] = M
    <3> HIDE DEF start, step
    <3> QED
      BY <2>2
  <2>4. ASSUME NEW n \in 1..N, f[n - 1] \in S[n - 1]
        PROVE  f[n] = Iteration(s, f[n - 1]) /\ f[n] \in S[n]
    <3>1. n \in 0..N /\ n - 1 \in 0..N /\ n # 0 /\ S[n] = M /\ S[n - 1] = M
      OBVIOUS
    <3>2. f[n] = step[n][f[n - 1]]
      <4> HIDE DEF start, step
      <4> QED
        BY <2>2, <3>1
    <3>3. f[n] = Iteration(s, f[n - 1])
      BY <2>4, <3>1, <3>2
    <3> QED
      BY <1>3, <2>4, <3>1, <3>3
  <2> HIDE DEF step, start
  <2>5. \A n \in 0..N : f[n] \in S[n]
    <3> HIDE DEF S
    <3>1. f[0] \in S[0]
      BY <1>2, <2>3
    <3> QED
      BY <2>4, <3>1, RunKeeps
  <2>6. \A n \in 0..N : f[n] = IF n = 0 THEN start ELSE Iteration(s, f[n - 1])
    <3>1. \A n \in 1..N : f[n] = Iteration(s, f[n - 1])
      <4> HIDE DEF S
      <4>1. \A n \in 1..N : n - 1 \in 0..N
        OBVIOUS
      <4> QED
        BY <2>4, <2>5, <4>1
    <3>2. \A n \in 0..N : n # 0 => n \in 1..N
      OBVIOUS
    <3> QED
      BY <2>3, <3>1, <3>2, Zenon
  <2>7. f = [n \in 0..N |-> f[n]]
    BY <2>2, Zenon
  <2>8. P(f)
    BY <2>6, <2>7 DEF start
  <2> QED
    BY <2>8
<1>5. P(loop)
  <2> HIDE DEF P
  <2> QED
    BY <1>4, Zenon
<1> HIDE DEF loop
<1>6. loop[0] = start /\ \A n \in 1..N : loop[n] = Iteration(s, loop[n - 1])
  <2>1. loop[0] = start
    BY <1>5
  <2>2. \A n \in 1..N : n \in 0..N /\ n # 0
    OBVIOUS
  <2> QED
    BY <1>5, <2>1, <2>2
<1> HIDE DEF P, start
<1>7. loop[0] \in S[0] /\ \A n \in 1..N : loop[n - 1] \in S[n - 1] => loop[n] \in S[n]
  <2>1. \A n \in 1..N : S[n] = M /\ S[n - 1] = M
    OBVIOUS
  <2>2. S[0] = M
    OBVIOUS
  <2> HIDE DEF S
  <2> QED
    BY <1>2, <1>3, <1>6, <2>1, <2>2
<1>8. loop[N] \in S[N] /\ S[N] = M
  <2>1. S[N] = M
    OBVIOUS
  <2> HIDE DEF S
  <2>2. \A n \in 0..N : loop[n] \in S[n]
    BY <1>7, RunKeeps
  <2> QED
    BY <2>1, <2>2
<1> QED
  BY <1>1, <1>8 DEF M

(***************************************************************************)
(* What a merge for class c returns: c, then everything that is merged, in *)
(* the order of every sequence, or nothing.                                *)
(***************************************************************************)
Merged(C, c, s, l) ==
  /\ l \in [order : Seq(C), consistent : BOOLEAN]
  /\ ~l.consistent => l.order = <<>>
  /\ l.consistent =>
       /\ Distinct(l.order) /\ l.order # <<>> /\ l.order[1] = c
       /\ ClassesOf(l.order) = {c} \cup UNION {ClassesOf(s[i]) : i \in DOMAIN s}
       /\ \A i \in DOMAIN s : \A j, k \in 1..Len(s[i]) :
            j < k => Precedes(l.order, s[i][j], s[i][k])

LEMMA InconsistentTypes ==
  ASSUME NEW C
  PROVE  /\ Inconsistent \in [order : Seq(C), consistent : BOOLEAN]
         /\ ~Inconsistent.consistent /\ Inconsistent.order = <<>>
<1>1. <<>> \in Seq(C)
  OBVIOUS
<1>2. Inconsistent = [order |-> <<>>, consistent |-> FALSE]
  BY DEF Inconsistent
<1>3. FALSE \in BOOLEAN
  OBVIOUS
<1> QED
  BY <1>1, <1>2, <1>3, Zenon

LEMMA MergeIsMerged ==
  ASSUME NEW C, NEW c \in C, NEW s \in Seq(Seq(C)), NEW N \in Nat,
         \A i \in DOMAIN s : c \notin ClassesOf(s[i])
  PROVE  Merged(C, c, s, Merge(<<c>>, s, N))
<1> DEFINE m == Iterations(<<c>>, s, N)
<1>1. Merging(C, c, s, m)
  BY IterationsKeep
<1> HIDE DEF m
<1>2. CASE HasRemaining(s, m.index)
  <2>1. Merge(<<c>>, s, N) = Inconsistent
    BY <1>2 DEF Merge, m
  <2> QED
    BY <2>1, InconsistentTypes DEF Merged
<1>3. CASE ~HasRemaining(s, m.index)
  <2> DEFINE l == [order |-> m.out, consistent |-> TRUE]
  <2>1. Merge(<<c>>, s, N) = l
    BY <1>3 DEF Merge, m
  <2>2. l.order = m.out /\ l.consistent /\ m.out \in Seq(C)
    BY <1>1 DEF Merging
  <2>3. l \in [order : Seq(C), consistent : BOOLEAN]
    BY <2>2, Zenon
  <2>4. \A i \in DOMAIN s : Len(s[i]) \in Nat /\ m.index[i] = Len(s[i])
    BY <1>1, <1>3 DEF Merging, HasRemaining
  <2>5. /\ Distinct(m.out) /\ m.out # <<>> /\ m.out[1] = c
        /\ \A i \in DOMAIN s : \A j, k \in 1..Len(s[i]) : j < k => Precedes(m.out, s[i][j], s[i][k])
    BY <1>1, <2>4 DEF Merging
  <2>6. ClassesOf(m.out) = {c} \cup UNION {ClassesOf(s[i]) : i \in DOMAIN s}
    <3>1. ASSUME NEW i \in DOMAIN s, NEW x \in ClassesOf(s[i]) PROVE x \in ClassesOf(m.out)
      <4>1. PICK j \in 1..Len(s[i]) : x = s[i][j]
        BY <3>1 DEF ClassesOf
      <4>2. j <= m.index[i]
        BY <2>4
      <4> QED
        BY <1>1, <4>1, <4>2 DEF Merging
    <3>2. c \in ClassesOf(m.out)
      <4>1. 1 \in 1..Len(m.out)
        BY <2>2, <2>5
      <4> QED
        BY <2>5, <4>1 DEF ClassesOf
    <3>3. ClassesOf(m.out) \subseteq {c} \cup UNION {ClassesOf(s[i]) : i \in DOMAIN s}
      BY <1>1 DEF Merging
    <3> QED
      BY <3>1, <3>2, <3>3
  <2> HIDE DEF l
  <2> QED
    BY <2>1, <2>2, <2>3, <2>5, <2>6 DEF Merged
<1> QED
  BY <1>2, <1>3

-----------------------------------------------------------------------------
(***************************************************************************)
(* Hierarchies: a class extends classes that are older.                    *)
(***************************************************************************)
IsHierarchy(h) ==
  /\ h \in Seq(Seq(Nat))
  /\ \A c \in 1..Len(h) : ClassesOf(h[c]) \subseteq 1..(c - 1)

LEMMA OlderSuperclasses ==
  ASSUME NEW h, IsHierarchy(h), NEW c \in 1..Len(h)
  PROVE  h[c] \in Seq(1..(c - 1))
<1>1. h[c] \in Seq(Nat) /\ \A i \in 1..Len(h[c]) : h[c][i] \in 1..(c - 1)
  BY DEF IsHierarchy, ClassesOf
<1> QED
  BY <1>1

LEMMA AncestorsDefined ==
  ASSUME NEW h, IsHierarchy(h), NEW c \in 1..Len(h)
  PROVE  /\ AncestorsIn(h)[c] = {c} \cup UNION {AncestorsIn(h)[s] : s \in ClassesOf(h[c])}
         /\ AncestorsIn(h)[c] \subseteq 1..c
<1> DEFINE N == Len(h)
           Above(f, d) == {d} \cup UNION {f[s] : s \in ClassesOf(h[d])}
           P(f) == f = [d \in 1..N |-> {d} \cup UNION {f[s] : s \in ClassesOf(h[d])}]
           anc == CHOOSE f : P(f)
           S == [d \in 1..N |-> SUBSET (1..d)]
           step == [d \in 1..N |-> [g \in Allowed(S, d) |-> Above(g, d)]]
<1>1. N \in Nat
  BY DEF IsHierarchy
<1>2. AncestorsIn(h) = anc
  BY DEF AncestorsIn
<1>3. \A d \in 1..N : \A s \in ClassesOf(h[d]) : s \in 1..(d - 1)
  BY DEF IsHierarchy
<1> HIDE DEF N
<1>4. ASSUME NEW d \in 1..N, NEW f, \A i \in 1..(d - 1) : f[i] \in S[i] PROVE Above(f, d) \in S[d]
  <2>1. \A i \in 1..(d - 1) : i \in 1..N /\ S[i] = SUBSET (1..i)
    BY <1>1
  <2>2. \A s \in ClassesOf(h[d]) : f[s] \subseteq 1..d
    <3>1. \A i \in 1..(d - 1) : f[i] \in SUBSET (1..i)
      <4> HIDE DEF S
      <4> QED
        BY <1>4, <2>1
    <3>2. \A i \in 1..(d - 1) : 1..i \subseteq 1..d
      BY <1>1
    <3>3. \A i \in 1..(d - 1) : f[i] \subseteq 1..d
      BY <3>1, <3>2
    <3> QED
      BY <1>3, <3>3
  <2> QED
    BY <1>1, <2>2
<1>5. IsStep(S, N, step)
  <2>1. \A d \in 1..N : \A g \in Allowed(S, d) : step[d][g] = Above(g, d)
    OBVIOUS
  <2>2. \A d \in 1..N : \A g \in Allowed(S, d) : \A i \in 1..(d - 1) : g[i] \in S[i]
    BY DEF Allowed
  <2> HIDE DEF step, S, Above
  <2> QED
    BY <1>4, <2>1, <2>2 DEF IsStep
<1>6. \E f : P(f)
  <2>1. PICK f : Solves(f, N, step)
    BY <1>1, SolutionExists
  <2>2. \A d \in 1..N : Before(f, d) \in Allowed(S, d)
    BY <1>1, <1>5, <2>1, SolutionAllowed
  <2>3. \A d \in 1..N : Above(Before(f, d), d) = Above(f, d)
    BY <1>3 DEF Before
  <2>4. \A d \in 1..N : f[d] = Above(f, d)
    <3>1. \A d \in 1..N : f[d] = step[d][Before(f, d)]
      BY <2>1 DEF Solves
    <3>2. \A d \in 1..N : step[d][Before(f, d)] = Above(Before(f, d), d)
      BY <2>2
    <3> HIDE DEF step, Above
    <3> QED
      BY <2>3, <3>1, <3>2
  <2>5. f = [d \in 1..N |-> f[d]]
    BY <2>1, Zenon DEF Solves
  <2>6. P(f)
    BY <2>4, <2>5
  <2> QED
    BY <2>6
<1>7. P(anc)
  <2> HIDE DEF P
  <2> QED
    BY <1>6, Zenon
<1> HIDE DEF anc
<1>8. \A d \in 1..N : anc[d] = Above(anc, d)
  BY <1>7
<1>9. \A d \in 1..N : anc[d] \in S[d]
  <2> DEFINE T == {d \in 1..N : anc[d] \in S[d]}
  <2>1. ASSUME NEW d \in 1..N, \A i \in 1..(d - 1) : i \in T PROVE d \in T
    <3>1. \A i \in 1..(d - 1) : anc[i] \in S[i]
      BY <2>1
    <3> HIDE DEF S, Above
    <3> QED
      BY <1>4, <1>8, <3>1
  <2> HIDE DEF T
  <2>2. \A d \in 1..N : d \in T
    BY <1>1, <2>1, StrongInduction
  <2> QED
    BY <2>2 DEF T
<1> QED
  BY <1>2, <1>8, <1>9 DEF N

-----------------------------------------------------------------------------
(***************************************************************************)
(* Linearizations.                                                         *)
(***************************************************************************)

\* The linearization of c if g has those of the classes before it.
Body(h, c, g) ==
  LET direct == Direct(h[c])
      above == [i \in 1..Len(direct) |-> g[direct[i]]]
  IN IF \E i \in 1..Len(direct) : ~above[i].consistent
       THEN Inconsistent
       ELSE Merge(<<c>>, SequencesToMerge(direct, above), Len(h))

(***************************************************************************)
(* What is right for a class: a consistent linearization has the class and *)
(* its ancestors, each once and before its direct superclasses, and these  *)
(* in the order in which they are named.                                   *)
(***************************************************************************)
Ordered(h, c, l) ==
  /\ l \in [order : Seq(1..c), consistent : BOOLEAN]
  /\ ~l.consistent => l.order = <<>>
  /\ l.consistent =>
       /\ Distinct(l.order) /\ l.order # <<>> /\ l.order[1] = c
       /\ ClassesOf(l.order) = AncestorsIn(h)[c]
       /\ \A d \in AncestorsIn(h)[c] : \A i \in 1..Len(Direct(h[d])) :
            /\ Precedes(l.order, d, Direct(h[d])[i])
            /\ \A j \in 1..(i - 1) : Precedes(l.order, Direct(h[d])[j], Direct(h[d])[i])

LEMMA PrecedesCarries ==
  ASSUME NEW s, NEW t, NEW x, NEW y, Precedes(s, x, y),
         \A j, k \in 1..Len(s) : j < k => Precedes(t, s[j], s[k])
  PROVE  Precedes(t, x, y)
<1>1. PICK j, k \in 1..Len(s) : j < k /\ s[j] = x /\ s[k] = y
  BY DEF Precedes
<1> QED
  BY <1>1

LEMMA FirstPrecedes ==
  ASSUME NEW C, NEW s \in Seq(C), s # <<>>, NEW y \in ClassesOf(s), y # s[1]
  PROVE  Precedes(s, s[1], y)
<1>1. PICK k \in 1..Len(s) : s[k] = y
  BY DEF ClassesOf
<1>2. Len(s) \in Nat /\ 1 \in 1..Len(s) /\ 1 < k
  BY <1>1
<1> QED
  BY <1>1, <1>2 DEF Precedes

\* The sequences that are merged for c.
LEMMA SequencesAbove ==
  ASSUME NEW h, IsHierarchy(h), NEW c \in 1..Len(h), NEW g,
         \A i \in 1..(c - 1) : Ordered(h, i, g[i])
  PROVE  LET direct == Direct(h[c])
             above == [i \in 1..Len(direct) |-> g[direct[i]]]
             s == SequencesToMerge(direct, above)
         IN /\ direct \in Seq(1..(c - 1)) /\ ClassesOf(direct) = ClassesOf(h[c])
            /\ s \in Seq(Seq(1..(c - 1))) /\ Len(s) = Len(direct) + 1
            /\ DOMAIN s = 1..(Len(direct) + 1)
            /\ \A i \in 1..Len(direct) : s[i] = g[direct[i]].order
            /\ s[Len(direct) + 1] = direct
<1> DEFINE direct == Direct(h[c])
           above == [i \in 1..Len(direct) |-> g[direct[i]]]
           s == SequencesToMerge(direct, above)
           first == [i \in 1..Len(direct) |-> above[i].order]
<1>1. c \in Nat /\ c - 1 \in Nat
  BY DEF IsHierarchy
<1>2. direct \in Seq(1..(c - 1)) /\ ClassesOf(direct) = ClassesOf(h[c])
  <2>1. h[c] \in Seq(1..(c - 1))
    BY OlderSuperclasses
  <2> QED
    BY <2>1, DirectIsDistinct
<1> HIDE DEF direct
<1>3. Len(direct) \in Nat /\ \A i \in 1..Len(direct) : direct[i] \in 1..(c - 1)
  BY <1>2
<1>4. \A i \in 1..Len(direct) : first[i] = g[direct[i]].order
  OBVIOUS
<1>5. \A i \in 1..(c - 1) : g[i].order \in Seq(1..(c - 1))
  <2> TAKE i \in 1..(c - 1)
  <2>1. g[i].order \in Seq(1..i)
    BY DEF Ordered
  <2>2. 1..i \subseteq 1..(c - 1)
    BY <1>1
  <2>3. Len(g[i].order) \in Nat /\ \A k \in 1..Len(g[i].order) : g[i].order[k] \in 1..(c - 1)
    BY <2>1, <2>2
  <2> QED
    BY <2>1, <2>3
<1>6. first \in Seq(Seq(1..(c - 1))) /\ Len(first) = Len(direct)
  <2>1. \A i \in 1..Len(direct) : first[i] \in Seq(1..(c - 1))
    BY <1>3, <1>4, <1>5
  <2>2. first = [i \in 1..Len(direct) |-> first[i]]
    OBVIOUS
  <2> HIDE DEF first
  <2> QED
    BY <1>3, <2>1, <2>2
<1>7. s = Append(first, direct)
  BY DEF SequencesToMerge
<1> HIDE DEF first, s
<1>8. /\ s \in Seq(Seq(1..(c - 1))) /\ Len(s) = Len(direct) + 1
      /\ DOMAIN s = 1..(Len(direct) + 1)
      /\ \A i \in 1..Len(direct) : s[i] = first[i]
      /\ s[Len(direct) + 1] = direct
  BY <1>2, <1>3, <1>6, <1>7
<1> QED
  BY <1>2, <1>4, <1>8 DEF s, direct

LEMMA SeqGrows ==
  ASSUME NEW C, NEW D, C \subseteq D, NEW s \in Seq(C)
  PROVE  s \in Seq(D)
<1>1. Len(s) \in Nat /\ \A i \in 1..Len(s) : s[i] \in D
  OBVIOUS
<1> QED
  BY <1>1

\* What the linearization of c is merged from, if those above are consistent.
LEMMA BodyMerged ==
  ASSUME NEW h, IsHierarchy(h), NEW c \in 1..Len(h), NEW g,
         \A i \in 1..(c - 1) : Ordered(h, i, g[i])
  PROVE  LET direct == Direct(h[c])
             s == SequencesToMerge(direct, [i \in 1..Len(direct) |-> g[direct[i]]])
         IN \/ Body(h, c, g) = Inconsistent
            \/ /\ \A i \in 1..Len(direct) : g[direct[i]].consistent
               /\ Merged(1..c, c, s, Body(h, c, g))
<1> DEFINE direct == Direct(h[c])
           above == [i \in 1..Len(direct) |-> g[direct[i]]]
           s == SequencesToMerge(direct, above)
           l == Merge(<<c>>, s, Len(h))
<1>1. c \in Nat /\ c - 1 \in Nat /\ c \in 1..c /\ Len(h) \in Nat
  BY DEF IsHierarchy
<1>2. /\ direct \in Seq(1..(c - 1)) /\ ClassesOf(direct) = ClassesOf(h[c])
      /\ s \in Seq(Seq(1..(c - 1))) /\ Len(s) = Len(direct) + 1
      /\ DOMAIN s = 1..(Len(direct) + 1)
      /\ \A i \in 1..Len(direct) : s[i] = g[direct[i]].order
      /\ s[Len(direct) + 1] = direct
  BY SequencesAbove
<1>3. /\ \A i \in 1..Len(direct) : above[i] = g[direct[i]]
      /\ Body(h, c, g) = IF \E i \in 1..Len(direct) : ~above[i].consistent THEN Inconsistent ELSE l
  BY DEF Body
<1> HIDE DEF direct, above, s, l
<1>4. Merged(1..c, c, s, l)
  <2>1. s \in Seq(Seq(1..c))
    <3>1. 1..(c - 1) \subseteq 1..c
      BY <1>1
    <3>2. Seq(1..(c - 1)) \subseteq Seq(1..c)
      BY <3>1, SeqGrows
    <3> QED
      BY <1>2, <3>2, SeqGrows
  <2>2. \A i \in DOMAIN s : c \notin ClassesOf(s[i])
    <3> TAKE i \in DOMAIN s
    <3>1. s[i] \in Seq(1..(c - 1))
      BY <1>2
    <3>2. ClassesOf(s[i]) \subseteq 1..(c - 1)
      BY <3>1 DEF ClassesOf
    <3> QED
      BY <1>1, <3>2
  <2> QED
    BY <1>1, <2>1, <2>2, MergeIsMerged DEF l
<1> QED
  BY <1>3, <1>4 DEF direct, above, s, l

LEMMA BodyOrdered ==
  ASSUME NEW h, IsHierarchy(h), NEW c \in 1..Len(h), NEW g,
         \A i \in 1..(c - 1) : Ordered(h, i, g[i])
  PROVE  Ordered(h, c, Body(h, c, g))
<1> DEFINE direct == Direct(h[c])
           above == [i \in 1..Len(direct) |-> g[direct[i]]]
           s == SequencesToMerge(direct, above)
           l == Merge(<<c>>, s, Len(h))
           A == AncestorsIn(h)
<1>1. c \in Nat /\ c - 1 \in Nat /\ c \in 1..c /\ Len(h) \in Nat
  BY DEF IsHierarchy
<1>2. /\ direct \in Seq(1..(c - 1)) /\ ClassesOf(direct) = ClassesOf(h[c])
      /\ s \in Seq(Seq(1..(c - 1))) /\ Len(s) = Len(direct) + 1
      /\ DOMAIN s = 1..(Len(direct) + 1)
      /\ \A i \in 1..Len(direct) : s[i] = g[direct[i]].order
      /\ s[Len(direct) + 1] = direct
  BY SequencesAbove
<1>3. /\ \A i \in 1..Len(direct) : above[i] = g[direct[i]]
      /\ Body(h, c, g) = IF \E i \in 1..Len(direct) : ~above[i].consistent THEN Inconsistent ELSE l
  BY DEF Body
<1>4. ASSUME NEW d \in 1..Len(h) PROVE A[d] = {d} \cup UNION {A[x] : x \in ClassesOf(h[d])}
  BY AncestorsDefined
<1> HIDE DEF direct, above, s, l, A
<1>5. Len(direct) \in Nat /\ \A i \in 1..Len(direct) : direct[i] \in 1..(c - 1)
  BY <1>2
<1>6. CASE \E i \in 1..Len(direct) : ~above[i].consistent
  BY <1>3, <1>6, InconsistentTypes DEF Ordered
<1>7. CASE \A i \in 1..Len(direct) : above[i].consistent
  <2>1. \A i \in 1..Len(direct) : direct[i] \in 1..(c - 1) /\ Ordered(h, direct[i], g[direct[i]]) /\ g[direct[i]].consistent
    BY <1>3, <1>5, <1>7
  <2>2. Body(h, c, g) = l
    BY <1>3, <1>7
  <2>3. l = Inconsistent \/ Merged(1..c, c, s, l)
    BY <2>2, BodyMerged DEF s, above, direct
  <2> SUFFICES ASSUME l.consistent
               PROVE  /\ ClassesOf(l.order) = A[c]
                      /\ \A d \in A[c] : \A i \in 1..Len(Direct(h[d])) :
                           /\ Precedes(l.order, d, Direct(h[d])[i])
                           /\ \A j \in 1..(i - 1) : Precedes(l.order, Direct(h[d])[j], Direct(h[d])[i])
    BY <2>2, <2>3, InconsistentTypes DEF Ordered, Merged, A
  <2>4. /\ l.order \in Seq(1..c) /\ l.order # <<>> /\ l.order[1] = c
        /\ ClassesOf(l.order) = {c} \cup UNION {ClassesOf(s[i]) : i \in DOMAIN s}
        /\ \A i \in DOMAIN s : \A j, k \in 1..Len(s[i]) : j < k => Precedes(l.order, s[i][j], s[i][k])
    BY <2>3, InconsistentTypes DEF Merged
  <2>5. \A i \in 1..Len(direct) : ClassesOf(s[i]) = A[direct[i]]
    BY <1>2, <2>1 DEF Ordered, A
  <2>6. \A x \in ClassesOf(h[c]) : x \in A[x] /\ \E i \in 1..Len(direct) : x = direct[i]
    <3> TAKE x \in ClassesOf(h[c])
    <3>1. PICK i \in 1..Len(direct) : x = direct[i]
      BY <1>2 DEF ClassesOf
    <3>2. x \in 1..Len(h)
      BY <1>1, <1>5, <3>1
    <3> QED
      BY <1>4, <3>1, <3>2
  <2>7. \A i \in 1..Len(direct) : direct[i] \in ClassesOf(h[c])
    BY <1>2 DEF ClassesOf
  <2>8. ClassesOf(l.order) = A[c]
    <3>1. A[c] = {c} \cup UNION {A[x] : x \in ClassesOf(h[c])}
      BY <1>4
    <3>2. ASSUME NEW i \in DOMAIN s, NEW y \in ClassesOf(s[i]) PROVE y \in A[c]
      <4>1. CASE i \in 1..Len(direct)
        BY <2>5, <2>7, <3>1, <3>2, <4>1
      <4>2. CASE i = Len(direct) + 1
        <5>1. y \in ClassesOf(h[c])
          BY <1>2, <3>2, <4>2
        <5> QED
          BY <2>6, <3>1, <5>1
      <4> QED
        BY <1>2, <1>5, <4>1, <4>2
    <3>3. ASSUME NEW x \in ClassesOf(h[c]), NEW y \in A[x] PROVE y \in ClassesOf(l.order)
      <4>1. PICK i \in 1..Len(direct) : x = direct[i]
        BY <2>6
      <4>2. i \in DOMAIN s /\ y \in ClassesOf(s[i])
        BY <1>2, <1>5, <2>5, <3>3, <4>1
      <4> QED
        BY <2>4, <4>2
    <3> QED
      BY <2>4, <3>1, <3>2, <3>3
  <2>9. ASSUME NEW i \in 1..Len(direct)
        PROVE  /\ Precedes(l.order, c, direct[i])
               /\ \A j \in 1..(i - 1) : Precedes(l.order, direct[j], direct[i])
    <3>1. direct[i] # c
      BY <1>1, <1>5
    <3>2. direct[i] \in ClassesOf(l.order)
      <4>1. direct[i] \in ClassesOf(h[c])
        BY <2>7
      <4>2. direct[i] \in A[direct[i]]
        BY <2>6, <4>1
      <4>3. i \in DOMAIN s /\ ClassesOf(s[i]) = A[direct[i]]
        BY <1>2, <1>5, <2>5
      <4> QED
        BY <2>4, <4>2, <4>3
    <3>3. Precedes(l.order, c, direct[i])
      BY <2>4, <3>1, <3>2, FirstPrecedes
    <3>4. \A j \in 1..(i - 1) : Precedes(l.order, direct[j], direct[i])
      <4>1. Len(direct) + 1 \in DOMAIN s
        BY <1>2, <1>5
      <4>2. \A j, k \in 1..Len(direct) : j < k => Precedes(l.order, direct[j], direct[k])
        BY <1>2, <2>4, <4>1
      <4>3. \A j \in 1..(i - 1) : j \in 1..Len(direct) /\ j < i
        BY <1>5
      <4> QED
        BY <4>2, <4>3
    <3> QED
      BY <3>3, <3>4
  <2>10. ASSUME NEW d \in A[c], d # c,
                NEW i \in 1..Len(Direct(h[d]))
         PROVE  /\ Precedes(l.order, d, Direct(h[d])[i])
                /\ \A j \in 1..(i - 1) : Precedes(l.order, Direct(h[d])[j], Direct(h[d])[i])
    <3>1. PICK a \in 1..Len(direct) : d \in A[direct[a]]
      BY <1>4, <2>6, <2>10
    <3>2. /\ Precedes(s[a], d, Direct(h[d])[i])
          /\ \A j \in 1..(i - 1) : Precedes(s[a], Direct(h[d])[j], Direct(h[d])[i])
      BY <1>2, <2>1, <3>1 DEF Ordered, A
    <3>3. a \in DOMAIN s
      BY <1>2, <1>5
    <3>4. \A j, k \in 1..Len(s[a]) : j < k => Precedes(l.order, s[a][j], s[a][k])
      BY <2>4, <3>3
    <3> QED
      BY <3>2, <3>4, PrecedesCarries
  <2> QED
    BY <2>8, <2>9, <2>10 DEF direct
<1> QED
  BY <1>6, <1>7

\* A consistent linearization keeps the order of those that it merges.
LEMMA BodyCarries ==
  ASSUME NEW h, IsHierarchy(h), NEW c \in 1..Len(h), NEW g,
         \A i \in 1..(c - 1) : Ordered(h, i, g[i])
  PROVE  Body(h, c, g).consistent =>
           \A d \in ClassesOf(h[c]) :
             /\ g[d].consistent
             /\ \A x, y : Precedes(g[d].order, x, y) => Precedes(Body(h, c, g).order, x, y)
<1> DEFINE direct == Direct(h[c])
           above == [i \in 1..Len(direct) |-> g[direct[i]]]
           s == SequencesToMerge(direct, above)
           l == Body(h, c, g)
<1>1. /\ direct \in Seq(1..(c - 1)) /\ ClassesOf(direct) = ClassesOf(h[c])
      /\ s \in Seq(Seq(1..(c - 1))) /\ Len(s) = Len(direct) + 1
      /\ DOMAIN s = 1..(Len(direct) + 1)
      /\ \A i \in 1..Len(direct) : s[i] = g[direct[i]].order
      /\ s[Len(direct) + 1] = direct
  BY SequencesAbove
<1>2. Len(direct) \in Nat
  <2> HIDE DEF direct
  <2> QED
    BY <1>1
<1>3. \/ l = Inconsistent
      \/ (\A i \in 1..Len(direct) : g[direct[i]].consistent) /\ Merged(1..c, c, s, l)
  BY BodyMerged
<1> HIDE DEF direct, above, s, l
<1> SUFFICES ASSUME l.consistent, NEW d \in ClassesOf(h[c])
             PROVE  /\ g[d].consistent
                    /\ \A x, y : Precedes(g[d].order, x, y) => Precedes(l.order, x, y)
  BY DEF l
<1>4. PICK i \in 1..Len(direct) : d = direct[i]
  BY <1>1 DEF ClassesOf
<1>5. i \in DOMAIN s /\ s[i] = g[d].order
  BY <1>1, <1>2, <1>4
<1>6. /\ g[d].consistent
      /\ \A j, k \in 1..Len(s[i]) : j < k => Precedes(l.order, s[i][j], s[i][k])
  BY <1>3, <1>4, <1>5, InconsistentTypes DEF Merged
<1> QED
  BY <1>5, <1>6, PrecedesCarries

\* The definition holds of what it defines, and every value is in order.
LEMMA LinearizationDefined ==
  ASSUME NEW h, IsHierarchy(h)
  PROVE  \A c \in 1..Len(h) : /\ LinearizationIn(h)[c] = Body(h, c, LinearizationIn(h))
                              /\ Ordered(h, c, LinearizationIn(h)[c])
<1> DEFINE N == Len(h)
           P(f) == f = [c \in 1..N |->
             LET direct == Direct(h[c])
                 above == [i \in 1..Len(direct) |-> f[direct[i]]]
             IN IF \E i \in 1..Len(direct) : ~above[i].consistent
                  THEN Inconsistent
                  ELSE Merge(<<c>>, SequencesToMerge(direct, above), Len(h))]
           lin == CHOOSE f : P(f)
           S == [c \in 1..N |-> {l \in [order : Seq(1..c), consistent : BOOLEAN] : Ordered(h, c, l)}]
           step == [c \in 1..N |-> [g \in Allowed(S, c) |-> Body(h, c, g)]]
<1>1. LinearizationIn(h) = lin
  BY DEF LinearizationIn
<1>2. \A f : P(f) <=> f = [c \in 1..N |-> Body(h, c, f)]
  BY DEF Body
<1>3. N \in Nat
  BY DEF IsHierarchy
<1>4. \A c \in 1..N : \A l : l \in S[c] <=> Ordered(h, c, l)
  BY DEF Ordered
<1>5. \A c \in 1..N : \A i \in 1..(c - 1) : i \in 1..N
  BY <1>3
<1>6. ASSUME NEW c \in 1..N, NEW g, \A i \in 1..(c - 1) : g[i] \in S[i] PROVE Body(h, c, g) \in S[c]
  <2>1. \A i \in 1..(c - 1) : Ordered(h, i, g[i])
    <3> HIDE DEF S
    <3> QED
      BY <1>4, <1>5, <1>6
  <2>2. Ordered(h, c, Body(h, c, g))
    BY <2>1, BodyOrdered
  <2> HIDE DEF S
  <2> QED
    BY <1>4, <2>2
<1>7. \A c \in 1..N : \A g \in Allowed(S, c) : step[c][g] = Body(h, c, g)
  OBVIOUS
<1> HIDE DEF S, step, N, P, lin
<1>8. IsStep(S, N, step)
  BY <1>6, <1>7 DEF IsStep, Allowed
<1>9. \E f : P(f)
  <2>1. PICK f : Solves(f, N, step)
    BY <1>3, SolutionExists
  <2>2. \A c \in 1..N : Before(f, c) \in Allowed(S, c)
    BY <1>3, <1>8, <2>1, SolutionAllowed
  <2>3. ASSUME NEW c \in 1..N PROVE Body(h, c, Before(f, c)) = Body(h, c, f)
    <3> DEFINE direct == Direct(h[c])
    <3>1. direct \in Seq(1..(c - 1))
      BY OlderSuperclasses, DirectIsDistinct DEF N
    <3>2. \A i \in 1..Len(direct) : Before(f, c)[direct[i]] = f[direct[i]]
      BY <3>1 DEF Before
    <3>3. [i \in 1..Len(direct) |-> Before(f, c)[direct[i]]] = [i \in 1..Len(direct) |-> f[direct[i]]]
      <4> HIDE DEF direct
      <4> QED
        BY <3>2
    <3> QED
      BY <3>3, Zenon DEF Body
  <2>4. \A c \in 1..N : f[c] = Body(h, c, f)
    <3>1. \A c \in 1..N : f[c] = step[c][Before(f, c)]
      BY <2>1 DEF Solves
    <3> QED
      BY <1>7, <2>2, <2>3, <3>1
  <2>5. f = [c \in 1..N |-> f[c]]
    BY <2>1, Zenon DEF Solves
  <2>6. f = [c \in 1..N |-> Body(h, c, f)]
    BY <2>4, <2>5
  <2> QED
    BY <1>2, <2>6
<1>10. P(lin)
  BY <1>9, Zenon DEF lin
<1>11. \A c \in 1..N : lin[c] = Body(h, c, lin)
  <2>1. lin = [c \in 1..N |-> Body(h, c, lin)]
    BY <1>2, <1>10
  <2> QED
    BY <2>1
<1>12. \A c \in 1..N : lin[c] \in S[c]
  <2> DEFINE T == {c \in 1..N : lin[c] \in S[c]}
  <2>1. ASSUME NEW c \in 1..N, \A i \in 1..(c - 1) : i \in T PROVE c \in T
    <3>1. \A i \in 1..(c - 1) : lin[i] \in S[i]
      BY <2>1
    <3> QED
      BY <1>6, <1>11, <3>1
  <2> HIDE DEF T
  <2>2. \A c \in 1..N : c \in T
    BY <1>3, <2>1, StrongInduction
  <2> QED
    BY <2>2 DEF T
<1> QED
  BY <1>1, <1>4, <1>11, <1>12 DEF N

(***************************************************************************)
(* The linearization of every class of every hierarchy is right.           *)
(***************************************************************************)
THEOREM LinearizationOrdered ==
  ASSUME NEW h, IsHierarchy(h)
  PROVE  \A c \in 1..Len(h) : Ordered(h, c, LinearizationIn(h)[c])
BY LinearizationDefined

(***************************************************************************)
(* Nothing is reordered by inheritance, at any distance.                   *)
(***************************************************************************)
THEOREM OrderInherited ==
  ASSUME NEW h, IsHierarchy(h)
  PROVE  \A c \in 1..Len(h) : LinearizationIn(h)[c].consistent =>
           \A a \in AncestorsIn(h)[c] :
             /\ LinearizationIn(h)[a].consistent
             /\ \A x, y : Precedes(LinearizationIn(h)[a].order, x, y) =>
                            Precedes(LinearizationIn(h)[c].order, x, y)
<1> DEFINE N == Len(h)
           L == LinearizationIn(h)
           A == AncestorsIn(h)
           Keeps(c, a) ==
             /\ L[a].consistent
             /\ \A x, y : Precedes(L[a].order, x, y) => Precedes(L[c].order, x, y)
           T == {c \in 1..N : L[c].consistent => \A a \in A[c] : Keeps(c, a)}
<1>1. N \in Nat
  BY DEF IsHierarchy
<1>2. \A c \in 1..N : L[c] = Body(h, c, L) /\ Ordered(h, c, L[c])
  BY LinearizationDefined
<1>3. ASSUME NEW c \in 1..N
      PROVE  A[c] = {c} \cup UNION {A[s] : s \in ClassesOf(h[c])}
  BY AncestorsDefined
<1>4. ASSUME NEW c \in 1..N PROVE ClassesOf(h[c]) \subseteq 1..(c - 1)
  BY DEF IsHierarchy
<1> HIDE DEF N, L, A
<1>5. ASSUME NEW c \in 1..N, \A i \in 1..(c - 1) : i \in T PROVE c \in T
  <2> SUFFICES ASSUME L[c].consistent, NEW a \in A[c] PROVE Keeps(c, a)
    OBVIOUS
  <2>1. CASE a = c
    BY <2>1
  <2>2. CASE a # c
    <3>1. PICK d \in ClassesOf(h[c]) : a \in A[d]
      BY <1>3, <2>2
    <3>2. d \in 1..(c - 1)
      BY <1>4, <3>1
    <3>3. \A i \in 1..(c - 1) : Ordered(h, i, L[i])
      BY <1>1, <1>2
    <3>4. /\ L[d].consistent
          /\ \A x, y : Precedes(L[d].order, x, y) => Precedes(L[c].order, x, y)
      BY <1>2, <3>1, <3>3, BodyCarries DEF N
    <3>5. Keeps(d, a)
      BY <1>5, <3>1, <3>2, <3>4
    <3> QED
      BY <3>4, <3>5
  <2> QED
    BY <2>1, <2>2
<1> HIDE DEF T
<1>6. \A c \in 1..N : c \in T
  BY <1>1, <1>5, StrongInduction
<1> QED
  BY <1>6 DEF T, N, L, A

-----------------------------------------------------------------------------
(***************************************************************************)
(* Positions in an order that repeats nothing.                             *)
(***************************************************************************)
LEMMA PositionIsIndex ==
  ASSUME NEW s, Distinct(s), NEW i \in 1..Len(s)
  PROVE  Position(s, s[i]) = i
<1>1. \E j \in 1..Len(s) : s[j] = s[i]
  OBVIOUS
<1>2. Position(s, s[i]) \in 1..Len(s) /\ s[Position(s, s[i])] = s[i]
  BY <1>1, Zenon DEF Position
<1> QED
  BY <1>2 DEF Distinct

LEMMA PrecedesPosition ==
  ASSUME NEW s, Distinct(s), NEW x, NEW y, Precedes(s, x, y)
  PROVE  Position(s, x) < Position(s, y)
<1>1. PICK i, j \in 1..Len(s) : i < j /\ s[i] = x /\ s[j] = y
  BY DEF Precedes
<1>2. Position(s, x) = i /\ Position(s, y) = j
  BY <1>1, PositionIsIndex
<1> QED
  BY <1>1, <1>2

\* What is listed once each is counted by the length.
LEMMA LengthCounts ==
  ASSUME NEW C, NEW s \in Seq(C), Distinct(s)
  PROVE  Len(s) = Cardinality(ClassesOf(s))
<1> DEFINE D == 1..Len(s)
<1>1. Len(s) \in Nat /\ DOMAIN s = D /\ s = [i \in D |-> s[i]]
  OBVIOUS
<1>2. s \in [D -> ClassesOf(s)]
  BY <1>1 DEF ClassesOf
<1>3. s \in Injection(D, ClassesOf(s))
  BY <1>1, <1>2 DEF Injection, IsInjective, Distinct
<1>4. s \in Surjection(D, ClassesOf(s))
  BY <1>2 DEF Surjection, ClassesOf
<1>5. ExistsBijection(D, ClassesOf(s))
  BY <1>3, <1>4 DEF ExistsBijection, Bijection
<1>6. IsFiniteSet(D) /\ Cardinality(D) = Len(s)
  <2> DEFINE n == Len(s)
  <2>1. 1 \in Int /\ n \in Int /\ n >= 0
    BY <1>1
  <2> HIDE DEF n
  <2>2. IsFiniteSet(1..n) /\ Cardinality(1..n) = IF 1 > n THEN 0 ELSE n - 1 + 1
    BY <2>1, FS_Interval
  <2>3. Cardinality(1..n) = n
    BY <2>1, <2>2
  <2> QED
    BY <2>2, <2>3 DEF n
<1> HIDE DEF D
<1> QED
  BY <1>5, <1>6, FS_Bijection

-----------------------------------------------------------------------------
(***************************************************************************)
(* The classes that a program has defined.                                 *)
(***************************************************************************)
LEMMA TypesAreHierarchy == ClassesTypeOK => IsHierarchy(supers)
BY DEF ClassesTypeOK, IsHierarchy, Classes

LEMMA DefineClassKeeps ==
  ASSUME ClassesTypeOK, NEW k \in Nat, NEW list \in [1..k -> Classes], DefineClass(list)
  PROVE  ClassesTypeOK'
<1>1. /\ Len(supers) \in Nat /\ Len(methods) = Len(supers)
      /\ supers \in Seq(Seq(Nat)) /\ methods \in Seq(SUBSET Name)
  BY DEF ClassesTypeOK
<1>2. list \in Seq(Nat) /\ ClassesOf(list) \subseteq 1..Len(supers)
  <2>1. /\ DOMAIN list = 1..k /\ list = [i \in 1..k |-> list[i]]
        /\ \A i \in 1..k : list[i] \in 1..Len(supers) /\ list[i] \in Nat
    BY <1>1 DEF Classes
  <2>2. list \in Seq(Nat) /\ Len(list) = k
    BY <2>1
  <2> QED
    BY <2>1, <2>2 DEF ClassesOf
<1>3. supers' = Append(supers, list) /\ methods' = Append(methods, {})
  BY DEF DefineClass
<1>4. /\ supers' \in Seq(Seq(Nat)) /\ Len(supers') = Len(supers) + 1
      /\ supers'[Len(supers) + 1] = list
      /\ \A c \in 1..Len(supers) : supers'[c] = supers[c]
  BY <1>1, <1>2, <1>3
<1>5. methods' \in Seq(SUBSET Name) /\ Len(methods') = Len(supers')
  BY <1>1, <1>3, <1>4
<1>6. ASSUME NEW c \in 1..Len(supers') PROVE ClassesOf(supers'[c]) \subseteq 1..(c - 1)
  <2>1. CASE c \in 1..Len(supers)
    BY <1>4, <2>1 DEF ClassesTypeOK, Classes
  <2>2. CASE c \notin 1..Len(supers)
    BY <1>1, <1>2, <1>4, <2>2
  <2> QED
    BY <2>1, <2>2
<1> QED
  BY <1>4, <1>5, <1>6 DEF ClassesTypeOK, Classes

LEMMA DefineMethodKeeps ==
  ASSUME ClassesTypeOK, NEW c \in Classes, NEW n \in Name, DefineMethod(c, n)
  PROVE  ClassesTypeOK'
<1>1. methods \in Seq(SUBSET Name) /\ c \in 1..Len(methods)
  BY DEF ClassesTypeOK, Classes
<1>2. supers' = supers /\ methods' = [methods EXCEPT ![c] = methods[c] \cup {n}]
  BY DEF DefineMethod
<1>3. methods' \in Seq(SUBSET Name) /\ Len(methods') = Len(methods)
  BY <1>1, <1>2
<1> QED
  BY <1>2, <1>3 DEF ClassesTypeOK, Classes

(***************************************************************************)
(* A class extends older classes only, so that no class is its own         *)
(* ancestor (enact_class_new_with_superclasses).                           *)
(***************************************************************************)
THEOREM ClassesTypes == ClassesSpec => []ClassesTypeOK
<1>1. ClassesInit => ClassesTypeOK
  <2> SUFFICES ASSUME ClassesInit PROVE ClassesTypeOK
    OBVIOUS
  <2>1. supers = <<>> /\ methods = <<>>
    BY DEF ClassesInit
  <2> QED
    BY <2>1 DEF ClassesTypeOK, Classes
<1>2. ClassesTypeOK /\ [ClassesNext]_classVars => ClassesTypeOK'
  <2> SUFFICES ASSUME ClassesTypeOK, [ClassesNext]_classVars PROVE ClassesTypeOK'
    OBVIOUS
  <2>1. ASSUME NEW k \in 0..MaxSupers[Len(supers) + 1], NEW list \in [1..k -> Classes],
               DefineClass(list)
        PROVE  ClassesTypeOK'
    <3>1. k \in Nat
      OBVIOUS
    <3> QED
      BY <2>1, <3>1, DefineClassKeeps
  <2>2. CASE UNCHANGED classVars
    BY <2>2 DEF ClassesTypeOK, Classes, classVars
  <2> QED
    BY <2>1, <2>2, DefineMethodKeeps DEF ClassesNext
<1> QED
  BY <1>1, <1>2, PTL DEF ClassesSpec

(***************************************************************************)
(* Every consistent linearization has a class and its ancestors once each, *)
(* every class before its superclasses and those in the order in which it  *)
(* names them (enact_class_linearization_vector).                          *)
(***************************************************************************)
THEOREM OrdersAreRight == ClassesSpec => []LinearizationOrders
<1>1. ASSUME ClassesTypeOK PROVE LinearizationOrders
  <2> SUFFICES ASSUME NEW c \in Classes, Consistent(c)
               PROVE  LET order == Linearization[c].order
                      IN /\ ClassesOf(order) = Ancestors[c]
                         /\ Len(order) = Cardinality(Ancestors[c])
                         /\ \A d \in Ancestors[c] : \A i \in 1..Len(Direct(supers[d])) :
                              /\ Position(order, d) < Position(order, Direct(supers[d])[i])
                              /\ \A j \in 1..(i - 1) :
                                   Position(order, Direct(supers[d])[j])
                                     < Position(order, Direct(supers[d])[i])
    BY DEF LinearizationOrders
  <2> DEFINE order == Linearization[c].order
  <2>1. Ordered(supers, c, Linearization[c])
    BY <1>1, TypesAreHierarchy, LinearizationOrdered DEF Linearization, Classes
  <2>2. /\ order \in Seq(1..c) /\ Distinct(order)
        /\ ClassesOf(order) = Ancestors[c]
        /\ \A d \in Ancestors[c] : \A i \in 1..Len(Direct(supers[d])) :
             /\ Precedes(order, d, Direct(supers[d])[i])
             /\ \A j \in 1..(i - 1) : Precedes(order, Direct(supers[d])[j], Direct(supers[d])[i])
    BY <2>1 DEF Ordered, Consistent, Ancestors
  <2> HIDE DEF order
  <2>3. Len(order) = Cardinality(Ancestors[c])
    BY <2>2, LengthCounts
  <2>4. \A x, y : Precedes(order, x, y) => Position(order, x) < Position(order, y)
    BY <2>2, PrecedesPosition
  <2> QED
    BY <2>2, <2>3, <2>4 DEF order
<1> QED
  BY <1>1, ClassesTypes, PTL

(***************************************************************************)
(* A class has its ancestors in the order in which each of them has its    *)
(* own, and none above a class with a linearization is without one.        *)
(***************************************************************************)
THEOREM OrdersAreKept == ClassesSpec => []LinearizationMonotone
<1>1. ASSUME ClassesTypeOK PROVE LinearizationMonotone
  <2> SUFFICES ASSUME NEW c \in Classes, Consistent(c), NEW s \in Ancestors[c]
               PROVE  LET below == Linearization[c].order
                          own   == Linearization[s].order
                      IN /\ Consistent(s)
                         /\ \A x, y \in Ancestors[s] :
                              Position(own, x) < Position(own, y) =>
                                Position(below, x) < Position(below, y)
    BY DEF LinearizationMonotone
  <2> DEFINE below == Linearization[c].order
             own   == Linearization[s].order
  <2>1. /\ Consistent(s)
        /\ \A x, y : Precedes(own, x, y) => Precedes(below, x, y)
    BY <1>1, TypesAreHierarchy, OrderInherited DEF Linearization, Ancestors, Classes, Consistent
  <2>2. s \in Classes
    <3>1. Ancestors[c] \subseteq 1..c
      BY <1>1, TypesAreHierarchy, AncestorsDefined DEF Ancestors, Classes
    <3>2. Len(supers) \in Nat
      BY <1>1 DEF ClassesTypeOK
    <3> QED
      BY <3>1, <3>2 DEF Classes
  <2>3. Ordered(supers, s, Linearization[s]) /\ Ordered(supers, c, Linearization[c])
    BY <1>1, <2>2, TypesAreHierarchy, LinearizationOrdered DEF Linearization, Classes
  <2>4. Distinct(own) /\ Distinct(below) /\ ClassesOf(own) = Ancestors[s]
    BY <2>1, <2>3 DEF Ordered, Consistent, Ancestors
  <2> HIDE DEF own, below
  <2>5. ASSUME NEW x \in Ancestors[s], NEW y \in Ancestors[s],
               Position(own, x) < Position(own, y)
        PROVE  Position(below, x) < Position(below, y)
    <3>1. PICK i, j \in 1..Len(own) : own[i] = x /\ own[j] = y
      BY <2>4 DEF ClassesOf
    <3>2. i < j
      BY <2>4, <2>5, <3>1, PositionIsIndex
    <3>3. Precedes(own, x, y)
      BY <3>1, <3>2 DEF Precedes
    <3> QED
      BY <2>1, <2>4, <3>3, PrecedesPosition
  <2> QED
    BY <2>1, <2>5 DEF own, below
<1> QED
  BY <1>1, ClassesTypes, PTL

-----------------------------------------------------------------------------
(***************************************************************************)
(* Method lookup.                                                          *)
(***************************************************************************)

\* What SupplierIn returns: the first class from start on that has n, or None.
LEMMA SupplierFound ==
  ASSUME NEW C, NEW s \in Seq(C), NEW t, NEW n, NEW start \in Nat
  PROVE  \/ /\ SupplierIn(t, s, start, n) = None
            /\ \A i \in start..Len(s) : n \notin t[s[i]]
         \/ \E i \in start..Len(s) :
              /\ SupplierIn(t, s, start, n) = s[i] /\ n \in t[s[i]]
              /\ \A j \in start..(i - 1) : n \notin t[s[j]]
<1> DEFINE found == {i \in start..Len(s) : n \in t[s[i]]}
           first == CHOOSE i \in found : \A j \in found : i <= j
<1>1. SupplierIn(t, s, start, n) = IF found = {} THEN None ELSE s[first]
  BY DEF SupplierIn
<1>2. Len(s) \in Nat /\ found \in SUBSET Nat
  OBVIOUS
<1> HIDE DEF found
<1>3. CASE found = {}
  BY <1>1, <1>3 DEF found
<1>4. CASE found # {}
  <2>1. \E i \in found : \A j \in found : i <= j
    BY <1>2, <1>4, LeastElement
  <2>2. first \in found /\ \A j \in found : first <= j
    BY <2>1, Zenon
  <2> HIDE DEF first
  <2>3. first \in start..Len(s) /\ n \in t[s[first]]
    BY <2>2 DEF found
  <2>4. ASSUME NEW j \in start..(first - 1) PROVE n \notin t[s[j]]
    <3>1. j \in start..Len(s) /\ ~(first <= j)
      BY <1>2, <2>3
    <3> QED
      BY <2>2, <3>1 DEF found
  <2> QED
    BY <1>1, <1>4, <2>3, <2>4
<1> QED
  BY <1>3, <1>4

LEMMA OrdersOfClasses ==
  ASSUME ClassesTypeOK, NEW c \in Classes
  PROVE  /\ Linearization[c].order \in Seq(Classes)
         /\ ClassesOf(Linearization[c].order) \subseteq Ancestors[c]
<1>1. Ordered(supers, c, Linearization[c]) /\ Len(supers) \in Nat
  BY TypesAreHierarchy, LinearizationOrdered DEF Linearization, Classes, ClassesTypeOK
<1>2. Linearization[c].order \in Seq(1..c)
  BY <1>1 DEF Ordered
<1>3. 1..c \subseteq Classes
  BY <1>1 DEF Classes
<1>4. Linearization[c].order \in Seq(Classes)
  BY <1>2, <1>3, SeqGrows
<1>5. ClassesOf(Linearization[c].order) \subseteq Ancestors[c]
  <2>1. CASE Linearization[c].consistent
    BY <1>1, <2>1 DEF Ordered, Ancestors
  <2>2. CASE ~Linearization[c].consistent
    <3>1. Linearization[c].order = <<>>
      BY <1>1, <2>2 DEF Ordered
    <3>2. ClassesOf(<<>>) = {}
      BY DEF ClassesOf
    <3> QED
      BY <3>1, <3>2
  <2> QED
    BY <2>1, <2>2
<1> QED
  BY <1>4, <1>5

(***************************************************************************)
(* A method definition changes the dispatch of a class only to the class   *)
(* that gains the method, from which it inherits; nothing else changes any *)
(* (enact_class_define_method, enact_class_lookup_method_with_supplier).   *)
(***************************************************************************)
THEOREM DispatchIsLocal == ClassesSpec => DispatchLocal
<1>1. ASSUME ClassesTypeOK, [ClassesNext]_classVars, NEW c \in Classes, NEW n \in Name
      PROVE  LET order  == Linearization[c].order
                 before == SupplierIn(methods, order, 1, n)
                 after  == SupplierIn(methods', order, 1, n)
             IN /\ supers'[c] = supers[c]
                /\ before # after => after \in Ancestors[c] /\ n \notin methods[after]
  <2> DEFINE order  == Linearization[c].order
             before == SupplierIn(methods, order, 1, n)
             after  == SupplierIn(methods', order, 1, n)
  <2>1. order \in Seq(Classes) /\ ClassesOf(order) \subseteq Ancestors[c]
    BY <1>1, OrdersOfClasses
  <2>2. supers'[c] = supers[c] /\ \A d \in Classes : methods[d] \subseteq methods'[d]
    <3>1. /\ Len(supers) \in Nat /\ Len(methods) = Len(supers)
          /\ supers \in Seq(Seq(Nat)) /\ methods \in Seq(SUBSET Name)
      BY <1>1 DEF ClassesTypeOK
    <3>2. ASSUME NEW k, NEW list, DefineClass(list)
          PROVE  supers'[c] = supers[c] /\ \A d \in Classes : methods[d] \subseteq methods'[d]
      BY <3>1, <3>2 DEF DefineClass, Classes
    <3>3. ASSUME NEW d \in Classes, NEW m \in Name, DefineMethod(d, m)
          PROVE  supers'[c] = supers[c] /\ \A e \in Classes : methods[e] \subseteq methods'[e]
      BY <3>1, <3>3 DEF DefineMethod, Classes
    <3> QED
      BY <1>1, <3>2, <3>3 DEF ClassesNext, classVars
  <2> HIDE DEF order
  <2>3. \A i \in 1..Len(order) : order[i] \in Classes /\ order[i] \in ClassesOf(order)
    BY <2>1 DEF ClassesOf
  <2>4. \/ before = None /\ \A i \in 1..Len(order) : n \notin methods[order[i]]
        \/ \E i \in 1..Len(order) : /\ before = order[i] /\ n \in methods[order[i]]
                                    /\ \A j \in 1..(i - 1) : n \notin methods[order[j]]
    BY <2>1, SupplierFound
  <2>5. \/ after = None /\ \A i \in 1..Len(order) : n \notin methods'[order[i]]
        \/ \E i \in 1..Len(order) : /\ after = order[i] /\ n \in methods'[order[i]]
                                    /\ \A j \in 1..(i - 1) : n \notin methods'[order[j]]
    BY <2>1, SupplierFound
  <2> HIDE DEF before, after
  <2>6. ASSUME before # after PROVE after \in Ancestors[c] /\ n \notin methods[after]
    <3>1. PICK i \in 1..Len(order) :
            /\ after = order[i] /\ n \in methods'[order[i]]
            /\ \A j \in 1..(i - 1) : n \notin methods'[order[j]]
      BY <2>2, <2>3, <2>4, <2>5, <2>6
    <3>2. ASSUME n \in methods[after] PROVE FALSE
      <4>1. PICK k \in 1..Len(order) :
              /\ before = order[k] /\ n \in methods[order[k]]
              /\ \A j \in 1..(k - 1) : n \notin methods[order[j]]
        BY <2>4, <3>1, <3>2
      <4>2. n \in methods'[order[k]] /\ n \in methods[order[i]]
        BY <2>2, <2>3, <3>1, <3>2, <4>1
      <4>3. ~(k < i) /\ ~(i < k)
        BY <3>1, <4>1, <4>2
      <4> QED
        BY <2>6, <3>1, <4>1, <4>3
    <3> QED
      BY <2>1, <2>3, <3>1, <3>2
  <2> QED
    BY <2>2, <2>6 DEF order, before, after
<1> QED
  <2>1. ASSUME ClassesTypeOK, [ClassesNext]_classVars PROVE DispatchChanges
    BY <1>1, <2>1 DEF DispatchChanges
  <2> QED
    BY <2>1, ClassesTypes, PTL DEF ClassesSpec, DispatchLocal

-----------------------------------------------------------------------------
(***************************************************************************)
(* Dispatch and introspection.                                             *)
(***************************************************************************)
LEMMA SuppliersDefined ==
  ASSUME ClassesTypeOK
  PROVE  \A c \in Classes :
           Suppliers[c] =
             [n \in Name |-> IF n \in methods[c] THEN {c}
                             ELSE UNION {Suppliers[s][n] : s \in ClassesOf(supers[c])}]
<1> DEFINE N == Len(supers)
           Above(f, d) == [n \in Name |-> IF n \in methods[d] THEN {d}
                                          ELSE UNION {f[s][n] : s \in ClassesOf(supers[d])}]
           P(f) == f = [d \in 1..N |->
                          [n \in Name |-> IF n \in methods[d] THEN {d}
                                          ELSE UNION {f[s][n] : s \in ClassesOf(supers[d])}]]
           sup == CHOOSE f : P(f)
           S == [d \in 1..N |-> [Name -> SUBSET (1..d)]]
           step == [d \in 1..N |-> [g \in Allowed(S, d) |-> Above(g, d)]]
<1>1. N \in Nat
  BY DEF ClassesTypeOK
<1>2. Suppliers = sup
  BY DEF Suppliers, Classes
<1>3. \A d \in 1..N : \A s \in ClassesOf(supers[d]) : s \in 1..(d - 1)
  BY DEF ClassesTypeOK, Classes
<1> HIDE DEF N
<1>4. ASSUME NEW d \in 1..N, NEW f, \A i \in 1..(d - 1) : f[i] \in S[i] PROVE Above(f, d) \in S[d]
  <2>1. \A i \in 1..(d - 1) : i \in 1..N /\ S[i] = [Name -> SUBSET (1..i)] /\ 1..i \subseteq 1..d
    BY <1>1
  <2>2. \A i \in 1..(d - 1) : \A n \in Name : f[i][n] \subseteq 1..d
    <3> HIDE DEF S
    <3>1. \A i \in 1..(d - 1) : f[i] \in [Name -> SUBSET (1..i)]
      BY <1>4, <2>1
    <3>2. \A i \in 1..(d - 1) : \A n \in Name : f[i][n] \in SUBSET (1..i)
      BY <3>1
    <3> QED
      BY <2>1, <3>2
  <2>3. \A n \in Name : UNION {f[s][n] : s \in ClassesOf(supers[d])} \subseteq 1..d
    BY <1>3, <2>2
  <2>4. {d} \subseteq 1..d
    BY <1>1
  <2> QED
    BY <2>3, <2>4
<1>5. IsStep(S, N, step)
  <2>1. \A d \in 1..N : \A g \in Allowed(S, d) : step[d][g] = Above(g, d)
    OBVIOUS
  <2>2. \A d \in 1..N : \A g \in Allowed(S, d) : \A i \in 1..(d - 1) : g[i] \in S[i]
    BY DEF Allowed
  <2> HIDE DEF step, S, Above
  <2> QED
    BY <1>4, <2>1, <2>2 DEF IsStep
<1>6. \E f : P(f)
  <2>1. PICK f : Solves(f, N, step)
    BY <1>1, SolutionExists
  <2>2. \A d \in 1..N : Before(f, d) \in Allowed(S, d)
    BY <1>1, <1>5, <2>1, SolutionAllowed
  <2>3. ASSUME NEW d \in 1..N PROVE Above(Before(f, d), d) = Above(f, d)
    <3>1. \A s \in ClassesOf(supers[d]) : Before(f, d)[s] = f[s]
      BY <1>3 DEF Before
    <3> QED
      BY <3>1
  <2>4. \A d \in 1..N : f[d] = Above(f, d)
    <3>1. \A d \in 1..N : f[d] = step[d][Before(f, d)]
      BY <2>1 DEF Solves
    <3>2. \A d \in 1..N : step[d][Before(f, d)] = Above(Before(f, d), d)
      BY <2>2
    <3> HIDE DEF step, Above
    <3> QED
      BY <2>3, <3>1, <3>2
  <2>5. f = [d \in 1..N |-> f[d]]
    BY <2>1, Zenon DEF Solves
  <2>6. P(f)
    BY <2>4, <2>5
  <2> QED
    BY <2>6
<1>7. P(sup)
  <2> HIDE DEF P
  <2> QED
    BY <1>6, Zenon
<1> HIDE DEF sup
<1>8. \A d \in 1..N : sup[d] = Above(sup, d)
  BY <1>7
<1>9. Classes = 1..N
  BY DEF N, Classes
<1>10. \A c \in 1..N : Suppliers[c] = Above(Suppliers, c)
  <2> HIDE DEF Above
  <2> QED
    BY <1>2, <1>8
<1> QED
  <2> TAKE c \in Classes
  <2>1. Suppliers[c] = Above(Suppliers, c)
    <3> HIDE DEF Above
    <3> QED
      BY <1>9, <1>10
  <2> QED
    BY <2>1

\* The suppliers of a name are ancestors that have it, and there is one if
\* any ancestor has it.
LEMMA SuppliersAbove ==
  ASSUME ClassesTypeOK, NEW n \in Name
  PROVE  \A c \in Classes :
           /\ Suppliers[c][n] \subseteq {d \in Ancestors[c] : n \in methods[d]}
           /\ (\E d \in Ancestors[c] : n \in methods[d]) => Suppliers[c][n] # {}
<1> DEFINE N == Len(supers)
           Good(c) == /\ Suppliers[c][n] \subseteq {d \in Ancestors[c] : n \in methods[d]}
                      /\ (\E d \in Ancestors[c] : n \in methods[d]) => Suppliers[c][n] # {}
           T == {c \in 1..N : Good(c)}
<1>1. N \in Nat
  BY DEF ClassesTypeOK
<1>0. \A c \in 1..N : \A s \in ClassesOf(supers[c]) : s \in 1..(c - 1)
  BY DEF ClassesTypeOK, Classes
<1>2. ASSUME NEW c \in 1..N, \A i \in 1..(c - 1) : i \in T PROVE Good(c)
  <2> DEFINE direct == ClassesOf(supers[c])
  <2>1. Ancestors[c] = {c} \cup UNION {Ancestors[s] : s \in direct}
    BY TypesAreHierarchy, AncestorsDefined DEF Ancestors
  <2>2. Suppliers[c][n] = IF n \in methods[c] THEN {c}
                          ELSE UNION {Suppliers[s][n] : s \in direct}
    BY SuppliersDefined DEF Classes
  <2>3. \A s \in direct : Good(s)
    BY <1>0, <1>2
  <2> HIDE DEF direct
  <2> QED
    BY <2>1, <2>2, <2>3
<1> HIDE DEF Good
<1>3. ASSUME NEW c \in 1..N, \A i \in 1..(c - 1) : i \in T PROVE c \in T
  BY <1>2, <1>3
<1> HIDE DEF T
<1>4. \A c \in 1..N : c \in T
  BY <1>1, <1>3, StrongInduction
<1> QED
  BY <1>4 DEF T, Good, Classes

LEMMA OrderOfConsistent ==
  ASSUME ClassesTypeOK, NEW c \in Classes, Consistent(c)
  PROVE  LET order == Linearization[c].order
         IN /\ order \in Seq(Classes) /\ Len(order) \in Nat /\ order # <<>>
            /\ Distinct(order) /\ order[1] = c /\ 1 \in 1..Len(order)
            /\ ClassesOf(order) = Ancestors[c]
            /\ \A i \in 1..Len(order) : order[i] \in Ancestors[c] /\ order[i] \in Classes
            /\ \A d \in Ancestors[c] : \E i \in 1..Len(order) : order[i] = d
<1> DEFINE order == Linearization[c].order
<1>1. Ordered(supers, c, Linearization[c])
  BY TypesAreHierarchy, LinearizationOrdered DEF Linearization, Classes
<1>2. /\ order \in Seq(1..c) /\ Distinct(order) /\ order # <<>> /\ order[1] = c
      /\ ClassesOf(order) = Ancestors[c]
  BY <1>1 DEF Ordered, Consistent, Ancestors
<1>3. order \in Seq(Classes)
  BY OrdersOfClasses
<1> HIDE DEF order
<1>4. Len(order) \in Nat /\ 1 \in 1..Len(order)
  BY <1>2
<1>5. /\ \A i \in 1..Len(order) : order[i] \in Ancestors[c] /\ order[i] \in Classes
      /\ \A d \in Ancestors[c] : \E i \in 1..Len(order) : order[i] = d
  BY <1>2, <1>3 DEF ClassesOf
<1> QED
  BY <1>2, <1>3, <1>4, <1>5 DEF order

LEMMA DispatchIsSupplied ==
  ASSUME ClassesTypeOK, NEW n \in Name
  PROVE  \A c \in Classes : Consistent(c) =>
           /\ LookupMethod(c, n).supplier = None <=> \A d \in Ancestors[c] : n \notin methods[d]
           /\ LookupMethod(c, n).supplier # None =>
                LookupMethod(c, n).supplier \in Suppliers[c][n]
<1> DEFINE N == Len(supers)
           First(c) == LookupMethod(c, n).supplier
           Good(c) == Consistent(c) => (First(c) # None => First(c) \in Suppliers[c][n])
           T == {c \in 1..N : Good(c)}
<1>1. N \in Nat /\ Classes = 1..N
  BY DEF ClassesTypeOK, Classes
<1>0. \A c \in Classes : ClassesOf(supers[c]) \subseteq 1..(c - 1)
  BY DEF ClassesTypeOK
<1>2. ASSUME NEW c \in Classes, Consistent(c)
      PROVE  LET order == Linearization[c].order
             IN \/ First(c) = None /\ \A d \in Ancestors[c] : n \notin methods[d]
                \/ \E i \in 1..Len(order) :
                     /\ First(c) = order[i] /\ n \in methods[order[i]]
                     /\ \A j \in 1..(i - 1) : n \notin methods[order[j]]
  <2> DEFINE order == Linearization[c].order
  <2>1. /\ order \in Seq(Classes)
        /\ \A d \in Ancestors[c] : \E i \in 1..Len(order) : order[i] = d
    BY <1>2, OrderOfConsistent
  <2>2. First(c) = SupplierIn(methods, order, 1, n)
    BY DEF LookupMethod, FirstSupplier
  <2> HIDE DEF order
  <2>3. \/ First(c) = None /\ \A i \in 1..Len(order) : n \notin methods[order[i]]
        \/ \E i \in 1..Len(order) :
             /\ First(c) = order[i] /\ n \in methods[order[i]]
             /\ \A j \in 1..(i - 1) : n \notin methods[order[j]]
    <3> HIDE DEF First
    <3> QED
      BY <2>1, <2>2, SupplierFound
  <2> HIDE DEF First
  <2> QED
    BY <2>1, <2>3 DEF order
<1>3. ASSUME NEW c \in Classes, Consistent(c)
      PROVE  First(c) = None <=> \A d \in Ancestors[c] : n \notin methods[d]
  <2> DEFINE order == Linearization[c].order
  <2>0. \A i \in 1..Len(order) : order[i] \in Ancestors[c] /\ order[i] \in Classes
    BY <1>3, OrderOfConsistent
  <2>1. \A i \in 1..Len(order) : order[i] \in Ancestors[c] /\ order[i] # None
    <3> HIDE DEF order
    <3>1. \A d \in Classes : d # None
      BY <1>1 DEF None
    <3> QED
      BY <2>0, <3>1
  <2> HIDE DEF First
  <2> QED
    BY <1>2, <1>3, <2>1
<1> HIDE DEF First
<1>4. ASSUME NEW c \in 1..N, \A i \in 1..(c - 1) : i \in T, Consistent(c), First(c) # None
      PROVE  First(c) \in Suppliers[c][n]
  <2> DEFINE order == Linearization[c].order
  <2>1. /\ c \in Classes /\ Distinct(order) /\ order[1] = c /\ 1 \in 1..Len(order)
        /\ \A i \in 1..Len(order) : order[i] \in Ancestors[c]
    BY <1>1, <1>4, OrderOfConsistent
  <2>2. PICK i \in 1..Len(order) : /\ First(c) = order[i] /\ n \in methods[order[i]]
                                   /\ \A j \in 1..(i - 1) : n \notin methods[order[j]]
    BY <1>2, <1>4, <2>1
  <2>3. Suppliers[c][n] = IF n \in methods[c] THEN {c}
                          ELSE UNION {Suppliers[s][n] : s \in ClassesOf(supers[c])}
    BY <2>1, SuppliersDefined
  <2>4. CASE n \in methods[c]
    <3>1. ~(1 \in 1..(i - 1))
      BY <2>1, <2>2, <2>4
    <3>2. i = 1
      BY <3>1
    <3> QED
      BY <2>1, <2>2, <2>3, <2>4, <3>2
  <2>5. CASE n \notin methods[c]
    <3>1. First(c) \in Ancestors[c] /\ First(c) # c /\ n \in methods[First(c)]
      BY <2>1, <2>2, <2>5
    <3>2. Ancestors[c] = {c} \cup UNION {Ancestors[s] : s \in ClassesOf(supers[c])}
      BY <1>1, TypesAreHierarchy, AncestorsDefined DEF Ancestors
    <3>3. PICK d \in ClassesOf(supers[c]) : First(c) \in Ancestors[d]
      BY <3>1, <3>2
    <3>4. d \in 1..(c - 1) /\ d \in Classes
      <4>1. d \in 1..(c - 1)
        BY <1>0, <2>1
      <4> HIDE DEF N
      <4> QED
        BY <1>1, <4>1
    <3>5. d \in Ancestors[c]
      <4>1. d \in Ancestors[d]
        BY <3>4, TypesAreHierarchy, AncestorsDefined DEF Ancestors, Classes
      <4> QED
        BY <3>2, <4>1
    <3> DEFINE own == Linearization[d].order
    <3>6. /\ Consistent(d)
          /\ \A x, y : Precedes(own, x, y) => Precedes(order, x, y)
      BY <1>4, <3>5, TypesAreHierarchy, OrderInherited DEF Linearization, Ancestors, Consistent
    <3>7. \A e \in Ancestors[d] : \E k \in 1..Len(own) : own[k] = e
      BY <3>4, <3>6, OrderOfConsistent
    <3>8. PICK k \in 1..Len(own) : /\ First(d) = own[k] /\ n \in methods[own[k]]
                                   /\ \A j \in 1..(k - 1) : n \notin methods[own[j]]
      BY <1>2, <3>1, <3>3, <3>4, <3>6
    <3>9. PICK m \in 1..Len(own) : own[m] = First(c)
      BY <3>3, <3>7
    <3>10. First(d) = First(c)
      <4> HIDE DEF own, order
      <4>1. CASE m < k
        <5>1. m \in 1..(k - 1)
          BY <4>1
        <5> QED
          BY <3>1, <3>8, <3>9, <5>1
      <4>2. CASE k < m
        <5>1. Precedes(own, First(d), First(c))
          BY <3>8, <3>9, <4>2 DEF Precedes
        <5>2. PICK a, b \in 1..Len(order) : a < b /\ order[a] = First(d) /\ order[b] = First(c)
          BY <3>6, <5>1 DEF Precedes
        <5>3. b = i
          BY <2>1, <2>2, <5>2 DEF Distinct
        <5>4. a \in 1..(i - 1)
          BY <5>2, <5>3
        <5> QED
          BY <2>2, <3>8, <5>2, <5>4
      <4> QED
        BY <3>8, <3>9, <4>1, <4>2
    <3>11. First(d) \in Suppliers[d][n]
      <4>1. Good(d)
        BY <1>4, <3>4
      <4> QED
        BY <1>4, <3>6, <3>10, <4>1
    <3> QED
      BY <2>3, <2>5, <3>10, <3>11
  <2> QED
    BY <2>4, <2>5
<1>5. ASSUME NEW c \in 1..N, \A i \in 1..(c - 1) : i \in T PROVE c \in T
  <2> HIDE DEF Consistent
  <2> QED
    BY <1>4, <1>5
<1> HIDE DEF T, N
<1>6. \A c \in 1..N : c \in T
  BY <1>1, <1>5, StrongInduction
<1>7. \A c \in Classes : Good(c)
  BY <1>1, <1>6 DEF T
<1> QED
  BY <1>3, <1>7 DEF First

(***************************************************************************)
(* The class whose method a call finds is among those that suppliers()     *)
(* names, there is one whenever suppliers() names any, and outside         *)
(* badattrs() it is the only one: the walk of the linearization and the    *)
(* masking walks of the superclass lists agree.                            *)
(***************************************************************************)
THEOREM DispatchAndSuppliersAgree == ClassesSpec => []DispatchAgrees
<1>1. ASSUME ClassesTypeOK, NEW c \in Classes, NEW n \in Name, LookupMethod(c, n).consistent
      PROVE  LET found == LookupMethod(c, n)
             IN /\ found.supplier = None <=> Suppliers[c][n] = {}
                /\ found.supplier = None <=> n \notin EffectiveMethods(c)
                /\ found.supplier # None => found.supplier \in Suppliers[c][n]
                /\ found.supplier # None /\ n \notin BadAttributes(c) =>
                     Suppliers[c][n] = {found.supplier}
  <2> DEFINE s == LookupMethod(c, n).supplier
             all == Suppliers[c][n]
  <2>1. Consistent(c)
    BY <1>1 DEF LookupMethod, Consistent
  <2>2. /\ s = None <=> \A d \in Ancestors[c] : n \notin methods[d]
        /\ s # None => s \in all
    BY <1>1, <2>1, DispatchIsSupplied
  <2>3. /\ all \subseteq {d \in Ancestors[c] : n \in methods[d]}
        /\ (\E d \in Ancestors[c] : n \in methods[d]) => all # {}
    BY <1>1, SuppliersAbove
  <2>4. ClassesOf(Linearization[c].order) = Ancestors[c]
    BY <1>1, <2>1, OrderOfConsistent
  <2>5. n \in EffectiveMethods(c) <=> \E d \in Ancestors[c] : n \in methods[d]
    BY <2>4 DEF EffectiveMethods
  <2>6. ASSUME s # None, n \notin BadAttributes(c) PROVE all = {s}
    <3> DEFINE above == UNION {Suppliers[d][n] : d \in ClassesOf(supers[c])}
    <3>1. all = IF n \in methods[c] THEN {c} ELSE above
      BY <1>1, SuppliersDefined
    <3>2. CASE n \in methods[c]
      BY <2>2, <2>6, <3>1, <3>2
    <3>3. CASE n \notin methods[c]
      <4>1. ~(Cardinality(above) > 1)
        BY <2>6, <3>3 DEF BadAttributes
      <4>2. above \subseteq 1..c
        <5>1. Ancestors[c] \subseteq 1..c
          BY <1>1, TypesAreHierarchy, AncestorsDefined DEF Ancestors, Classes
        <5> QED
          BY <2>3, <3>1, <3>3, <5>1
      <4>3. c \in Nat
        BY <1>1 DEF Classes
      <4> HIDE DEF above
      <4>4. IsFiniteSet(1..c)
        BY <4>3, FS_Interval
      <4>5. IsFiniteSet(above) /\ Cardinality(above) \in Nat
        BY <4>2, <4>4, FS_Subset, FS_CardinalityType
      <4>6. s \in above
        BY <2>2, <2>6, <3>1, <3>3
      <4>7. ASSUME NEW x \in above PROVE x = s
        <5> SUFFICES ASSUME x # s PROVE FALSE
          OBVIOUS
        <5>1. IsFiniteSet({s, x}) /\ Cardinality({s, x}) = 2
          <6>1. IsFiniteSet({s}) /\ Cardinality({s}) = 1
            BY FS_Singleton
          <6>2. {s, x} = {s} \cup {x}
            OBVIOUS
          <6>3. x \notin {s}
            OBVIOUS
          <6> DEFINE S == {s}
          <6> HIDE DEF S
          <6>4. IsFiniteSet(S \cup {x}) /\ Cardinality(S \cup {x}) = 1 + 1
            BY <6>1, <6>3, FS_AddElement DEF S
          <6> QED
            BY <6>2, <6>4 DEF S
        <5>2. {s, x} \subseteq above
          BY <4>6
        <5>3. Cardinality({s, x}) <= Cardinality(above)
          BY <4>5, <5>2, FS_Subset
        <5> QED
          BY <4>1, <4>5, <5>1, <5>3
      <4> QED
        BY <3>1, <3>3, <4>6, <4>7
    <3> QED
      BY <3>2, <3>3
  <2> HIDE DEF s, all
  <2> QED
    BY <2>2, <2>3, <2>5, <2>6 DEF s, all
<1>2. ClassesTypeOK => DispatchAgrees
  BY <1>1 DEF DispatchAgrees
<1> QED
  BY <1>2, ClassesTypes, PTL

-----------------------------------------------------------------------------
(***************************************************************************)
(* The chain of super calls.                                               *)
(***************************************************************************)

\* What k calls of super have visited: classes that have the method, in order
\* and without a gap, and None behind the last of them.
Visited(order, n, k, v) ==
  /\ v \in Seq(Nat) /\ Len(v) >= 1
  /\ v[Len(v)] # None => Len(v) = k + 1
  /\ \A i \in 1..(Len(v) - 1) : v[i] # None
  /\ \A i \in 1..Len(v) : v[i] # None =>
       \E p \in 1..Len(order) : v[i] = order[p] /\ n \in methods[order[p]] /\ i <= p
  /\ \A i, j \in 1..Len(v) : i < j /\ v[j] # None =>
       Position(order, v[i]) < Position(order, v[j])
  /\ \A q \in 1..Len(order) :
       n \in methods[order[q]] /\ (v[Len(v)] = None \/ q <= Position(order, v[Len(v)])) =>
         \E i \in 1..Len(v) : v[i] = order[q]

\* The supplier that a lookup finds from a position on.
LEMMA NextSupplier ==
  ASSUME NEW order \in Seq(Nat \ {None}), Distinct(order), NEW n, NEW first \in Nat \ {0}, NEW x,
         x = FirstSupplier(order, first, n)
  PROVE  /\ x \in Nat
         /\ x = None => \A q \in first..Len(order) : n \notin methods[order[q]]
         /\ x # None =>
              /\ Position(order, x) \in first..Len(order)
              /\ x = order[Position(order, x)] /\ n \in methods[x]
              /\ \A q \in first..(Position(order, x) - 1) : n \notin methods[order[q]]
<1>1. \A i \in 1..Len(order) : order[i] \in Nat /\ order[i] # None /\ Position(order, order[i]) = i
  BY PositionIsIndex
<1>2. \/ x = None /\ \A i \in first..Len(order) : n \notin methods[order[i]]
      \/ \E i \in first..Len(order) :
           /\ x = order[i] /\ n \in methods[order[i]]
           /\ \A j \in first..(i - 1) : n \notin methods[order[j]]
  BY SupplierFound DEF FirstSupplier
<1>3. CASE x = None /\ \A i \in first..Len(order) : n \notin methods[order[i]]
  BY <1>3 DEF None
<1>4. ASSUME NEW i \in first..Len(order), x = order[i], n \in methods[order[i]],
             \A j \in first..(i - 1) : n \notin methods[order[j]]
      PROVE  /\ x \in Nat /\ x # None /\ Position(order, x) = i
             /\ n \in methods[x] /\ x = order[i]
  <2>1. i \in 1..Len(order)
    OBVIOUS
  <2> QED
    BY <1>1, <1>4, <2>1
<1> QED
  BY <1>2, <1>3, <1>4

LEMMA FirstVisit ==
  ASSUME NEW order \in Seq(Nat \ {None}), Distinct(order), NEW n, NEW x,
         x = FirstSupplier(order, 1, n)
  PROVE  Visited(order, n, 0, <<x>>)
<1> DEFINE v == <<x>>
<1>1. /\ x \in Nat
      /\ x = None => \A q \in 1..Len(order) : n \notin methods[order[q]]
      /\ x # None =>
           /\ Position(order, x) \in 1..Len(order)
           /\ x = order[Position(order, x)] /\ n \in methods[x]
           /\ \A q \in 1..(Position(order, x) - 1) : n \notin methods[order[q]]
  <2>1. 1 \in Nat \ {0}
    OBVIOUS
  <2> QED
    BY <2>1, NextSupplier
<1>2. v \in Seq(Nat) /\ Len(v) = 1 /\ v[1] = x
  BY <1>1
<1> HIDE DEF v
<1>3. \A i \in 1..Len(v) : i = 1 /\ v[i] = x
  BY <1>2
<1>4. ASSUME NEW q \in 1..Len(order), n \in methods[order[q]],
             x = None \/ q <= Position(order, x)
      PROVE  x = order[q]
  <2>1. x # None /\ ~(q \in 1..(Position(order, x) - 1))
    BY <1>1, <1>4
  <2>2. q = Position(order, x)
    BY <1>1, <1>4, <2>1
  <2> QED
    BY <1>1, <2>1, <2>2
<1>5. \A i \in 1..Len(v) : v[i] # None =>
        \E p \in 1..Len(order) : v[i] = order[p] /\ n \in methods[order[p]] /\ i <= p
  BY <1>1, <1>3
<1>6. \A i, j \in 1..Len(v) : ~(i < j)
  BY <1>2
<1> QED
  BY <1>2, <1>4, <1>5, <1>6 DEF Visited, v

LEMMA NextVisit ==
  ASSUME NEW order \in Seq(Nat \ {None}), Distinct(order), NEW n, NEW k \in Nat, NEW v,
         Visited(order, n, k, v), NEW w,
         w = IF v[Len(v)] = None THEN v
             ELSE Append(v, FirstSupplier(order, After(order, v[Len(v)]), n))
  PROVE  Visited(order, n, k + 1, w)
<1> DEFINE L == Len(v)
           last == v[L]
<1>1. v \in Seq(Nat) /\ L \in Nat /\ L >= 1 /\ L \in 1..L
  BY DEF Visited
<1>2. CASE last = None
  <2>1. w = v
    BY <1>2
  <2> QED
    BY <1>2, <2>1 DEF Visited
<1>3. CASE last # None
  <2> DEFINE x == FirstSupplier(order, After(order, last), n)
             Pos(y) == Position(order, y)
             p == Pos(last)
  <2>1. L = k + 1 /\ \A i \in 1..L : v[i] # None
    <3>1. L = k + 1 /\ \A i \in 1..(L - 1) : v[i] # None
      BY <1>3 DEF Visited
    <3>2. \A i \in 1..L : i \in 1..(L - 1) \/ i = L
      BY <1>1
    <3> QED
      BY <1>3, <3>1, <3>2
  <2>2. \A i \in 1..L : /\ Pos(v[i]) \in 1..Len(order) /\ v[i] = order[Pos(v[i])]
                        /\ n \in methods[v[i]] /\ i <= Pos(v[i])
    <3>1. \A i \in 1..L : \E q \in 1..Len(order) :
            v[i] = order[q] /\ n \in methods[order[q]] /\ i <= q
      BY <2>1 DEF Visited
    <3>2. \A q \in 1..Len(order) : Pos(order[q]) = q
      BY PositionIsIndex
    <3> HIDE DEF Pos
    <3> QED
      BY <3>1, <3>2
  <2>3. \A i, j \in 1..L : i < j => Pos(v[i]) < Pos(v[j])
    BY <2>1 DEF Visited
  <2>4. \A q \in 1..Len(order) : n \in methods[order[q]] /\ q <= p => \E i \in 1..L : v[i] = order[q]
    BY DEF Visited
  <2>5. p \in Nat /\ p \in 1..Len(order) /\ last = order[p] /\ L <= p
    BY <1>1, <2>2
  <2>6. After(order, last) = p + 1
    <3>1. last \in ClassesOf(order)
      BY <2>5 DEF ClassesOf
    <3> QED
      BY <3>1 DEF After, Position
  <2>7. /\ x \in Nat
        /\ x = None => \A q \in (p + 1)..Len(order) : n \notin methods[order[q]]
        /\ x # None =>
             /\ Pos(x) \in (p + 1)..Len(order) /\ x = order[Pos(x)] /\ n \in methods[x]
             /\ \A q \in (p + 1)..(Pos(x) - 1) : n \notin methods[order[q]]
    <3>1. x = FirstSupplier(order, p + 1, n)
      BY <2>6
    <3> HIDE DEF x, p
    <3>2. p + 1 \in Nat \ {0}
      BY <2>5
    <3> QED
      BY <3>1, <3>2, NextSupplier
  <2>8. w = Append(v, x)
    BY <1>3
  <2> HIDE DEF x
  <2>9. /\ w \in Seq(Nat) /\ Len(w) = L + 1 /\ w[L + 1] = x
        /\ \A i \in 1..L : w[i] = v[i]
    BY <1>1, <2>7, <2>8
  <2>10. \A i \in 1..(L + 1) : i \in 1..L \/ i = L + 1
    BY <1>1
  <2> HIDE DEF Pos, p, last, L
  <2>11. ASSUME NEW i \in 1..(L + 1), w[i] # None
         PROVE  \E q \in 1..Len(order) : w[i] = order[q] /\ n \in methods[order[q]] /\ i <= q
    <3>1. CASE i \in 1..L
      BY <2>2, <2>9, <3>1
    <3>2. CASE i = L + 1
      <4>1. Pos(x) \in 1..Len(order) /\ x = order[Pos(x)] /\ n \in methods[x]
        BY <2>5, <2>7, <2>9, <2>11, <3>2
      <4>2. L + 1 <= Pos(x)
        BY <1>1, <2>5, <2>7, <2>9, <2>11, <3>2
      <4> QED
        BY <2>9, <3>2, <4>1, <4>2
    <3> QED
      BY <2>10, <3>1, <3>2
  <2>12. ASSUME NEW i \in 1..(L + 1), NEW j \in 1..(L + 1), i < j, w[j] # None
         PROVE  Pos(w[i]) < Pos(w[j])
    <3>1. i \in 1..L
      BY <1>1, <2>12
    <3>2. CASE j \in 1..L
      BY <2>3, <2>9, <2>12, <3>1, <3>2
    <3>3. CASE j = L + 1
      <4>1. Pos(v[i]) <= p /\ Pos(v[i]) \in Nat
        <5>1. i = L \/ i < L
          BY <1>1, <3>1
        <5>2. i < L => Pos(v[i]) < Pos(v[L])
          BY <1>1, <2>3, <3>1
        <5>3. Pos(v[i]) \in Nat
          BY <2>2, <3>1
        <5> QED
          BY <2>5, <5>1, <5>2, <5>3 DEF p, last
      <4>2. Pos(x) \in (p + 1)..Len(order)
        BY <2>7, <2>9, <2>12, <3>3
      <4>3. w[i] = v[i] /\ w[j] = x
        BY <2>9, <3>1, <3>3
      <4>4. Pos(v[i]) < Pos(x)
        <5> HIDE DEF Pos, p, x
        <5> QED
          BY <2>5, <4>1, <4>2
      <4> QED
        BY <4>3, <4>4
    <3> QED
      BY <2>10, <3>2, <3>3
  <2>13. ASSUME NEW q \in 1..Len(order), n \in methods[order[q]], x = None \/ q <= Pos(x)
         PROVE  \E i \in 1..(L + 1) : w[i] = order[q]
    <3>1. CASE q <= p
      <4>1. PICK i \in 1..L : v[i] = order[q]
        BY <2>4, <2>13, <3>1
      <4>2. i \in 1..(L + 1)
        BY <1>1
      <4> QED
        BY <2>9, <4>1, <4>2
    <3>2. CASE ~(q <= p)
      <4>1. q \in (p + 1)..Len(order)
        BY <2>5, <3>2
      <4>2. x # None
        BY <2>7, <2>13, <4>1
      <4>3. ~(q \in (p + 1)..(Pos(x) - 1)) /\ Pos(x) \in (p + 1)..Len(order) /\ x = order[Pos(x)]
        BY <2>7, <2>13, <4>2
      <4>4. q = Pos(x)
        BY <2>5, <2>13, <4>1, <4>2, <4>3
      <4>5. L + 1 \in 1..(L + 1)
        BY <1>1
      <4> QED
        BY <2>9, <4>3, <4>4, <4>5
    <3> QED
      BY <3>1, <3>2
  <2>14. \A i \in 1..L : w[i] # None
    BY <2>1, <2>9
  <2>15. Len(w) - 1 = L /\ Len(w) >= 1 /\ Len(w) = k + 1 + 1
    BY <1>1, <2>1, <2>9 DEF L
  <2> QED
    BY <2>9, <2>11, <2>12, <2>13, <2>14, <2>15 DEF Visited, Pos
<1> QED
  BY <1>2, <1>3

\* A further call of super.
SuperStep(order, n, v) ==
  IF v[Len(v)] = None THEN v ELSE Append(v, FirstSupplier(order, After(order, v[Len(v)]), n))

LEMMA SuperChain ==
  ASSUME NEW order \in Seq(Nat \ {None}), Distinct(order), NEW n, NEW visit,
         visit = CHOOSE f : f = [k \in 0..Len(order) |->
                                  IF k = 0 THEN <<FirstSupplier(order, 1, n)>>
                                  ELSE SuperStep(order, n, f[k - 1])]
  PROVE  Visited(order, n, Len(order), visit[Len(order)])
<1> DEFINE N == Len(order)
           start == <<FirstSupplier(order, 1, n)>>
           Continue(v) == SuperStep(order, n, v)
           P(f) == f = [k \in 0..N |-> IF k = 0 THEN start ELSE Continue(f[k - 1])]
           S == [k \in 0..N |-> {v \in Seq(Nat) : Visited(order, n, k, v)}]
           step == [k \in 1..N |-> [v \in Seq(Nat) |-> Continue(v)]]
<1>1. N \in Nat
  OBVIOUS
<1>2. visit = CHOOSE f : P(f)
  OBVIOUS
<1> HIDE DEF N
<1>3. start \in S[0]
  <2>1. Visited(order, n, 0, start)
    BY FirstVisit
  <2>2. 0 \in 0..N
    BY <1>1
  <2> HIDE DEF start
  <2> QED
    BY <2>1, <2>2 DEF Visited
<1>4. ASSUME NEW k \in 1..N, NEW v \in S[k - 1] PROVE Continue(v) \in S[k] /\ v \in Seq(Nat)
  <2>1. k - 1 \in Nat /\ k - 1 + 1 = k /\ k \in 0..N /\ k - 1 \in 0..N
    BY <1>1
  <2>2. v \in Seq(Nat) /\ Visited(order, n, k - 1, v)
    BY <2>1
  <2>3. Visited(order, n, k - 1 + 1, Continue(v))
    BY <2>1, <2>2, NextVisit DEF SuperStep
  <2> QED
    BY <2>1, <2>2, <2>3 DEF Visited
<1> HIDE DEF S, start, Continue
<1>5. \E f : P(f)
  <2>1. PICK f : Runs(f, N, start, step)
    BY <1>1, RunExists
  <2>2. f = [k \in 0..N |-> IF k = 0 THEN start ELSE step[k][f[k - 1]]]
    BY <2>1 DEF Runs
  <2> HIDE DEF step
  <2>3. f[0] = start /\ \A k \in 1..N : f[k] = step[k][f[k - 1]]
    <3>1. \A k \in 1..N : k \in 0..N /\ k # 0
      BY <1>1
    <3>2. 0 \in 0..N
      BY <1>1
    <3> QED
      BY <2>2, <3>1, <3>2
  <2>4. ASSUME NEW k \in 1..N, f[k - 1] \in S[k - 1]
        PROVE  f[k] = Continue(f[k - 1]) /\ f[k] \in S[k]
    <3>1. f[k - 1] \in Seq(Nat) /\ Continue(f[k - 1]) \in S[k]
      BY <1>4, <2>4
    <3>2. step[k][f[k - 1]] = Continue(f[k - 1])
      BY <3>1 DEF step
    <3> QED
      BY <2>3, <3>1, <3>2
  <2>5. \A k \in 0..N : f[k] \in S[k]
    <3>1. f[0] \in S[0]
      BY <1>3, <2>3
    <3> QED
      BY <1>1, <2>4, <3>1, RunKeeps
  <2>6. \A k \in 0..N : f[k] = IF k = 0 THEN start ELSE Continue(f[k - 1])
    <3>1. \A k \in 1..N : f[k] = Continue(f[k - 1])
      <4>1. \A k \in 1..N : k - 1 \in 0..N
        BY <1>1
      <4> QED
        BY <2>4, <2>5, <4>1
    <3>2. \A k \in 0..N : k # 0 => k \in 1..N
      BY <1>1
    <3> QED
      BY <2>3, <3>1, <3>2, Zenon
  <2>7. f = [k \in 0..N |-> f[k]]
    BY <2>2, Zenon
  <2>8. P(f)
    BY <2>6, <2>7
  <2> QED
    BY <2>8
<1>6. P(visit)
  <2> HIDE DEF P
  <2> QED
    BY <1>2, <1>5, Zenon
<1>7. visit[0] = start /\ \A k \in 1..N : visit[k] = Continue(visit[k - 1])
  <2>1. (\A k \in 1..N : k \in 0..N /\ k # 0) /\ 0 \in 0..N
    BY <1>1
  <2> QED
    BY <1>6, <2>1
<1> HIDE DEF P
<1>8. \A k \in 0..N : visit[k] \in S[k]
  <2>1. visit[0] \in S[0]
    BY <1>3, <1>7
  <2>2. \A k \in 1..N : visit[k - 1] \in S[k - 1] => visit[k] \in S[k]
    BY <1>4, <1>7
  <2> QED
    BY <1>1, <2>1, <2>2, RunKeeps
<1>9. N \in 0..N
  BY <1>1
<1> QED
  BY <1>8, <1>9 DEF S, N

(***************************************************************************)
(* However often super is called, the chain of calls ends, and visits      *)
(* every ancestor that has the method once, in the order of the            *)
(* linearization (enact_class_lookup_super_method_with_supplier).          *)
(***************************************************************************)
THEOREM SuperVisitsEveryone == ClassesSpec => []SuperVisitsAll
<1>1. ASSUME ClassesTypeOK, NEW c \in Classes, NEW n \in Name, Consistent(c)
      PROVE  LET order == Linearization[c].order
                 Continue(visited) ==
                   LET last == visited[Len(visited)]
                   IN IF last = None THEN visited
                      ELSE Append(visited, LookupSuper(c, last, n).supplier)
                 Visit[k \in 0..Len(order)] ==
                   IF k = 0 THEN <<LookupMethod(c, n).supplier>> ELSE Continue(Visit[k - 1])
                 visits == Visit[Len(order)]
                 end == Len(visits)
             IN /\ visits[end] = None
                /\ {visits[i] : i \in 1..(end - 1)} = {d \in Ancestors[c] : n \in methods[d]}
                /\ \A i, j \in 1..(end - 1) :
                     i < j => Position(order, visits[i]) < Position(order, visits[j])
  <2> DEFINE order == Linearization[c].order
             Continue(visited) ==
               LET last == visited[Len(visited)]
               IN IF last = None THEN visited
                  ELSE Append(visited, LookupSuper(c, last, n).supplier)
             Visit == CHOOSE f : f = [k \in 0..Len(order) |->
                        IF k = 0 THEN <<LookupMethod(c, n).supplier>> ELSE Continue(f[k - 1])]
             visits == Visit[Len(order)]
             end == Len(visits)
             N == Len(order)
  <2>1. /\ order \in Seq(Classes) /\ Distinct(order) /\ N \in Nat
        /\ ClassesOf(order) = Ancestors[c]
        /\ \A i \in 1..N : order[i] \in Ancestors[c]
        /\ \A d \in Ancestors[c] : \E i \in 1..N : order[i] = d
    BY <1>1, OrderOfConsistent
  <2>2. order \in Seq(Nat \ {None})
    <3>1. Classes \subseteq Nat \ {None}
      BY DEF Classes, None
    <3> HIDE DEF order
    <3> QED
      BY <2>1, <3>1, SeqGrows
  <2>4. Visited(order, n, N, visits)
    <3>1. Visit = CHOOSE f : f = [k \in 0..Len(order) |->
                    IF k = 0 THEN <<FirstSupplier(order, 1, n)>>
                    ELSE SuperStep(order, n, f[k - 1])]
      BY DEF SuperStep, LookupMethod, LookupSuper
    <3> HIDE DEF order, Continue, Visit
    <3> QED
      BY <2>1, <2>2, <3>1, SuperChain
  <2> HIDE DEF order, Continue, Visit, visits
  <2>5. /\ visits \in Seq(Nat) /\ end \in Nat /\ end >= 1 /\ end \in 1..end
        /\ visits[end] # None => end = N + 1
        /\ \A i \in 1..(end - 1) : visits[i] # None /\ i \in 1..end
    <3>1. visits \in Seq(Nat) /\ end >= 1
      BY <2>4 DEF Visited
    <3>2. end \in Nat /\ end \in 1..end /\ \A i \in 1..(end - 1) : i \in 1..end
      BY <3>1
    <3>3. visits[end] # None => end = N + 1
      BY <2>4, Zenon DEF Visited
    <3>4. \A i \in 1..(end - 1) : visits[i] # None
      BY <2>4, Zenon DEF Visited
    <3> QED
      BY <3>1, <3>2, <3>3, <3>4
  <2>6. \A i \in 1..end : visits[i] # None =>
          \E p \in 1..N : visits[i] = order[p] /\ n \in methods[order[p]] /\ i <= p
    BY <2>4 DEF Visited
  <2>7. visits[end] = None
    BY <2>1, <2>5, <2>6
  <2>8. \A i, j \in 1..(end - 1) : i < j => Position(order, visits[i]) < Position(order, visits[j])
    BY <2>4, <2>5 DEF Visited
  <2>9. ASSUME NEW i \in 1..(end - 1)
        PROVE  visits[i] \in {d \in Ancestors[c] : n \in methods[d]}
    BY <2>1, <2>5, <2>6
  <2>10. ASSUME NEW d \in Ancestors[c], n \in methods[d]
         PROVE  \E i \in 1..(end - 1) : visits[i] = d
    <3>1. PICK q \in 1..N : order[q] = d
      BY <2>1
    <3>2. PICK i \in 1..end : visits[i] = d
      BY <2>4, <2>7, <2>10, <3>1 DEF Visited
    <3>3. d # None
      <4>1. order[q] \in Nat \ {None}
        BY <2>2
      <4> QED
        BY <3>1, <4>1
    <3>4. i \in 1..(end - 1)
      BY <2>5, <2>7, <3>2, <3>3
    <3> QED
      BY <3>2, <3>4
  <2>11. {visits[i] : i \in 1..(end - 1)} = {d \in Ancestors[c] : n \in methods[d]}
    BY <2>9, <2>10
  <2> QED
    BY <2>7, <2>8, <2>11 DEF order, Continue, Visit, visits
<1>2. ClassesTypeOK => SuperVisitsAll
  BY <1>1 DEF SuperVisitsAll
<1> QED
  BY <1>2, ClassesTypes, PTL

-----------------------------------------------------------------------------
(***************************************************************************)
(* The merge loop, for every set of classes and every tuple of sequences   *)
(* without repetitions: what is placed is what is consumed, in the order   *)
(* of every sequence, and the loop gives up only when no order exists.     *)
(* MergeInv is inductive as it stands; the last fact follows at the step   *)
(* that gives up, from the head of least rank.  What the classes of a      *)
(* program supply are such sequences, so that EnactHierarchy implements    *)
(* both of its parts.                                                      *)
(***************************************************************************)
\* The class that an iteration places, and where it comes from.
LEMMA Placed ==
  ASSUME MergeInv, Place
  PROVE  \E c \in Class :
           /\ c \notin ClassesOf(out)
           /\ out' = Append(out, c)
           /\ \E i \in DOMAIN seqs : c \in ClassesOf(seqs[i])
           /\ index' = DropCandidate(seqs, index, c)
           /\ \A i \in DOMAIN seqs : \A j \in 1..Len(seqs[i]) :
                seqs[i][j] = c => j = index[i] + 1
<1> DEFINE c == NextCandidate(seqs, index)
<1>0. /\ seqs \in Seq(Seq(Class)) /\ index \in [DOMAIN seqs -> Nat] /\ out \in Seq(Class)
  BY DEF MergeInv, TypeOK, Mergeable
<1>1. PICK i \in DOMAIN seqs : Placeable(seqs, index, i) /\ c = seqs[i][index[i] + 1]
  BY <1>0, CandidateIsHead DEF Place
<1>2. /\ seqs[i] \in Seq(Class) /\ index[i] + 1 \in 1..Len(seqs[i])
      /\ ~TailContains(seqs, index, c)
  BY <1>0, <1>1 DEF Placeable
<1>3. c \in Class /\ c \in ClassesOf(seqs[i])
  BY <1>1, <1>2 DEF ClassesOf
<1>4. c \notin ClassesOf(out)
  BY <1>0, <1>1, <1>2 DEF MergeInv, ConsumedIsPlaced
<1>5. ASSUME NEW k \in DOMAIN seqs, NEW j \in 1..Len(seqs[k]), seqs[k][j] = c
      PROVE  j = index[k] + 1
  <2>1. ~(j <= index[k])
    BY <1>4, <1>5 DEF MergeInv, ConsumedIsPlaced
  <2>2. index[k] \in Nat /\ seqs[k] \in Seq(Class)
    BY <1>0
  <2>3. j \notin (index[k] + 2)..Len(seqs[k])
    BY <1>2, <1>5 DEF TailContains
  <2> QED
    BY <2>1, <2>2, <2>3
<1>6. out' = Append(out, c) /\ index' = DropCandidate(seqs, index, c)
  BY <1>4 DEF Place, AppendUnique
<1> HIDE DEF c
<1> QED
  BY <1>1, <1>3, <1>4, <1>5, <1>6

\* The candidate is consumed in every sequence that holds it, and nothing else.
LEMMA Dropped ==
  ASSUME NEW s \in Seq(Seq(Class)), NEW idx \in [DOMAIN s -> Nat], NEW c,
         \A i \in DOMAIN s : idx[i] <= Len(s[i]),
         \A i \in DOMAIN s : \A j \in 1..Len(s[i]) : s[i][j] = c => j = idx[i] + 1
  PROVE  /\ DropCandidate(s, idx, c) \in [DOMAIN s -> Nat]
         /\ \A i \in DOMAIN s : DropCandidate(s, idx, c)[i] <= Len(s[i])
         /\ \A i \in DOMAIN s : \A j \in 1..Len(s[i]) :
              j <= DropCandidate(s, idx, c)[i] <=> (j <= idx[i] \/ s[i][j] = c)
<1> DEFINE after == DropCandidate(s, idx, c)
<1>1. after = [i \in DOMAIN s |->
                IF idx[i] < Len(s[i]) /\ s[i][idx[i] + 1] = c THEN idx[i] + 1 ELSE idx[i]]
  BY DEF DropCandidate
<1>2. ASSUME NEW i \in DOMAIN s
      PROVE  /\ after[i] \in Nat /\ after[i] <= Len(s[i])
             /\ \A j \in 1..Len(s[i]) : j <= after[i] <=> (j <= idx[i] \/ s[i][j] = c)
  <2>0. idx[i] \in Nat /\ s[i] \in Seq(Class) /\ Len(s[i]) \in Nat /\ idx[i] <= Len(s[i])
    OBVIOUS
  <2>1. CASE idx[i] < Len(s[i]) /\ s[i][idx[i] + 1] = c
    <3>1. after[i] = idx[i] + 1
      BY <1>1, <2>1
    <3> HIDE DEF after
    <3>2. \A j \in 1..Len(s[i]) : j <= after[i] <=> (j <= idx[i] \/ j = idx[i] + 1)
      BY <3>1, <2>0
    <3>3. \A j \in 1..Len(s[i]) : j = idx[i] + 1 <=> s[i][j] = c
      BY <2>1
    <3> QED
      BY <3>1, <3>2, <3>3, <2>0, <2>1
  <2>2. CASE ~(idx[i] < Len(s[i]) /\ s[i][idx[i] + 1] = c)
    <3>1. after[i] = idx[i]
      BY <1>1, <2>2
    <3> HIDE DEF after
    <3>2. \A j \in 1..Len(s[i]) : s[i][j] # c
      BY <2>2, <2>0
    <3> QED
      BY <3>1, <3>2, <2>0
  <2> QED
    BY <2>1, <2>2
<1>3. after \in [DOMAIN s -> Nat]
  BY <1>1
<1> HIDE DEF after
<1>4. /\ after \in [DOMAIN s -> Nat]
      /\ \A i \in DOMAIN s : after[i] <= Len(s[i])
      /\ \A i \in DOMAIN s : \A j \in 1..Len(s[i]) :
           j <= after[i] <=> (j <= idx[i] \/ s[i][j] = c)
  BY <1>2, <1>3
<1> QED
  BY <1>4 DEF after

-----------------------------------------------------------------------------
\* Placing a class keeps the invariant.
LEMMA PlaceKeeps ==
  ASSUME MergeInv, Place
  PROVE  MergeInv'
<1>1. PICK c \in Class :
        /\ c \notin ClassesOf(out)
        /\ out' = Append(out, c)
        /\ \E i \in DOMAIN seqs : c \in ClassesOf(seqs[i])
        /\ index' = DropCandidate(seqs, index, c)
        /\ \A i \in DOMAIN seqs : \A j \in 1..Len(seqs[i]) :
             seqs[i][j] = c => j = index[i] + 1
  BY Placed
<1>2. /\ seqs \in Seq(Seq(Class)) /\ index \in [DOMAIN seqs -> Nat] /\ out \in Seq(Class)
      /\ \A i \in DOMAIN seqs : index[i] <= Len(seqs[i])
      /\ \A i \in DOMAIN seqs : NoRepetition(seqs[i])
  BY DEF MergeInv, TypeOK, Mergeable
<1>3. seqs' = seqs /\ consistent' = consistent /\ consistent \in BOOLEAN
  BY DEF Place, MergeInv, TypeOK, Mergeable
<1>4. /\ index' \in [DOMAIN seqs -> Nat]
      /\ \A i \in DOMAIN seqs : index'[i] <= Len(seqs[i])
      /\ \A i \in DOMAIN seqs : \A j \in 1..Len(seqs[i]) :
           j <= index'[i] <=> (j <= index[i] \/ seqs[i][j] = c)
  <2> DEFINE after == DropCandidate(seqs, index, c)
  <2>1. /\ after \in [DOMAIN seqs -> Nat]
        /\ \A i \in DOMAIN seqs : after[i] <= Len(seqs[i])
        /\ \A i \in DOMAIN seqs : \A j \in 1..Len(seqs[i]) :
             j <= after[i] <=> (j <= index[i] \/ seqs[i][j] = c)
    <3>1. \A i \in DOMAIN seqs : \A j \in 1..Len(seqs[i]) : seqs[i][j] = c => j = index[i] + 1
      BY <1>1
    <3>2. /\ seqs \in Seq(Seq(Class)) /\ index \in [DOMAIN seqs -> Nat]
          /\ \A i \in DOMAIN seqs : index[i] <= Len(seqs[i])
      BY <1>2
    <3> QED
      BY <3>1, <3>2, Dropped, Zenon
  <2>2. index' = after
    BY <1>1
  <2> HIDE DEF after
  <2> QED
    BY <2>1, <2>2
<1>5. /\ out' \in Seq(Class) /\ Len(out') = Len(out) + 1
      /\ \A m \in 1..Len(out) : out'[m] = out[m]
      /\ out'[Len(out) + 1] = c
      /\ ClassesOf(out') = ClassesOf(out) \cup {c}
  BY <1>1, <1>2, AppendedClass
<1>6. TypeOK'
  BY <1>2, <1>3, <1>4, <1>5 DEF TypeOK, Mergeable
<1>7. ConsumedIsPlaced'
  <2>1. SUFFICES ASSUME NEW i \in DOMAIN seqs, NEW j \in 1..Len(seqs[i])
                 PROVE  j <= index'[i] <=> seqs[i][j] \in ClassesOf(out')
    BY <1>3 DEF ConsumedIsPlaced
  <2>2. j <= index[i] <=> seqs[i][j] \in ClassesOf(out)
    BY DEF MergeInv, ConsumedIsPlaced
  <2> QED
    BY <2>2, <1>4, <1>5
<1>8. PlacedOnce'
  <2>1. NoRepetition(out)
    BY DEF MergeInv, PlacedOnce
  <2>2. \A m \in 1..Len(out) : out[m] # c
    BY <1>1 DEF ClassesOf
  <2>3. ASSUME NEW m \in 1..Len(out'), NEW l \in 1..Len(out'), out'[m] = out'[l]
        PROVE  m = l
    <3>1. Len(out) \in Nat
      BY <1>2
    <3>2. CASE m \in 1..Len(out) /\ l \in 1..Len(out)
      BY <3>2, <2>1, <2>3, <1>5 DEF NoRepetition
    <3>3. CASE m = Len(out) + 1 \/ l = Len(out) + 1
      BY <3>1, <3>3, <2>2, <2>3, <1>5
    <3> QED
      BY <3>1, <3>2, <3>3, <1>5
  <2> QED
    BY <2>3 DEF PlacedOnce, NoRepetition
<1>9. OrderKept'
  <2>1. SUFFICES ASSUME NEW i \in DOMAIN seqs,
                        NEW j \in 1..Len(seqs[i]), NEW k \in 1..Len(seqs[i]),
                        NEW m \in 1..Len(out'), j < k, out'[m] = seqs[i][k]
                 PROVE  \E l \in 1..Len(out') : l < m /\ out'[l] = seqs[i][j]
    BY <1>3 DEF OrderKept
  <2>2. CASE m \in 1..Len(out)
    <3>1. PICK l \in 1..Len(out) : l < m /\ out[l] = seqs[i][j]
      BY <2>1, <2>2, <1>5 DEF MergeInv, OrderKept
    <3>2. l \in 1..Len(out') /\ out'[l] = seqs[i][j]
      BY <3>1, <1>2, <1>5
    <3> QED
      BY <3>1, <3>2
  <2>3. CASE m = Len(out) + 1
    <3>1. k = index[i] + 1
      BY <2>1, <2>3, <1>1, <1>5
    <3>2. seqs[i][j] \in ClassesOf(out)
      BY <3>1, <2>1, <1>2 DEF MergeInv, ConsumedIsPlaced
    <3>3. PICK l \in 1..Len(out) : out[l] = seqs[i][j]
      BY <3>2 DEF ClassesOf
    <3>4. l \in 1..Len(out') /\ l < m /\ out'[l] = seqs[i][j]
      BY <3>3, <2>3, <1>2, <1>5
    <3> QED
      BY <3>4
  <2>4. m \in 1..Len(out) \/ m = Len(out) + 1
    BY <1>2, <1>5
  <2> QED
    BY <2>2, <2>3, <2>4
<1>10. OnlyInputsPlaced'
  <2>1. SUFFICES ASSUME NEW m \in 1..Len(out')
                 PROVE  \E i \in DOMAIN seqs : out'[m] \in ClassesOf(seqs[i])
    BY <1>3 DEF OnlyInputsPlaced
  <2>2. CASE m \in 1..Len(out)
    BY <2>2, <1>5 DEF MergeInv, OnlyInputsPlaced
  <2>3. CASE m = Len(out) + 1
    BY <2>3, <1>1, <1>5
  <2> QED
    BY <2>2, <2>3, <1>2, <1>5
<1> QED
  BY <1>6, <1>7, <1>8, <1>9, <1>10 DEF MergeInv

\* Nothing is consumed and nothing placed at the start.
LEMMA MergeInit == Init => MergeInv
<1> SUFFICES ASSUME Init PROVE MergeInv
  OBVIOUS
<1>1. /\ seqs \in Seq(Seq(Class)) /\ out = <<>> /\ consistent = TRUE
      /\ index = [i \in DOMAIN seqs |-> 0]
      /\ \A i \in DOMAIN seqs : NoRepetition(seqs[i])
  BY DEF Init, Mergeable, FirstIndex
<1>2. \A i \in DOMAIN seqs : seqs[i] \in Seq(Class) /\ Len(seqs[i]) \in Nat /\ index[i] = 0
  BY <1>1
<1>3. TypeOK
  BY <1>1, <1>2 DEF TypeOK, Mergeable
<1>4. ClassesOf(out) = {} /\ Len(out) = 0
  BY <1>1 DEF ClassesOf
<1> QED
  BY <1>1, <1>2, <1>3, <1>4
     DEF MergeInv, ConsumedIsPlaced, PlacedOnce, OrderKept, OnlyInputsPlaced, NoRepetition

\* A call starts anew.
LEMMA CallStarts ==
  ASSUME NEW s, Mergeable(s), BeginMerge(s)
  PROVE  Init' /\ MergeInv'
<1>1. Init'
  BY DEF Init, Mergeable, BeginMerge
<1>2. Init' => MergeInv'
  BY MergeInit, PTL
<1> QED
  BY <1>1, <1>2

LEMMA MergeNext == MergeInv /\ [Next]_vars => MergeInv'
<1> SUFFICES ASSUME MergeInv, [Next]_vars PROVE MergeInv'
  OBVIOUS
<1>1. CASE Place
  BY <1>1, PlaceKeeps
<1>2. CASE GiveUp
  <2>1. seqs' = seqs /\ index' = index /\ out' = out /\ consistent' = FALSE
    BY <1>2 DEF GiveUp
  <2>2. TypeOK'
    BY <2>1 DEF MergeInv, TypeOK, Mergeable
  <2>3. ConsumedIsPlaced' /\ PlacedOnce' /\ OrderKept' /\ OnlyInputsPlaced'
    BY <2>1 DEF MergeInv, ConsumedIsPlaced, PlacedOnce, OrderKept, OnlyInputsPlaced
  <2> QED
    BY <2>2, <2>3 DEF MergeInv
<1>3. CASE \E s \in Seq(Seq(Class)) : Mergeable(s) /\ BeginMerge(s)
  BY <1>3, CallStarts
<1>4. CASE UNCHANGED vars
  BY <1>4 DEF vars, MergeInv, TypeOK, Mergeable, ConsumedIsPlaced, PlacedOnce, OrderKept, OnlyInputsPlaced
<1> QED
  BY <1>1, <1>2, <1>3, <1>4 DEF Next, Iterate

(***************************************************************************)
(* What is consumed of each sequence is what is placed, once and in the    *)
(* order of every sequence, after any number of iterations of              *)
(* enact_class_merge_linearizations.                                       *)
(***************************************************************************)
THEOREM MergeInvariant == Spec => []MergeInv
<1> QED
  BY MergeInit, MergeNext, PTL DEF Spec

(***************************************************************************)
(* A merge that is left without giving up has placed every class of its    *)
(* sequences and no other.                                                 *)
(***************************************************************************)
THEOREM AllClassesPlaced == Spec => []AllPlaced
<1>1. ASSUME MergeInv, ~HasRemaining(seqs, index)
      PROVE  ClassesOf(out) = UNION {ClassesOf(seqs[i]) : i \in DOMAIN seqs}
  <2>1. ASSUME NEW i \in DOMAIN seqs, NEW x \in ClassesOf(seqs[i]) PROVE x \in ClassesOf(out)
    <3>1. PICK j \in 1..Len(seqs[i]) : x = seqs[i][j]
      BY DEF ClassesOf
    <3>2. index[i] \in Nat /\ Len(seqs[i]) \in Nat /\ ~(index[i] < Len(seqs[i]))
      BY <1>1 DEF HasRemaining, MergeInv, TypeOK, Mergeable
    <3>3. j <= index[i]
      BY <3>2
    <3> QED
      BY <1>1, <3>1, <3>3 DEF MergeInv, ConsumedIsPlaced
  <2>2. ASSUME NEW x \in ClassesOf(out)
        PROVE  \E i \in DOMAIN seqs : x \in ClassesOf(seqs[i])
    BY <1>1 DEF ClassesOf, MergeInv, OnlyInputsPlaced
  <2> QED
    BY <2>1, <2>2, Zenon
<1>2. MergeInv => AllPlaced
  BY <1>1 DEF AllPlaced
<1> QED
  BY <1>2, MergeInvariant, PTL

-----------------------------------------------------------------------------
(***************************************************************************)
(* Where no head is placeable, every head stands behind a head of lower    *)
(* rank in another sequence: no ranking with naturals can respect them.    *)
(***************************************************************************)
LEMMA NoRankWithoutCandidate ==
  ASSUME MergeInv, HasRemaining(seqs, index), ~HasCandidate(seqs, index),
         NEW r \in [Class -> Nat], Respects(r)
  PROVE  FALSE
<1> DEFINE left == {i \in DOMAIN seqs : index[i] < Len(seqs[i])}
           NextOf(i) == seqs[i][index[i] + 1]
           ranks == {r[NextOf(i)] : i \in left}
<1>1. /\ seqs \in Seq(Seq(Class)) /\ index \in [DOMAIN seqs -> Nat]
  BY DEF MergeInv, TypeOK, Mergeable
<1>2. ASSUME NEW i \in left
      PROVE  /\ index[i] \in Nat /\ index[i] + 1 \in 1..Len(seqs[i])
             /\ NextOf(i) \in Class /\ r[NextOf(i)] \in Nat
  <2>1. seqs[i] \in Seq(Class) /\ index[i] \in Nat /\ index[i] < Len(seqs[i])
    BY <1>1
  <2>2. index[i] + 1 \in 1..Len(seqs[i])
    BY <2>1
  <2>3. NextOf(i) \in Class
    BY <2>1, <2>2
  <2> QED
    BY <2>1, <2>2, <2>3
<1>3. ranks \in SUBSET Nat /\ ranks # {}
  <2>1. left # {}
    BY DEF HasRemaining
  <2> HIDE DEF left, NextOf
  <2> QED
    BY <1>2, <2>1
<1>4. PICK least \in ranks : \A n \in ranks : least <= n
  <2> HIDE DEF ranks
  <2> QED
    BY <1>3, LeastElement, Zenon
<1>5. PICK i \in left : r[NextOf(i)] = least
  BY <1>4
<1>6. TailContains(seqs, index, NextOf(i))
  BY <1>5 DEF HasCandidate, Placeable
<1>7. PICK k \in DOMAIN seqs : \E j \in (index[k] + 2)..Len(seqs[k]) : seqs[k][j] = NextOf(i)
  BY <1>6 DEF TailContains
<1>8. PICK j \in (index[k] + 2)..Len(seqs[k]) : seqs[k][j] = NextOf(i)
  BY <1>7
<1>9. /\ index[k] \in Nat /\ Len(seqs[k]) \in Nat
      /\ index[k] + 1 \in 1..Len(seqs[k]) /\ j \in 1..Len(seqs[k]) /\ index[k] + 1 < j
  <2>1. index[k] \in Nat /\ Len(seqs[k]) \in Nat
    BY <1>1
  <2> QED
    BY <2>1, <1>8
<1>10. k \in left
  BY <1>9
<1>11. r[NextOf(k)] < r[NextOf(i)]
  BY <1>8, <1>9 DEF Respects
<1>12. r[NextOf(k)] \in ranks
  BY <1>10
<1>13. r[NextOf(i)] <= r[NextOf(k)]
  <2> HIDE DEF ranks, left, NextOf
  <2> QED
    BY <1>4, <1>5, <1>12
<1> HIDE DEF ranks, left, NextOf
<1> QED
  BY <1>2, <1>5, <1>10, <1>11, <1>13

(***************************************************************************)
(* INCONSISTENT_LINEARIZATION is reported only where no order of the       *)
(* classes respects the sequences, so that no choice of earlier candidates *)
(* could have saved the merge: what dispatch and OK() rely on.             *)
(***************************************************************************)
THEOREM GiveUpIsJustified == Spec => []GiveUpJustified
<1>1. Init => GiveUpJustified
  BY DEF Init, GiveUpJustified
<1>2. MergeInv /\ GiveUpJustified /\ [Next]_vars => GiveUpJustified'
  <2> SUFFICES ASSUME MergeInv, GiveUpJustified, [Next]_vars PROVE GiveUpJustified'
    OBVIOUS
  <2>1. CASE Place
    BY <2>1 DEF Place, GiveUpJustified
  <2>2. CASE GiveUp
    <3>1. ASSUME NEW r \in [Class -> 1..Cardinality(Class)], Respects(r)' PROVE FALSE
      <4>1. Respects(r)
        BY <2>2, <3>1 DEF GiveUp, Respects
      <4>2. r \in [Class -> Nat]
        <5>1. \A x \in 1..Cardinality(Class) : x \in Nat
          BY MergeAssumption, FS_CardinalityType
        <5> QED
          BY <5>1
      <4> QED
        BY <4>1, <4>2, <2>2, NoRankWithoutCandidate DEF GiveUp
    <3> QED
      BY <3>1, Zenon DEF GiveUpJustified
  <2>3. CASE \E s \in Seq(Seq(Class)) : Mergeable(s) /\ BeginMerge(s)
    BY <2>3 DEF BeginMerge, GiveUpJustified
  <2>4. CASE UNCHANGED vars
    BY <2>4 DEF vars, GiveUpJustified, Respects
  <2> QED
    BY <2>1, <2>2, <2>3, <2>4 DEF Next, Iterate
<1> QED
  BY <1>1, <1>2, MergeInvariant, PTL DEF Spec

-----------------------------------------------------------------------------
(***************************************************************************)
(* The merge of a real hierarchy.                                          *)
(***************************************************************************)

\* What enact_class_linearization_vector merges never repeats a class.
LEMMA SequencesMergeable ==
  ASSUME ClassesTypeOK, supers # <<>>, Classes \subseteq Class,
         \A s \in ClassesOf(supers[Len(supers)]) : Linearization[s].consistent
  PROVE  Mergeable(SequencesOf(Len(supers)))
<1> DEFINE c == Len(supers)
           direct == Direct(supers[c])
           above == [i \in 1..Len(direct) |-> Linearization[direct[i]]]
           s == SequencesToMerge(direct, above)
<1>1. c \in Nat /\ c \in 1..Len(supers) /\ IsHierarchy(supers)
  BY TypesAreHierarchy DEF ClassesTypeOK
<1>2. \A i \in 1..(c - 1) : Ordered(supers, i, Linearization[i])
  BY <1>1, LinearizationOrdered DEF Linearization
<1> HIDE DEF c
<1>3. /\ direct \in Seq(1..(c - 1)) /\ ClassesOf(direct) = ClassesOf(supers[c])
      /\ s \in Seq(Seq(1..(c - 1))) /\ Len(s) = Len(direct) + 1
      /\ DOMAIN s = 1..(Len(direct) + 1)
      /\ \A i \in 1..Len(direct) : s[i] = Linearization[direct[i]].order
      /\ s[Len(direct) + 1] = direct
  BY <1>1, <1>2, SequencesAbove
<1>4. Distinct(direct)
  BY <1>1, OlderSuperclasses, DirectIsDistinct
<1>5. SequencesOf(c) = s
  BY DEF SequencesOf
<1> HIDE DEF direct, above, s
<1>6. \A i \in 1..Len(direct) : direct[i] \in 1..(c - 1)
  BY <1>1, <1>3
<1>7. s \in Seq(Seq(Class))
  <2>1. 1..(c - 1) \subseteq Class
    BY <1>1 DEF Classes, c
  <2>2. Seq(1..(c - 1)) \subseteq Seq(Class)
    BY <2>1, SeqGrows
  <2> QED
    BY <1>3, <2>2, SeqGrows
<1>8. ASSUME NEW i \in DOMAIN s PROVE NoRepetition(s[i])
  <2>1. CASE i \in 1..Len(direct)
    <3>1. direct[i] \in 1..(c - 1) /\ direct[i] \in ClassesOf(supers[c])
      <4>1. direct[i] \in ClassesOf(direct)
        BY <2>1 DEF ClassesOf
      <4>2. direct[i] \in 1..(c - 1)
        BY <1>6, <2>1
      <4> QED
        BY <1>3, <4>1, <4>2
    <3>2. Linearization[direct[i]].consistent /\ Ordered(supers, direct[i], Linearization[direct[i]])
      BY <1>2, <3>1 DEF c
    <3>3. Distinct(Linearization[direct[i]].order)
      BY <3>2 DEF Ordered
    <3> QED
      BY <1>3, <2>1, <3>3 DEF NoRepetition, Distinct
  <2>2. CASE i = Len(direct) + 1
    BY <1>3, <1>4, <2>2 DEF NoRepetition, Distinct
  <2>3. Len(direct) \in Nat
    BY <1>3
  <2> QED
    BY <1>3, <1>8, <2>1, <2>2, <2>3
<1> QED
  BY <1>5, <1>7, <1>8 DEF Mergeable, c

\* No more classes than the loop may be given.
WithinBounds == Len(supers) <= MaxClasses

LEMMA NoClassesMergeable == Mergeable(<<>>)
BY DEF Mergeable

(***************************************************************************)
(* A program that defines classes and linearizes them does what            *)
(* EnactClasses and the loop of EnactMerge allow, so that what is proved   *)
(* of either holds (enact_class_linearization_vector).                     *)
(***************************************************************************)
THEOREM HierarchyImplements == HierarchySpec => ClassesSpec /\ Spec
<1>1. HierarchySpec => ClassesSpec
  <2>1. HierarchyInit => ClassesInit
    BY DEF HierarchyInit
  <2>2. [HierarchyNext]_hierarchyVars => [ClassesNext]_classVars
    BY DEF HierarchyNext, hierarchyVars, classVars, BeginLinearization, EndLinearization
  <2> QED
    BY <2>1, <2>2, PTL DEF HierarchySpec, ClassesSpec
<1>2. ClassesSpec => [](ClassesTypeOK /\ WithinBounds)
  <2>1. ClassesInit => WithinBounds
    BY ClassesAssumption DEF ClassesInit, WithinBounds
  <2>2. ClassesTypeOK /\ WithinBounds /\ [ClassesNext]_classVars => WithinBounds'
    <3> SUFFICES ASSUME ClassesTypeOK, WithinBounds, [ClassesNext]_classVars PROVE WithinBounds'
      OBVIOUS
    <3>1. Len(supers) \in Nat /\ supers \in Seq(Seq(Nat))
      BY DEF ClassesTypeOK
    <3>2. ASSUME NEW list, DefineClass(list), Len(supers) < MaxClasses
          PROVE  Len(supers') <= MaxClasses
      BY <3>1, <3>2, ClassesAssumption DEF DefineClass
    <3>3. ASSUME NEW list, DefineClass(list),
                 Len(supers) < (IF \A c \in Classes : methods[c] = {} THEN MaxClasses ELSE MaxOfMethods)
          PROVE  Len(supers) < MaxClasses
      BY <3>1, <3>3, ClassesAssumption, HierarchyAssumption
    <3>4. ASSUME supers' = supers PROVE Len(supers') <= MaxClasses
      BY <3>4 DEF WithinBounds
    <3> QED
      BY <3>2, <3>3, <3>4 DEF ClassesNext, DefineMethod, classVars, WithinBounds
  <2> QED
    BY <2>1, <2>2, ClassesTypes, PTL DEF ClassesSpec
<1>3. HierarchyInit => Init
  BY NoClassesMergeable DEF HierarchyInit, Init, FirstIndex
<1>4. ClassesTypeOK /\ WithinBounds /\ [HierarchyNext]_hierarchyVars => [Next]_vars
  <2> SUFFICES ASSUME ClassesTypeOK, WithinBounds, [HierarchyNext]_hierarchyVars PROVE [Next]_vars
    OBVIOUS
  <2>1. Classes \subseteq Class
    BY ClassesAssumption, HierarchyAssumption DEF ClassesTypeOK, WithinBounds, Classes
  <2>2. CASE BeginLinearization
    <3>1. Mergeable(SequencesOf(Len(supers)))
      BY <2>1, <2>2, SequencesMergeable DEF BeginLinearization
    <3> QED
      BY <2>2, <3>1 DEF BeginLinearization, Next, Mergeable
  <2>3. CASE EndLinearization
    BY <2>3, NoClassesMergeable DEF EndLinearization, Next, Mergeable
  <2>4. CASE Iterate \/ UNCHANGED vars
    BY <2>4 DEF Next
  <2> QED
    BY <2>2, <2>3, <2>4 DEF HierarchyNext, hierarchyVars, vars
<1> QED
  BY <1>1, <1>2, <1>3, <1>4, PTL DEF HierarchySpec, Spec

-----------------------------------------------------------------------------
(***************************************************************************)
(* Calls, in EnactDispatch.                                                *)
(***************************************************************************)

\* Calls of the callables in C.
Frames(C) ==
  [callee : C, args : 0..2, how : {"dot", "super", "value"},
   running : BOOLEAN, previous : Nat]

IsStack(s) == \E C : s \in Seq(Frames(C))

\* InnermostIs, for a stack s.
Innermost(s, i, k) ==
  /\ i = 0 \/ (i \in 1..k /\ IsMethod(s[i]))
  /\ \A j \in (i + 1)..k : ~IsMethod(s[j])

(***************************************************************************)
(* The inductive invariant of the context, for a stack s and a context c:  *)
(* c is the innermost method, and every method restores the one below it.  *)
(***************************************************************************)
Shape(s, c) ==
  /\ Len(s) \in Nat
  /\ c \in Nat
  /\ \A i \in 1..Len(s) : s[i].running \in BOOLEAN /\ s[i].previous \in Nat

Links(s, c) ==
  /\ Innermost(s, c, Len(s))
  /\ \A i \in 1..Len(s) : IsMethod(s[i]) => Innermost(s, s[i].previous, i - 1)

ContextInv == IsStack(frames) /\ Shape(frames, context) /\ Links(frames, context)

-----------------------------------------------------------------------------
(***************************************************************************)
(* Stacks: t is s with a call on top, with its top removed or replaced.    *)
(***************************************************************************)
Agree(s, t, n) == \A i \in 1..n : t[i] = s[i]

\* What is innermost among the first k calls depends on these only.
LEMMA InnermostAgrees ==
  ASSUME NEW s, NEW t, NEW n \in Nat, Agree(s, t, n),
         NEW i \in Nat, NEW k \in 0..n, Innermost(s, i, k)
  PROVE  Innermost(t, i, k)
<1>1. \A j \in 1..k : t[j] = s[j] BY DEF Agree
<1>2. i = 0 \/ (i \in 1..k /\ IsMethod(t[i])) BY <1>1 DEF Innermost
<1>3. \A j \in (i + 1)..k : j \in 1..k OBVIOUS
<1>4. \A j \in (i + 1)..k : ~IsMethod(t[j]) BY <1>1, <1>3 DEF Innermost
<1> QED BY <1>2, <1>4 DEF Innermost

\* The links of the calls below the top stay.
LEMMA LinksAgree ==
  ASSUME NEW s, NEW t, NEW c, Shape(s, c), Links(s, c),
         NEW n \in Nat, n <= Len(s), Agree(s, t, n)
  PROVE  \A i \in 1..n : IsMethod(t[i]) => Innermost(t, t[i].previous, i - 1)
<1> SUFFICES ASSUME NEW i \in 1..n, IsMethod(t[i])
             PROVE  Innermost(t, t[i].previous, i - 1)
  OBVIOUS
<1>1. t[i] = s[i] /\ i \in 1..Len(s) BY DEF Agree, Shape
<1>2. s[i].previous \in Nat BY <1>1 DEF Shape
<1>3. Innermost(s, s[i].previous, i - 1) BY <1>1 DEF Links
<1>4. Innermost(t, s[i].previous, i - 1) BY <1>2, <1>3, InnermostAgrees
<1> QED BY <1>1, <1>4

\* A call that waits for its arguments is put on top.
LEMMA PushLinks ==
  ASSUME NEW s, NEW t, NEW c, Shape(s, c), Links(s, c),
         Len(t) = Len(s) + 1, Agree(s, t, Len(s)),
         t[Len(t)].running = FALSE, t[Len(t)].previous = 0
  PROVE  Shape(t, c) /\ Links(t, c)
<1>1. Len(s) \in Nat /\ c \in Nat BY DEF Shape
<1>2. ~IsMethod(t[Len(t)]) BY DEF IsMethod
<1>3. \A i \in 1..Len(t) : i = Len(t) \/ (i \in 1..Len(s) /\ t[i] = s[i])
  BY <1>1 DEF Agree
<1>4. Shape(t, c)
  <2>1. t[Len(t)].running \in BOOLEAN /\ t[Len(t)].previous \in Nat
    <3>1. t[Len(t)].running \in BOOLEAN BY Zenon
    <3>2. t[Len(t)].previous \in Nat OBVIOUS
    <3> QED BY <3>1, <3>2
  <2>2. \A i \in 1..Len(s) : s[i].running \in BOOLEAN /\ s[i].previous \in Nat BY DEF Shape
  <2>3. \A i \in 1..Len(t) : t[i].running \in BOOLEAN /\ t[i].previous \in Nat
    BY <1>3, <2>1, <2>2
  <2> QED BY <1>1, <2>3 DEF Shape
<1>5. Innermost(t, c, Len(s)) BY <1>1, InnermostAgrees DEF Links
<1>6. Innermost(t, c, Len(t)) BY <1>1, <1>2, <1>5 DEF Innermost
<1>7. \A i \in 1..Len(s) : IsMethod(t[i]) => Innermost(t, t[i].previous, i - 1)
  BY <1>1, LinksAgree
<1> QED BY <1>2, <1>3, <1>4, <1>6, <1>7 DEF Links

\* The top is removed, and what it has saved is restored.
LEMMA PopLinks ==
  ASSUME NEW s, NEW t, NEW c, Shape(s, c), Links(s, c),
         Len(s) > 0, Len(t) = Len(s) - 1, Agree(s, t, Len(t)),
         NEW d, d = IF IsMethod(s[Len(s)]) THEN s[Len(s)].previous ELSE c
  PROVE  Shape(t, d) /\ Links(t, d)
<1>1. Len(s) \in Nat /\ Len(t) \in Nat /\ c \in Nat BY DEF Shape
<1>2. d \in Nat BY <1>1 DEF Shape
<1>3. \A i \in 1..Len(t) : i \in 1..Len(s) /\ t[i] = s[i]
  BY <1>1 DEF Agree
<1>4. Shape(t, d) BY <1>1, <1>2, <1>3 DEF Shape
<1>5. Innermost(s, d, Len(t))
  <2>1. CASE IsMethod(s[Len(s)])
    BY <1>1, <2>1 DEF Links
  <2>2. CASE ~IsMethod(s[Len(s)])
    <3>1. Innermost(s, c, Len(s)) /\ c # Len(s) /\ d = c
      BY <1>1, <2>2 DEF Links, Innermost
    <3> QED BY <1>1, <3>1 DEF Innermost
  <2> QED BY <2>1, <2>2
<1>6. Innermost(t, d, Len(t)) BY <1>1, <1>2, <1>5, InnermostAgrees
<1>7. \A i \in 1..Len(t) : IsMethod(t[i]) => Innermost(t, t[i].previous, i - 1)
  BY <1>1, LinksAgree
<1> QED BY <1>4, <1>6, <1>7 DEF Links

\* The body of the call on top starts; a method becomes the context.
LEMMA EnterLinks ==
  ASSUME NEW s, NEW t, NEW c, Shape(s, c), Links(s, c),
         Len(s) > 0, Len(t) = Len(s), Agree(s, t, Len(s) - 1),
         s[Len(s)].running = FALSE,
         t[Len(s)].running = TRUE, t[Len(s)].previous = c,
         NEW d, d = IF IsMethod(t[Len(s)]) THEN Len(s) ELSE c
  PROVE  Shape(t, d) /\ Links(t, d)
<1>1. Len(s) \in Nat /\ Len(s) - 1 \in Nat /\ c \in Nat /\ d \in Nat BY DEF Shape
<1>2. \A i \in 1..Len(s) : i = Len(s) \/ (i \in 1..(Len(s) - 1) /\ t[i] = s[i])
  BY <1>1 DEF Agree
<1>3. Shape(t, d) BY <1>1, <1>2 DEF Shape
<1>4. ~IsMethod(s[Len(s)]) BY DEF IsMethod
<1>5. Innermost(s, c, Len(s)) /\ c # Len(s) BY <1>1, <1>4 DEF Links, Innermost
<1>6. Innermost(s, c, Len(s) - 1) BY <1>1, <1>5 DEF Innermost
<1>7. Innermost(t, c, Len(s) - 1) BY <1>1, <1>6, InnermostAgrees
<1>8. Innermost(t, d, Len(s)) BY <1>1, <1>7 DEF Innermost
<1>9. \A i \in 1..(Len(s) - 1) : IsMethod(t[i]) => Innermost(t, t[i].previous, i - 1)
  BY <1>1, LinksAgree
<1> QED BY <1>1, <1>2, <1>3, <1>7, <1>8, <1>9 DEF Links

-----------------------------------------------------------------------------
(***************************************************************************)
(* The steps of EnactDispatch.                                             *)
(***************************************************************************)
LEMMA FramesGrow ==
  ASSUME NEW C, NEW v, NEW s \in Seq(Frames(C))
  PROVE  s \in Seq(Frames(C \cup {v}))
<1>1. Frames(C) \subseteq Frames(C \cup {v}) BY DEF Frames
<1> QED BY <1>1, SeqMonotonic

LEMMA PushKeeps ==
  ASSUME ContextInv, NEW f, NEW v, f \in Frames({v}), f.running = FALSE, f.previous = 0,
         frames' = Append(frames, f), context' = context
  PROVE  ContextInv'
<1>1. PICK C : frames \in Seq(Frames(C)) BY DEF ContextInv, IsStack
<1>2. frames \in Seq(Frames(C \cup {v})) BY <1>1, FramesGrow
<1>3. f \in Frames(C \cup {v}) BY DEF Frames
<1>4. frames' \in Seq(Frames(C \cup {v})) BY <1>2, <1>3
<1>5. /\ Len(frames') = Len(frames) + 1
      /\ frames'[Len(frames')] = f
      /\ \A i \in 1..Len(frames) : frames'[i] = frames[i]
  BY <1>2, <1>3
<1>6. Agree(frames, frames', Len(frames)) BY <1>5 DEF Agree
<1>7. Shape(frames', context) /\ Links(frames', context)
  BY <1>5, <1>6, PushLinks DEF ContextInv
<1> QED BY <1>4, <1>7 DEF ContextInv, IsStack

LEMMA PopKeeps ==
  ASSUME ContextInv, frames # <<>>, Pop, Restore
  PROVE  ContextInv'
<1>1. PICK C : frames \in Seq(Frames(C)) BY DEF ContextInv, IsStack
<1>2. Len(frames) \in Nat /\ Len(frames) > 0 BY <1>1
<1>3. /\ frames' \in Seq(Frames(C))
      /\ Len(frames') = Len(frames) - 1
      /\ \A i \in 1..Len(frames') : frames'[i] = frames[i]
  <2>1. frames' = SubSeq(frames, 1, Len(frames) - 1) BY DEF Pop
  <2>2. 1 \in 1..(Len(frames) + 1) /\ Len(frames) - 1 \in 0..Len(frames) BY <1>2
  <2> DEFINE n == Len(frames) - 1
  <2>3. /\ SubSeq(frames, 1, n) \in Seq(Frames(C))
        /\ Len(SubSeq(frames, 1, n)) = IF 1 <= n THEN n - 1 + 1 ELSE 0
        /\ \A i \in 1..(n - 1 + 1) : SubSeq(frames, 1, n)[i] = frames[1 + i - 1]
    BY <1>1, <2>2, SubSeqProperties
  <2>4. Len(SubSeq(frames, 1, n)) = n
    <3>1. n \in Nat BY <1>2
    <3> HIDE DEF n
    <3> QED BY <2>3, <3>1
  <2>5. \A i \in 1..n : SubSeq(frames, 1, n)[i] = frames[i]
    <3>1. n \in Nat BY <1>2
    <3> HIDE DEF n
    <3>2. \A i \in 1..n : i \in 1..(n - 1 + 1) /\ 1 + i - 1 = i BY <3>1
    <3> QED BY <2>3, <3>2
  <2> QED BY <2>1, <2>3, <2>4, <2>5
<1>4. Agree(frames, frames', Len(frames')) BY <1>3 DEF Agree
<1>5. context' = IF IsMethod(frames[Len(frames)]) THEN frames[Len(frames)].previous ELSE context
  BY DEF Restore, Top
<1>6. Shape(frames', context') /\ Links(frames', context')
  BY <1>2, <1>3, <1>4, <1>5, PopLinks DEF ContextInv
<1> QED BY <1>3, <1>6 DEF ContextInv, IsStack

LEMMA EnterKeeps ==
  ASSUME ContextInv, Enter
  PROVE  ContextInv'
<1>1. PICK C : frames \in Seq(Frames(C)) BY DEF ContextInv, IsStack
<1> DEFINE f == [Top EXCEPT !.running = TRUE, !.previous = context]
           n == Len(frames)
<1>2. n \in Nat /\ n > 0 /\ n \in 1..n /\ context \in Nat
  BY <1>1 DEF Enter, Pending, ContextInv, Shape
<1>3. Top \in Frames(C) BY <1>1, <1>2 DEF Top
<1>4. frames[n].running = FALSE
  BY <1>3 DEF Enter, Pending, Top, Frames
<1>5. f \in Frames(C) /\ f.running = TRUE /\ f.previous = context
  BY <1>2, <1>3 DEF Frames
<1>6. frames' = [frames EXCEPT ![n] = f] BY DEF Enter
<1>7. context' = IF IsMethod(f) THEN n ELSE context
  BY <1>3 DEF Enter, IsMethod, Frames
<1> HIDE DEF f
<1>8. /\ frames' \in Seq(Frames(C)) /\ Len(frames') = n /\ frames'[n] = f
      /\ \A i \in 1..(n - 1) : frames'[i] = frames[i]
  BY <1>1, <1>2, <1>5, <1>6
<1>9. Agree(frames, frames', n - 1) BY <1>8 DEF Agree
<1>10. Shape(frames', context') /\ Links(frames', context')
  BY <1>2, <1>4, <1>5, <1>7, <1>8, <1>9, EnterLinks DEF ContextInv
<1> QED BY <1>8, <1>10 DEF ContextInv, IsStack

LEMMA InitContext == DispatchInit => ContextInv
<1> SUFFICES ASSUME DispatchInit PROVE ContextInv OBVIOUS
<1>1. frames = <<>> /\ context = 0 BY DEF DispatchInit
<1>2. Len(frames) = 0 /\ frames \in Seq(Frames({})) BY <1>1
<1> QED BY <1>1, <1>2 DEF ContextInv, IsStack, Shape, Links, Innermost

LEMMA SameKeeps ==
  ASSUME ContextInv, frames' = frames, context' = context
  PROVE  ContextInv'
BY DEF ContextInv, IsStack, Shape, Links, Innermost, IsMethod

LEMMA CallKeeps ==
  ASSUME ContextInv, NEW v, NEW k \in 0..2, NEW how \in {"dot", "super", "value"},
         Call(v, k, how)
  PROVE  ContextInv'
<1>1. CASE IsFailure(v) \/ ArityError(v, k)
  BY <1>1, SameKeeps DEF Call, Raise
<1>2. CASE ~IsFailure(v) /\ ~ArityError(v, k)
  <2> DEFINE f == [callee |-> v, args |-> k, how |-> how, running |-> FALSE, previous |-> 0]
  <2>1. frames' = Append(frames, f) /\ context' = context BY <1>2 DEF Call
  <2>2. f \in Frames({v}) /\ f.running = FALSE /\ f.previous = 0 BY DEF Frames
  <2> HIDE DEF f
  <2> QED BY <2>1, <2>2, PushKeeps
<1> QED BY <1>1, <1>2

LEMMA ExtendKeeps ==
  ASSUME ContextInv, Extend
  PROVE  ContextInv'
<1>1. frames # <<>> /\ ~IsMethod(Top) BY DEF Extend, Pending, IsMethod
<1>2. Pop /\ Restore BY <1>1 DEF Extend, Restore
<1> QED BY <1>1, <1>2, PopKeeps

LEMMA NextContext == ContextInv /\ [DispatchNext]_dispatchVars => ContextInv'
<1> SUFFICES ASSUME ContextInv, [DispatchNext]_dispatchVars PROVE ContextInv' OBVIOUS
<1>1. CASE ReadAttribute \/ ReadSuper
  BY <1>1, SameKeeps DEF ReadAttribute, ReadSuper, Result, Raise
<1>2. CASE DotCall \/ SuperCall \/ CallMade
  BY <1>2, CallKeeps DEF DotCall, SuperCall, CallMade
<1>3. CASE Extend BY <1>3, ExtendKeeps
<1>4. CASE Enter BY <1>4, EnterKeeps
<1>5. CASE Return \/ Unwind
  BY <1>5, PopKeeps DEF Return, Unwind, Running
<1>6. CASE Report \/ Fail
  BY <1>6, SameKeeps DEF Report, Fail, Raise
<1>7. CASE \/ \E c \in Classes : NewObject(c)
           \/ \E o \in Objects, n \in Name, v \in made : SetAttribute(o, n, v)
           \/ \E c \in Classes, n \in Name : SetMethod(c, n)
  BY <1>7, SameKeeps DEF NewObject, SetAttribute, SetMethod
<1>8. CASE UNCHANGED dispatchVars
  BY <1>8, SameKeeps DEF dispatchVars
<1> QED BY <1>1, <1>2, <1>3, <1>4, <1>5, <1>6, <1>7, <1>8 DEF DispatchNext

-----------------------------------------------------------------------------
\* The stack and the context fit together in every state.
THEOREM ContextInvariant == DispatchSpec => []ContextInv
BY InitContext, NextContext, PTL DEF DispatchSpec

(***************************************************************************)
(* current_method_context points to the innermost method that is being     *)
(* evaluated, and to nothing else: it never outlives its C frame, whatever *)
(* returns, fails or is partially applied (enact_eval_apply_method).       *)
(***************************************************************************)
THEOREM ContextIsInnermost == DispatchSpec => []ContextInnermost
<1>1. ContextInv => ContextInnermost
  <2> SUFFICES ASSUME ContextInv PROVE ContextInnermost OBVIOUS
  <2>1. PICK C : frames \in Seq(Frames(C)) BY DEF ContextInv, IsStack
  <2>2. DOMAIN frames = 1..Len(frames) BY <2>1
  <2> QED BY <2>2 DEF ContextInv, Links, Innermost, ContextInnermost, InnermostIs
<1> QED BY <1>1, ContextInvariant, PTL

-----------------------------------------------------------------------------
(***************************************************************************)
(* Arguments.  A callable is complete if it has taken fewer arguments than *)
(* it has parameters, or none; of the receivers and suppliers nothing is   *)
(* assumed.                                                                *)
(***************************************************************************)
Complete(v) ==
  /\ \E R, S : v \in [kind : {"method", "function", "native"}, receiver : R,
                      supplier : S, name : Name, captured : Nat]
  /\ v.captured <= Arity[v.name]
  /\ v.captured = Arity[v.name] => v.captured = 0

Counted(f) ==
  /\ Complete(f.callee)
  /\ f.callee.captured + f.args <= Arity[f.callee.name]
  /\ f.running => f.callee.captured + f.args = Arity[f.callee.name]

AttributesMade ==
  /\ \E K, A : objects \in Seq([class : K, attributes : A])
  /\ \A o \in Objects : \A n \in DOMAIN objects[o].attributes :
       objects[o].attributes[n] \in made

(***************************************************************************)
(* The inductive invariant of the arguments: what attributes hold has been *)
(* made before, and so is complete when it is called.                      *)
(***************************************************************************)
ArgumentsInv ==
  /\ ContextInv
  /\ AttributesMade
  /\ \A v \in made : Complete(v)
  /\ \A i \in 1..Len(frames) : Counted(frames[i])

LEMMA NewIsComplete ==
  ASSUME NEW k \in {"method", "function", "native"}, NEW o, NEW c, NEW n \in Name
  PROVE  Complete(Value(k, o, c, n))
<1> DEFINE v == Value(k, o, c, n)
<1>1. v \in [kind : {"method", "function", "native"}, receiver : {o},
             supplier : {c}, name : Name, captured : Nat]
  BY DEF Value
<1>2. v.captured = 0 /\ v.name = n BY DEF Value
<1>3. Arity[n] \in Nat BY DispatchAssumption
<1> HIDE DEF v
<1>4. \E R, S : v \in [kind : {"method", "function", "native"}, receiver : R,
                      supplier : S, name : Name, captured : Nat]
  BY <1>1, Zenon
<1>5. v.captured <= Arity[v.name] BY <1>2, <1>3
<1>6. Complete(v) BY <1>2, <1>4, <1>5 DEF Complete
<1> QED BY <1>6 DEF v

\* The outcome of a name resolution.
Resolved(v) ==
  \/ Complete(v)
  \/ v = Failure("OTHER")

LEMMA CompleteIsNoFailure ==
  ASSUME NEW v, Complete(v)
  PROVE  ~IsFailure(v)
BY DEF Complete, IsFailure, Errors

LEMMA ClassSuppliesResolved ==
  ASSUME NEW o, NEW n \in Name
  PROVE  Resolved(ClassSupplies(o, n))
BY NewIsComplete DEF ClassSupplies, Method, Resolved

LEMMA ResolveResolved ==
  ASSUME ArgumentsInv, NEW o \in Objects, NEW n \in Name
  PROVE  Resolved(Resolve(o, n))
BY ClassSuppliesResolved DEF Resolve, Resolved, ArgumentsInv, AttributesMade

LEMMA ResolveSuperResolved ==
  ASSUME NEW n \in Name
  PROVE  IF context = 0 THEN ResolveSuper(n) = Failure("INVALID_SUPER_CONTEXT")
                        ELSE Resolved(ResolveSuper(n))
<1>1. CASE context = 0 BY <1>1 DEF ResolveSuper
<1>2. CASE context # 0
  <2> DEFINE active == frames[context].callee
             found == LookupSuper(objects[active.receiver].class, active.supplier, n)
  <2>1. Resolved(Method(active.receiver, found.supplier, n))
    BY NewIsComplete DEF Method, Resolved
  <2>2. ResolveSuper(n) = IF ~found.consistent THEN Failure("OTHER")
                          ELSE IF found.supplier = None THEN Failure("OTHER")
                          ELSE Method(active.receiver, found.supplier, n)
    BY <1>2 DEF ResolveSuper
  <2> HIDE DEF active, found
  <2> QED BY <1>2, <2>1, <2>2 DEF Resolved
<1> QED BY <1>1, <1>2

\* Step by step: attributes that hold what has been made before.
LEMMA SameAttributes ==
  ASSUME AttributesMade, objects' = objects, made \subseteq made'
  PROVE  AttributesMade'
BY DEF AttributesMade, Objects

LEMMA SetAttributeKeeps ==
  ASSUME AttributesMade, NEW o \in Objects, NEW n \in Name, NEW v \in made,
         SetAttribute(o, n, v)
  PROVE  AttributesMade'
<1>1. PICK K, A : objects \in Seq([class : K, attributes : A]) BY DEF AttributesMade
<1> DEFINE old == objects[o].attributes
           new == [m \in DOMAIN old \cup {n} |-> IF m = n THEN v ELSE old[m]]
<1>2. objects' = [objects EXCEPT ![o].attributes = new] /\ made' = made
  BY DEF SetAttribute
<1>3. \A m \in DOMAIN new : new[m] \in made
  <2>1. \A m \in DOMAIN old : old[m] \in made BY DEF AttributesMade
  <2> HIDE DEF old
  <2> QED BY <2>1
<1> HIDE DEF new
<1>4. objects \in Seq([class : K, attributes : A \cup {new}])
  <2>1. [class : K, attributes : A] \subseteq [class : K, attributes : A \cup {new}] OBVIOUS
  <2> QED BY <1>1, <2>1, SeqMonotonic
<1>5. \A p \in 1..Len(objects) : objects[p] \in [class : K, attributes : A \cup {new}]
  <2> DEFINE R == [class : K, attributes : A \cup {new}]
  <2>1. objects \in Seq(R) BY <1>4
  <2> HIDE DEF R
  <2>2. \A p \in 1..Len(objects) : objects[p] \in R BY <2>1
  <2> QED BY <2>2 DEF R
<1>6. o \in 1..Len(objects) BY DEF Objects
<1>7. [objects[o] EXCEPT !.attributes = new] \in [class : K, attributes : A \cup {new}]
  BY <1>5, <1>6
<1>8. /\ objects' \in Seq([class : K, attributes : A \cup {new}])
      /\ Len(objects') = Len(objects)
      /\ \A p \in 1..Len(objects) :
           objects'[p].attributes = IF p = o THEN new ELSE objects[p].attributes
  <2> DEFINE x == [objects[o] EXCEPT !.attributes = new]
  <2>1. objects' = [objects EXCEPT ![o] = x] BY <1>2
  <2>2. x.attributes = new
    <3>1. objects[o] \in [class : K, attributes : A \cup {new}] BY <1>5, <1>6
    <3> QED BY <3>1
  <2> HIDE DEF x
  <2> QED BY <1>4, <1>6, <1>7, <2>1, <2>2 DEF x
<1>9. \A p \in Objects' : \A m \in DOMAIN objects'[p].attributes : objects'[p].attributes[m] \in made'
  BY <1>2, <1>3, <1>8 DEF AttributesMade, Objects
<1> QED BY <1>8, <1>9 DEF AttributesMade

LEMMA NewObjectKeeps ==
  ASSUME AttributesMade, NEW c, NewObject(c)
  PROVE  AttributesMade'
<1>1. PICK K, A : objects \in Seq([class : K, attributes : A]) BY DEF AttributesMade
<1> DEFINE x == [class |-> c, attributes |-> <<>>]
           R == [class : K \cup {c}, attributes : A \cup {<<>>}]
<1>2. objects' = Append(objects, x) /\ made' = made BY DEF NewObject
<1>3. x \in R OBVIOUS
<1>4. objects \in Seq(R)
  <2>1. [class : K, attributes : A] \subseteq R OBVIOUS
  <2> QED BY <1>1, <2>1, SeqMonotonic
<1>5. x.attributes = <<>> OBVIOUS
<1>6. \E K2, A2 : objects' \in Seq([class : K2, attributes : A2])
  <2>1. objects' \in Seq(R)
    <3> HIDE DEF R, x
    <3> QED BY <1>2, <1>3, <1>4
  <2> QED BY <2>1
<1> HIDE DEF R, x
<1>7. /\ Len(objects) \in Nat /\ Len(objects') = Len(objects) + 1
      /\ objects'[Len(objects) + 1] = x
      /\ \A p \in 1..Len(objects) : objects'[p] = objects[p]
  BY <1>2, <1>3, <1>4
<1>8. DOMAIN <<>> = {} OBVIOUS
<1>9. ASSUME NEW p \in Objects', NEW m \in DOMAIN objects'[p].attributes
      PROVE  objects'[p].attributes[m] \in made'
  <2>1. p \in 1..Len(objects) \/ p = Len(objects) + 1 BY <1>7 DEF Objects
  <2>2. p # Len(objects) + 1 BY <1>5, <1>7, <1>8, <1>9
  <2> QED BY <1>2, <1>7, <1>9, <2>1, <2>2 DEF AttributesMade, Objects
<1> QED BY <1>6, <1>9 DEF AttributesMade

-----------------------------------------------------------------------------
(***************************************************************************)
(* The steps of EnactDispatch keep the invariant of the arguments.         *)
(***************************************************************************)

\* No call is put on the stack: what is made may be something complete.
LEMMA StillCounted ==
  ASSUME ArgumentsInv, ContextInv', AttributesMade',
         \A v \in made' : v \in made \/ Complete(v),
         \A i \in 1..Len(frames)' : i \in 1..Len(frames) /\ frames'[i] = frames[i]
  PROVE  ArgumentsInv'
<1>1. \A v \in made' : Complete(v) BY DEF ArgumentsInv
<1>2. \A i \in 1..Len(frames') : Counted(frames'[i]) BY DEF ArgumentsInv
<1> QED BY <1>1, <1>2 DEF ArgumentsInv, Complete, Counted

LEMMA ResultKeeps ==
  ASSUME ArgumentsInv, ContextInv', NEW v, Complete(v) \/ IsFailure(v), Result(v)
  PROVE  ArgumentsInv'
<1>1. frames' = frames /\ objects' = objects BY DEF Result, Raise
<1>2. made \subseteq made' /\ \A w \in made' : w \in made \/ Complete(w)
  BY DEF Result, Raise, Keep
<1>3. AttributesMade' BY <1>1, <1>2, SameAttributes DEF ArgumentsInv
<1> QED BY <1>1, <1>2, <1>3, StillCounted

LEMMA CallCounted ==
  ASSUME ArgumentsInv, ContextInv', NEW v, Complete(v) \/ IsFailure(v),
         NEW k \in 0..2, NEW how, Call(v, k, how)
  PROVE  ArgumentsInv'
<1>1. objects' = objects /\ made' = made BY DEF Call, Raise
<1>2. AttributesMade' BY <1>1, SameAttributes DEF ArgumentsInv
<1>3. CASE IsFailure(v) \/ ArityError(v, k)
  <2>1. frames' = frames BY <1>3 DEF Call, Raise
  <2> QED BY <1>1, <1>2, <2>1, StillCounted
<1>4. CASE ~IsFailure(v) /\ ~ArityError(v, k)
  <2> DEFINE f == [callee |-> v, args |-> k, how |-> how, running |-> FALSE, previous |-> 0]
  <2>1. frames' = Append(frames, f) BY <1>4 DEF Call
  <2>2. Complete(v) BY <1>4
  <2>3. /\ v.captured \in Nat /\ v.name \in Name /\ Arity[v.name] \in Nat
        /\ ~(k > Arity[v.name] - v.captured)
    BY <1>4, <2>2, DispatchAssumption DEF Complete, ArityError
  <2>4. v.captured + k <= Arity[v.name] BY <2>3
  <2>5. Counted(f) BY <2>2, <2>4 DEF Counted
  <2>6. PICK C : frames \in Seq(Frames(C)) BY DEF ArgumentsInv, ContextInv, IsStack
  <2> HIDE DEF f
  <2>7. /\ Len(frames) \in Nat /\ Len(frames') = Len(frames) + 1
        /\ frames'[Len(frames) + 1] = f
        /\ \A i \in 1..Len(frames) : frames'[i] = frames[i]
    <3>1. frames \in Seq(Frames(C) \cup {f}) BY <2>6, SeqMonotonic
    <3> QED BY <2>1, <3>1
  <2>8. \A i \in 1..Len(frames') : Counted(frames'[i])
    <3>1. \A i \in 1..Len(frames') : i \in 1..Len(frames) \/ i = Len(frames) + 1 BY <2>7
    <3> QED BY <2>5, <2>7, <3>1 DEF ArgumentsInv
  <2> QED BY <1>1, <1>2, <2>8 DEF ArgumentsInv, Complete, Counted
<1> QED BY <1>3, <1>4

\* What Pop leaves on the stack.
LEMMA Popped ==
  ASSUME ContextInv, frames # <<>>, Pop
  PROVE  /\ Len(frames) \in Nat /\ Len(frames) \in 1..Len(frames) /\ Top = frames[Len(frames)]
         /\ \A i \in 1..Len(frames)' : i \in 1..Len(frames) /\ frames'[i] = frames[i]
<1>1. PICK C : frames \in Seq(Frames(C)) BY DEF ContextInv, IsStack
<1>2. Len(frames) \in Nat /\ Len(frames) > 0 BY <1>1
<1> DEFINE n == Len(frames) - 1
<1>3. n \in Nat /\ 1 \in Int BY <1>2
<1>4. \A i \in 1..n : frames[i] \in Frames(C) BY <1>1, <1>2
<1>5. /\ Len(SubSeq(frames, 1, n)) = IF 1 <= n THEN n - 1 + 1 ELSE 0
      /\ \A i \in 1..(n - 1 + 1) : SubSeq(frames, 1, n)[i] = frames[1 + i - 1]
  BY <1>3, <1>4, SubSeqProperties
<1>6. frames' = SubSeq(frames, 1, n) BY DEF Pop
<1> HIDE DEF n
<1>7. Len(frames') = n BY <1>3, <1>5, <1>6
<1>8. \A i \in 1..n : i \in 1..(n - 1 + 1) /\ 1 + i - 1 = i BY <1>3
<1>9. \A i \in 1..n : frames'[i] = frames[i] BY <1>5, <1>6, <1>8
<1> QED BY <1>2, <1>7, <1>9 DEF n, Top

LEMMA ExtendCounted ==
  ASSUME ArgumentsInv, ContextInv', Extend
  PROVE  ArgumentsInv'
<1>1. frames # <<>> /\ Pop BY DEF Extend, Pending
<1>2. /\ Len(frames) \in 1..Len(frames) /\ Top = frames[Len(frames)]
      /\ \A i \in 1..Len(frames)' : i \in 1..Len(frames) /\ frames'[i] = frames[i]
  BY <1>1, Popped DEF ArgumentsInv
<1> DEFINE v == Top.callee
           w == [v EXCEPT !.captured = @ + Top.args]
<1>3. Complete(v) BY <1>2 DEF ArgumentsInv, Counted
<1>4. Top.args \in Nat
  <2>1. PICK C : frames \in Seq(Frames(C)) BY DEF ArgumentsInv, ContextInv, IsStack
  <2>2. Top \in Frames(C) BY <1>2, <2>1
  <2> QED BY <2>2 DEF Frames
<1>5. v.captured + Top.args < Arity[v.name] BY DEF Extend
<1>6. Complete(w)
  <2>1. PICK R, S : v \in [kind : {"method", "function", "native"}, receiver : R,
                           supplier : S, name : Name, captured : Nat]
    BY <1>3 DEF Complete
  <2>2. /\ w \in [kind : {"method", "function", "native"}, receiver : R,
                  supplier : S, name : Name, captured : Nat]
        /\ w.captured = v.captured + Top.args /\ w.name = v.name
    BY <1>4, <2>1
  <2>3. w.captured < Arity[w.name] BY <1>5, <2>2
  <2>4. Arity[w.name] \in Nat /\ w.captured \in Nat BY <2>2, DispatchAssumption
  <2> HIDE DEF w
  <2>5. w.captured <= Arity[w.name] /\ w.captured # Arity[w.name] BY <2>3, <2>4
  <2>6. \E R2, S2 : w \in [kind : {"method", "function", "native"}, receiver : R2,
                           supplier : S2, name : Name, captured : Nat]
    BY <2>2, Zenon
  <2> QED BY <2>5, <2>6 DEF Complete
<1>7. made' = made \cup {w} /\ objects' = objects BY DEF Extend, Keep
<1>8. AttributesMade' BY <1>7, SameAttributes DEF ArgumentsInv
<1> HIDE DEF w
<1> QED BY <1>2, <1>6, <1>7, <1>8, StillCounted

LEMMA EnterCounted ==
  ASSUME ArgumentsInv, ContextInv', Enter
  PROVE  ArgumentsInv'
<1>1. PICK C : frames \in Seq(Frames(C)) BY DEF ArgumentsInv, ContextInv, IsStack
<1> DEFINE f == [Top EXCEPT !.running = TRUE, !.previous = context]
           n == Len(frames)
<1>2. n \in Nat /\ n \in 1..n BY <1>1 DEF Enter, Pending
<1>3. Top \in Frames(C) /\ Top = frames[n] BY <1>1, <1>2 DEF Top
<1>4. Counted(Top) BY <1>2, <1>3 DEF ArgumentsInv
<1>5. f.callee = Top.callee /\ f.args = Top.args /\ f.args \in Nat
  BY <1>3 DEF Frames
<1>6. Top.callee.captured + Top.args >= Arity[Top.callee.name] BY DEF Enter
<1>7. Top.callee.captured \in Nat /\ Arity[Top.callee.name] \in Nat
  BY <1>4, DispatchAssumption DEF Counted, Complete
<1>8. frames' = [frames EXCEPT ![n] = f] /\ made' = made /\ objects' = objects
  BY DEF Enter
<1> HIDE DEF f
<1>9. f.callee.captured + f.args = Arity[f.callee.name]
  BY <1>4, <1>5, <1>6, <1>7 DEF Counted
<1>10. Counted(f) BY <1>4, <1>5, <1>9 DEF Counted
<1>11. /\ Len(frames') = n
       /\ \A i \in 1..n : frames'[i] = IF i = n THEN f ELSE frames[i]
  BY <1>1, <1>2, <1>8
<1>12. \A i \in 1..Len(frames') : Counted(frames'[i]) BY <1>10, <1>11 DEF ArgumentsInv
<1>13. AttributesMade' BY <1>8, SameAttributes DEF ArgumentsInv
<1> QED BY <1>8, <1>12, <1>13 DEF ArgumentsInv, Complete, Counted

LEMMA InitArguments == DispatchInit => ArgumentsInv
<1> SUFFICES ASSUME DispatchInit PROVE ArgumentsInv OBVIOUS
<1>1. ContextInv BY InitContext
<1>2. objects = <<>> /\ frames = <<>> /\ made = {Function(n) : n \in Name}
  BY DEF DispatchInit
<1>3. Len(objects) = 0 /\ Len(frames) = 0 /\ objects \in Seq([class : {}, attributes : {}])
  BY <1>2
<1>4. \A v \in made : Complete(v) BY <1>2, NewIsComplete DEF Function
<1>5. AttributesMade BY <1>3 DEF AttributesMade, Objects
<1> QED BY <1>1, <1>3, <1>4, <1>5 DEF ArgumentsInv

LEMMA NextArguments == ArgumentsInv /\ [DispatchNext]_dispatchVars => ArgumentsInv'
<1> SUFFICES ASSUME ArgumentsInv, [DispatchNext]_dispatchVars PROVE ArgumentsInv' OBVIOUS
<1>1. ContextInv' BY NextContext DEF ArgumentsInv
<1>2. \A v : Resolved(v) => Complete(v) \/ IsFailure(v)
  BY DEF Resolved, Failure, IsFailure, Errors
<1>3. \A n \in Name : Complete(ResolveSuper(n)) \/ IsFailure(ResolveSuper(n))
  BY <1>2, ResolveSuperResolved DEF Failure, IsFailure, Errors
<1>4. \A o \in Objects, n \in Name : Complete(Resolve(o, n)) \/ IsFailure(Resolve(o, n))
  BY <1>2, ResolveResolved
<1>5. CASE ReadAttribute \/ ReadSuper
  BY <1>1, <1>3, <1>4, <1>5, ResultKeeps DEF ReadAttribute, ReadSuper
<1>6. CASE DotCall \/ SuperCall
  BY <1>1, <1>3, <1>4, <1>6, CallCounted DEF DotCall, SuperCall
<1>7. CASE CallMade
  BY <1>1, <1>7, CallCounted DEF CallMade, ArgumentsInv
<1>8. CASE Extend BY <1>1, <1>8, ExtendCounted
<1>9. CASE Enter BY <1>1, <1>9, EnterCounted
<1>10. CASE Return \/ Unwind
  <2>1. frames # <<>> /\ Pop /\ made' = made /\ objects' = objects
    BY <1>10 DEF Return, Unwind, Running
  <2>2. AttributesMade' BY <2>1, SameAttributes DEF ArgumentsInv
  <2>3. \A i \in 1..Len(frames)' : i \in 1..Len(frames) /\ frames'[i] = frames[i]
    BY <2>1, Popped DEF ArgumentsInv
  <2> QED BY <1>1, <2>1, <2>2, <2>3, StillCounted
<1>11. CASE \E o \in Objects, n \in Name, v \in made : SetAttribute(o, n, v)
  <2>1. AttributesMade' BY <1>11, SetAttributeKeeps DEF ArgumentsInv
  <2>2. frames' = frames /\ made' = made BY <1>11 DEF SetAttribute
  <2> QED BY <1>1, <2>1, <2>2, StillCounted
<1>12. CASE \E c \in Classes : NewObject(c)
  <2>1. AttributesMade' BY <1>12, NewObjectKeeps DEF ArgumentsInv
  <2>2. frames' = frames /\ made' = made BY <1>12 DEF NewObject
  <2> QED BY <1>1, <2>1, <2>2, StillCounted
<1>13. CASE \/ Report \/ Fail \/ UNCHANGED dispatchVars
            \/ \E c \in Classes, n \in Name : SetMethod(c, n)
  <2>1. frames' = frames /\ made' = made /\ objects' = objects
    BY <1>13 DEF Report, Fail, Raise, SetMethod, dispatchVars
  <2>2. AttributesMade' BY <2>1, SameAttributes DEF ArgumentsInv
  <2> QED BY <1>1, <2>1, <2>2, StillCounted
<1> QED BY <1>5, <1>6, <1>7, <1>8, <1>9, <1>10, <1>11, <1>12, <1>13 DEF DispatchNext

THEOREM ArgumentsInvariant == DispatchSpec => []ArgumentsInv
BY InitArguments, NextArguments, PTL DEF DispatchSpec

(***************************************************************************)
(* Partial application counts exactly: no body starts with an argument too *)
(* few or too many, however the arguments are spread over calls            *)
(* (enact_eval_check_callable_arity, enact_eval_apply_callable_in_env).    *)
(***************************************************************************)
THEOREM PartialExact == DispatchSpec => []ArgumentsComplete
<1>1. ArgumentsInv => ArgumentsComplete
  <2> SUFFICES ASSUME ArgumentsInv PROVE ArgumentsComplete OBVIOUS
  <2>1. PICK C : frames \in Seq(Frames(C)) BY DEF ArgumentsInv, ContextInv, IsStack
  <2>2. DOMAIN frames = 1..Len(frames) BY <2>1
  <2>3. \A v \in Alive : Complete(v) BY <2>2 DEF ArgumentsInv, Counted, Alive
  <2> QED BY <2>2, <2>3 DEF ArgumentsInv, Counted, Complete, ArgumentsComplete
<1> QED BY <1>1, ArgumentsInvariant, PTL

(***************************************************************************)
(* super is refused for want of a method only where no method is being     *)
(* evaluated, at any depth (enact_eval_make_super_bound_method).           *)
(***************************************************************************)
THEOREM SuperRefusal == DispatchSpec => SuperRefusedOutside
<1>1. ASSUME ArgumentsInv, [DispatchNext]_dispatchVars,
             error' = "INVALID_SUPER_CONTEXT", Evaluating
      PROVE  context = 0
  <2>1. \A v : Resolved(v) => ~IsFailure(v) \/ v.kind # "INVALID_SUPER_CONTEXT"
    BY CompleteIsNoFailure DEF Resolved, Failure
  <2>2. \A o \in Objects, n \in Name :
          LET v == Resolve(o, n) IN ~IsFailure(v) \/ v.kind # "INVALID_SUPER_CONTEXT"
    BY <1>1, <2>1, ResolveResolved
  <2>3. context # 0 => \A n \in Name :
          LET v == ResolveSuper(n) IN ~IsFailure(v) \/ v.kind # "INVALID_SUPER_CONTEXT"
    BY <2>1, ResolveSuperResolved
  <2>4. \A v \in made : ~IsFailure(v) BY <1>1, CompleteIsNoFailure DEF ArgumentsInv
  <2>5. error # error' BY <1>1 DEF Evaluating, NoError
  <2>6. CASE ReadAttribute \/ DotCall
    BY <1>1, <2>2, <2>5, <2>6 DEF ReadAttribute, DotCall, Result, Call, Raise
  <2>7. CASE ReadSuper \/ SuperCall
    BY <1>1, <2>3, <2>5, <2>7 DEF ReadSuper, SuperCall, Result, Call, Raise
  <2>8. CASE CallMade
    BY <1>1, <2>4, <2>5, <2>8 DEF CallMade, Call, Raise
  <2>9. CASE Extend \/ Enter \/ Return \/ Unwind \/ Report \/ Fail
    BY <1>1, <2>5, <2>9 DEF Extend, Enter, Return, Unwind, Report, Fail, Raise, NoError
  <2>10. CASE \/ \E c \in Classes : NewObject(c)
              \/ \E o \in Objects, n \in Name, v \in made : SetAttribute(o, n, v)
              \/ \E c \in Classes, n \in Name : SetMethod(c, n)
              \/ UNCHANGED dispatchVars
    BY <2>5, <2>10 DEF NewObject, SetAttribute, SetMethod, dispatchVars
  <2> QED BY <1>1, <2>6, <2>7, <2>8, <2>9, <2>10 DEF DispatchNext
<1>2. ASSUME ArgumentsInv, context = 0
      PROVE  \A i \in DOMAIN frames : ~IsMethod(frames[i])
  <2>1. PICK C : frames \in Seq(Frames(C)) BY <1>2 DEF ArgumentsInv, ContextInv, IsStack
  <2>2. DOMAIN frames = 1..Len(frames) /\ Len(frames) \in Nat BY <2>1
  <2> QED BY <1>2, <2>2 DEF ArgumentsInv, ContextInv, Links, Innermost
<1> QED BY <1>1, <1>2, ArgumentsInvariant, PTL DEF DispatchSpec, SuperRefusedOutside

-----------------------------------------------------------------------------
(***************************************************************************)
(* Bound methods.  Inherits says of a callable, in a hierarchy h with the  *)
(* objects w and the methods m, that a method is one that its receiver     *)
(* inherits; Advances of a call of the stack that super has gone on.       *)
(***************************************************************************)
OrderOf(v, h, w) == LinearizationIn(h)[w[v.receiver].class].order

Inherits(v, h, w, m) ==
  v.kind = "method" =>
    /\ v.receiver \in 1..Len(w)
    /\ v.supplier \in ClassesOf(OrderOf(v, h, w))
    /\ v.name \in m[v.supplier]

Advances(s, i, h, w) ==
  s[i].how = "super" =>
    /\ s[i].callee.kind = "method"
    /\ \E j \in 1..(i - 1) :
         /\ Innermost(s, j, i - 1)
         /\ s[i].callee.receiver = s[j].callee.receiver
         /\ Position(OrderOf(s[i].callee, h, w), s[j].callee.supplier)
              < Position(OrderOf(s[i].callee, h, w), s[i].callee.supplier)

\* Objects are instances of classes; classes have methods.
WorldInv ==
  /\ IsHierarchy(supers)
  /\ methods \in Seq(SUBSET Name) /\ Len(methods) = Len(supers)
  /\ \A o \in Objects : objects[o].class \in Classes

\* What a step may do to classes and objects that exist.
Grows ==
  /\ supers' = supers
  /\ Len(objects) \in Nat /\ Len(objects') \in Nat /\ Len(objects) <= Len(objects')
  /\ \A o \in Objects : objects'[o].class = objects[o].class
  /\ \A c \in Classes : methods[c] \subseteq methods'[c]

(***************************************************************************)
(* The inductive invariant of bound methods: every one is inherited by its *)
(* receiver, and every super call on the stack is behind its caller.       *)
(***************************************************************************)
HeritageInv ==
  /\ ArgumentsInv
  /\ WorldInv
  /\ \A v \in made : Inherits(v, supers, objects, methods)
  /\ \A i \in 1..Len(frames) :
       /\ Inherits(frames[i].callee, supers, objects, methods)
       /\ Advances(frames, i, supers, objects)

LEMMA ClassOrder ==
  ASSUME WorldInv, NEW o \in Objects
  PROVE  LET l == Linearization[objects[o].class]
         IN /\ l.order \in Seq(Classes)
            /\ l.consistent => Distinct(l.order)
<1> DEFINE c == objects[o].class
<1>1. c \in 1..Len(supers) /\ Len(supers) \in Nat
  BY DEF WorldInv, Classes
<1> HIDE DEF c
<1>2. Ordered(supers, c, Linearization[c])
  BY <1>1, LinearizationOrdered DEF WorldInv, Linearization
<1>3. Linearization[c].order \in Seq(1..c)
  BY <1>2 DEF Ordered
<1>4. 1..c \subseteq Classes
  BY <1>1 DEF Classes
<1>5. Linearization[c].order \in Seq(Classes)
  BY <1>3, <1>4, SeqGrows
<1>6. Linearization[c].consistent => Distinct(Linearization[c].order)
  BY <1>2 DEF Ordered
<1> QED BY <1>5, <1>6 DEF c

\* What is inherited stays so.
LEMMA InheritsStays ==
  ASSUME WorldInv, Grows
  PROVE  \A v : Inherits(v, supers, objects, methods) => Inherits(v, supers', objects', methods')
<1> SUFFICES ASSUME NEW v, Inherits(v, supers, objects, methods), v.kind = "method"
             PROVE  /\ v.receiver \in 1..Len(objects')
                    /\ v.supplier \in ClassesOf(OrderOf(v, supers', objects'))
                    /\ v.name \in methods'[v.supplier]
  BY DEF Inherits
<1>1. /\ v.receiver \in Objects /\ v.supplier \in ClassesOf(OrderOf(v, supers, objects))
      /\ v.name \in methods[v.supplier]
  BY DEF Inherits, Objects
<1>2. v.receiver \in 1..Len(objects') BY <1>1 DEF Grows, Objects
<1>3. OrderOf(v, supers', objects') = OrderOf(v, supers, objects)
  BY <1>1 DEF Grows, OrderOf
<1>4. v.supplier \in Classes
  <2>1. OrderOf(v, supers, objects) \in Seq(Classes)
    BY <1>1, ClassOrder DEF OrderOf, Linearization
  <2>2. ClassesOf(OrderOf(v, supers, objects)) \subseteq Classes BY <2>1 DEF ClassesOf
  <2> QED BY <1>1, <2>2
<1> QED BY <1>1, <1>2, <1>3, <1>4 DEF Grows

LEMMA AdvancesStays ==
  ASSUME Grows, NEW s, NEW t, NEW i \in Nat,
         Advances(s, i, supers, objects), Inherits(s[i].callee, supers, objects, methods),
         \A j \in 1..(i - 1) : t[j] = s[j],
         t[i].callee = s[i].callee, t[i].how = s[i].how
  PROVE  Advances(t, i, supers', objects')
<1> SUFFICES ASSUME t[i].how = "super" PROVE Advances(t, i, supers', objects')
  BY DEF Advances
<1>1. PICK j \in 1..(i - 1) :
        /\ Innermost(s, j, i - 1)
        /\ s[i].callee.receiver = s[j].callee.receiver
        /\ Position(OrderOf(s[i].callee, supers, objects), s[j].callee.supplier)
             < Position(OrderOf(s[i].callee, supers, objects), s[i].callee.supplier)
  BY DEF Advances
<1>2. s[i].callee.kind = "method" /\ s[i].callee.receiver \in Objects
  BY DEF Advances, Inherits, Objects
<1>3. OrderOf(t[i].callee, supers', objects') = OrderOf(s[i].callee, supers, objects)
  BY <1>2 DEF Grows, OrderOf
<1>4. Innermost(t, j, i - 1)
  BY <1>1 DEF Innermost, IsMethod
<1>5. t[j] = s[j] BY <1>1
<1> QED BY <1>1, <1>2, <1>3, <1>4, <1>5 DEF Advances

-----------------------------------------------------------------------------
\* What a name is resolved to is inherited.
LEMMA ClassSuppliesInherited ==
  ASSUME WorldInv, NEW o \in Objects, NEW n
  PROVE  Inherits(ClassSupplies(o, n), supers, objects, methods)
<1> DEFINE order == Linearization[objects[o].class].order
           supplier == FirstSupplier(order, 1, n)
           v == Method(o, supplier, n)
<1>1. order \in Seq(Classes) BY ClassOrder
<1>2. CASE ClassSupplies(o, n) = v /\ supplier # None
  <2> HIDE DEF order
  <2>1. supplier \in ClassesOf(order) /\ n \in methods[supplier]
    <3>1. PICK i \in 1..Len(order) : supplier = order[i] /\ n \in methods[order[i]]
      BY <1>1, <1>2, SupplierFound DEF FirstSupplier
    <3> QED BY <3>1 DEF ClassesOf
  <2>2. v.receiver = o /\ v.supplier = supplier /\ v.name = n BY DEF Method, Value
  <2>3. OrderOf(v, supers, objects) = order BY <2>2 DEF OrderOf, order, Linearization
  <2> HIDE DEF v, supplier
  <2> QED BY <1>2, <2>1, <2>2, <2>3 DEF Inherits, Objects
<1>3. CASE ClassSupplies(o, n).kind # "method" BY <1>3 DEF Inherits
<1>4. \/ ClassSupplies(o, n) = v /\ supplier # None
      \/ ClassSupplies(o, n).kind # "method"
  <2>1. Failure("OTHER").kind # "method" BY DEF Failure
  <2>2. Value("native", o, None, n).kind # "method" BY DEF Value
  <2> HIDE DEF v
  <2> QED BY <2>1, <2>2 DEF ClassSupplies, LookupMethod, v
<1> QED BY <1>2, <1>3, <1>4

LEMMA ResolveInherited ==
  ASSUME HeritageInv, NEW o \in Objects, NEW n
  PROVE  Inherits(Resolve(o, n), supers, objects, methods)
BY ClassSuppliesInherited DEF Resolve, HeritageInv, ArgumentsInv, AttributesMade

\* super goes behind the supplier of the innermost method.
LEMMA SuperInherited ==
  ASSUME HeritageInv, NEW n
  PROVE  LET v == ResolveSuper(n)
             active == frames[context].callee
         IN \/ IsFailure(v)
            \/ /\ v.kind = "method" /\ Inherits(v, supers, objects, methods)
               /\ context \in 1..Len(frames)
               /\ v.receiver = active.receiver
               /\ Position(OrderOf(v, supers, objects), active.supplier)
                    < Position(OrderOf(v, supers, objects), v.supplier)
<1> DEFINE active == frames[context].callee
           l == Linearization[objects[active.receiver].class]
           order == l.order
           start == After(order, active.supplier)
           supplier == FirstSupplier(order, start, n)
           v == Method(active.receiver, supplier, n)
<1>1. IsFailure(Failure("OTHER")) /\ IsFailure(Failure("INVALID_SUPER_CONTEXT"))
  BY DEF Failure, IsFailure, Errors
<1>2. CASE context # 0 /\ l.consistent /\ supplier # None /\ ResolveSuper(n) = v
  <2>1. context \in 1..Len(frames) /\ IsMethod(frames[context])
    BY <1>2 DEF HeritageInv, ArgumentsInv, ContextInv, Links, Innermost
  <2>2. /\ active.receiver \in Objects
        /\ active.supplier \in ClassesOf(OrderOf(active, supers, objects))
    BY <2>1 DEF HeritageInv, Inherits, Objects, IsMethod
  <2>3. order \in Seq(Classes) /\ Distinct(order)
    BY <1>2, <2>2, ClassOrder DEF HeritageInv
  <2>4. OrderOf(active, supers, objects) = order BY DEF OrderOf, Linearization
  <2>5. /\ v.kind = "method" /\ v.receiver = active.receiver
        /\ v.supplier = supplier /\ v.name = n
    BY DEF Method, Value
  <2>6. OrderOf(v, supers, objects) = order BY <2>5 DEF OrderOf, Linearization
  <2> HIDE DEF order, v, active
  <2>7. PICK p \in 1..Len(order) : order[p] = active.supplier
    BY <2>2, <2>4 DEF ClassesOf
  <2>8. Position(order, active.supplier) = p BY <2>3, <2>7, PositionIsIndex
  <2>9. start = p + 1 /\ p \in Nat /\ start \in Nat
    <3>1. active.supplier \in ClassesOf(order) BY <2>2, <2>4
    <3>2. start = Position(order, active.supplier) + 1 BY <3>1, Zenon DEF After, Position, start
    <3>3. p \in Nat BY <2>3
    <3> QED BY <2>8, <3>2, <3>3
  <2> HIDE DEF start
  <2>10. PICK i \in start..Len(order) : supplier = order[i] /\ n \in methods[order[i]]
    BY <1>2, <2>3, <2>9, SupplierFound DEF FirstSupplier
  <2> HIDE DEF supplier
  <2>11. i \in 1..Len(order) /\ p < i
    BY <2>9, <2>10
  <2>12. Position(order, supplier) = i BY <2>3, <2>10, <2>11, PositionIsIndex
  <2>13. supplier \in ClassesOf(order) BY <2>10, <2>11 DEF ClassesOf
  <2>14. Inherits(v, supers, objects, methods)
    BY <2>2, <2>5, <2>6, <2>10, <2>13 DEF Inherits, Objects
  <2> QED BY <1>2, <2>1, <2>5, <2>6, <2>8, <2>11, <2>12, <2>14 DEF active
<1>3. CASE IsFailure(ResolveSuper(n)) BY <1>3
<1>4. \/ context # 0 /\ l.consistent /\ supplier # None /\ ResolveSuper(n) = v
      \/ IsFailure(ResolveSuper(n))
  <2> HIDE DEF v
  <2> QED BY <1>1 DEF ResolveSuper, LookupSuper, v
<1> QED BY <1>2, <1>3, <1>4

-----------------------------------------------------------------------------
\* The steps that change classes or objects, and those that do not.
LEMMA SameWorld ==
  ASSUME WorldInv, ArgumentsInv, supers' = supers, methods' = methods, objects' = objects
  PROVE  WorldInv' /\ Grows
<1>1. Len(objects) \in Nat BY DEF ArgumentsInv, AttributesMade
<1>2. WorldInv' BY DEF WorldInv, Objects, Classes, IsHierarchy
<1>3. Grows BY <1>1 DEF Grows
<1> QED BY <1>2, <1>3

LEMMA NewObjectGrows ==
  ASSUME WorldInv, ArgumentsInv, NEW c \in Classes, NewObject(c)
  PROVE  WorldInv' /\ Grows
<1>1. PICK K, A : objects \in Seq([class : K, attributes : A])
  BY DEF ArgumentsInv, AttributesMade
<1> DEFINE x == [class |-> c, attributes |-> <<>>]
           R == [class : K \cup {c}, attributes : A \cup {<<>>}]
<1>2. objects' = Append(objects, x) /\ supers' = supers /\ methods' = methods BY DEF NewObject
<1>3. x.class = c /\ x \in R OBVIOUS
<1>4. objects \in Seq(R)
  <2>1. [class : K, attributes : A] \subseteq R OBVIOUS
  <2> QED BY <1>1, <2>1, SeqMonotonic
<1> HIDE DEF x, R
<1>5. /\ Len(objects) \in Nat /\ Len(objects') = Len(objects) + 1
      /\ objects'[Len(objects) + 1] = x
      /\ \A o \in 1..Len(objects) : objects'[o] = objects[o]
  BY <1>2, <1>3, <1>4
<1>6. \A o \in 1..Len(objects') : objects'[o].class \in Classes
  <2>1. \A o \in 1..Len(objects') : o \in 1..Len(objects) \/ o = Len(objects) + 1
    BY <1>5
  <2> QED BY <1>3, <1>5, <2>1 DEF WorldInv, Objects
<1>7. WorldInv' BY <1>2, <1>6 DEF WorldInv, Objects, Classes, IsHierarchy
<1>8. Grows BY <1>2, <1>5 DEF Grows, Objects
<1> QED BY <1>7, <1>8

LEMMA SetAttributeGrows ==
  ASSUME WorldInv, ArgumentsInv, NEW o \in Objects, NEW n, NEW v, SetAttribute(o, n, v)
  PROVE  WorldInv' /\ Grows
<1>1. PICK K, A : objects \in Seq([class : K, attributes : A])
  BY DEF ArgumentsInv, AttributesMade
<1> DEFINE old == objects[o].attributes
           new == [m \in DOMAIN old \cup {n} |-> IF m = n THEN v ELSE old[m]]
           x == [objects[o] EXCEPT !.attributes = new]
<1>2. objects' = [objects EXCEPT ![o] = x] /\ supers' = supers /\ methods' = methods
  BY DEF SetAttribute
<1> DEFINE R == [class : K, attributes : A]
<1> HIDE DEF R, new, x
<1>3. objects[o] \in R
  <2>1. objects \in Seq(R) /\ o \in 1..Len(objects) BY <1>1 DEF R, Objects
  <2> QED BY <2>1
<1>4. x.class = objects[o].class BY <1>3 DEF R, x
<1>5. objects \in Seq(R \cup {x}) /\ o \in 1..Len(objects)
  BY <1>1, SeqMonotonic DEF R, Objects
<1>6. /\ Len(objects) \in Nat /\ Len(objects') = Len(objects)
      /\ \A p \in 1..Len(objects) : objects'[p] = IF p = o THEN x ELSE objects[p]
  BY <1>2, <1>5
<1>7. \A p \in 1..Len(objects) : objects'[p].class = objects[p].class
  BY <1>4, <1>6
<1>8. WorldInv' BY <1>2, <1>6, <1>7 DEF WorldInv, Objects, Classes, IsHierarchy
<1>9. Grows BY <1>2, <1>5, <1>6, <1>7 DEF Grows, Objects
<1> QED BY <1>8, <1>9

LEMMA SetMethodGrows ==
  ASSUME WorldInv, ArgumentsInv, NEW c \in Classes, NEW n \in Name, SetMethod(c, n)
  PROVE  WorldInv' /\ Grows
<1>1. /\ methods \in Seq(SUBSET Name) /\ c \in 1..Len(methods) /\ Len(objects) \in Nat
      /\ Len(methods) = Len(supers)
  BY DEF WorldInv, ArgumentsInv, AttributesMade, Classes
<1>2. /\ supers' = supers /\ objects' = objects
      /\ methods' = [methods EXCEPT ![c] = methods[c] \cup {n}]
  BY DEF SetMethod, DefineMethod
<1>3. /\ methods' \in Seq(SUBSET Name) /\ Len(methods') = Len(methods)
      /\ \A d \in 1..Len(methods) : methods[d] \subseteq methods'[d]
  BY <1>1, <1>2
<1>4. WorldInv' BY <1>2, <1>3 DEF WorldInv, Objects, Classes, IsHierarchy
<1>5. Grows BY <1>1, <1>2, <1>3 DEF Grows, Objects, Classes
<1> QED BY <1>4, <1>5

LEMMA NextGrows ==
  ASSUME WorldInv, ArgumentsInv, [DispatchNext]_dispatchVars
  PROVE  WorldInv' /\ Grows
<1>1. CASE \/ ReadAttribute \/ ReadSuper \/ DotCall \/ SuperCall \/ CallMade
           \/ Extend \/ Enter \/ Return \/ Unwind \/ Report \/ Fail \/ UNCHANGED dispatchVars
  <2>1. supers' = supers /\ methods' = methods /\ objects' = objects
    <3>1. CASE ReadAttribute \/ ReadSuper
      BY <3>1 DEF ReadAttribute, ReadSuper, Result, Raise
    <3>2. CASE DotCall \/ SuperCall \/ CallMade
      BY <3>2 DEF DotCall, SuperCall, CallMade, Call, Raise
    <3>3. CASE Extend \/ Enter \/ Return \/ Unwind \/ Report \/ Fail \/ UNCHANGED dispatchVars
      BY <3>3 DEF Extend, Enter, Return, Unwind, Report, Fail, Raise, dispatchVars
    <3> QED BY <1>1, <3>1, <3>2, <3>3
  <2> QED BY <2>1, SameWorld
<1>2. CASE \E c \in Classes : NewObject(c) BY <1>2, NewObjectGrows
<1>3. CASE \E o \in Objects, n \in Name, v \in made : SetAttribute(o, n, v)
  BY <1>3, SetAttributeGrows
<1>4. CASE \E c \in Classes, n \in Name : SetMethod(c, n) BY <1>4, SetMethodGrows
<1> QED BY <1>1, <1>2, <1>3, <1>4 DEF DispatchNext

-----------------------------------------------------------------------------
(***************************************************************************)
(* The steps of EnactDispatch keep the invariant of bound methods.         *)
(***************************************************************************)

\* No call is put on the stack: what is made may be something inherited.
LEMMA StillInherited ==
  ASSUME HeritageInv, ArgumentsInv', WorldInv', Grows,
         \A v \in made' : v \in made \/ Inherits(v, supers, objects, methods),
         \A i \in 1..Len(frames)' : /\ i \in 1..Len(frames)
                                   /\ frames'[i].callee = frames[i].callee
                                   /\ frames'[i].how = frames[i].how,
         \A i \in 1..Len(frames)' : \A j \in 1..(i - 1) : frames'[j] = frames[j]
  PROVE  HeritageInv'
<1>1. \A v \in made' : Inherits(v, supers', objects', methods')
  BY InheritsStays DEF HeritageInv
<1>2. \A i \in 1..Len(frames') : Inherits(frames'[i].callee, supers', objects', methods')
  BY InheritsStays DEF HeritageInv
<1>3. ASSUME NEW i \in 1..Len(frames') PROVE Advances(frames', i, supers', objects')
  BY AdvancesStays DEF HeritageInv
<1> QED BY <1>1, <1>2, <1>3 DEF HeritageInv

LEMMA CallInherited ==
  ASSUME HeritageInv, ArgumentsInv', WorldInv', Grows, NEW v, NEW k, NEW how,
         Inherits(v, supers, objects, methods) \/ IsFailure(v), Call(v, k, how),
         how = "super" => \E n : v = ResolveSuper(n)
  PROVE  HeritageInv'
<1>1. made' = made BY DEF Call, Raise
<1>2. PICK C : frames \in Seq(Frames(C))
  BY DEF HeritageInv, ArgumentsInv, ContextInv, IsStack
<1>3. CASE IsFailure(v) \/ ArityError(v, k)
  <2>1. frames' = frames BY <1>3 DEF Call, Raise
  <2>2. \A i \in 1..Len(frames) : \A j \in 1..(i - 1) : frames'[j] = frames[j] BY <2>1
  <2> QED BY <1>1, <2>1, <2>2, StillInherited
<1>4. CASE ~IsFailure(v) /\ ~ArityError(v, k)
  <2> DEFINE f == [callee |-> v, args |-> k, how |-> how, running |-> FALSE, previous |-> 0]
             top == Len(frames) + 1
  <2>1. frames' = Append(frames, f) BY <1>4 DEF Call
  <2>2. f.callee = v /\ f.how = how OBVIOUS
  <2> HIDE DEF f
  <2>3. /\ Len(frames) \in Nat /\ Len(frames') = top /\ frames'[top] = f
        /\ \A i \in 1..Len(frames) : frames'[i] = frames[i]
    <3>1. frames \in Seq(Frames(C) \cup {f}) BY <1>2, SeqMonotonic
    <3> QED BY <2>1, <3>1
  <2>4. \A u \in made' : Inherits(u, supers', objects', methods')
    BY <1>1, InheritsStays DEF HeritageInv
  <2>5. ASSUME NEW i \in 1..Len(frames)
        PROVE  /\ Inherits(frames'[i].callee, supers', objects', methods')
               /\ Advances(frames', i, supers', objects')
    <3>1. Inherits(frames'[i].callee, supers', objects', methods')
      BY <2>3, InheritsStays DEF HeritageInv
    <3>2. \A j \in 1..(i - 1) : frames'[j] = frames[j] BY <2>3
    <3>3. frames'[i] = frames[i] /\ i \in Nat BY <2>3
    <3> QED BY <3>1, <3>2, <3>3, AdvancesStays DEF HeritageInv
  <2>6. Inherits(f.callee, supers', objects', methods')
    BY <1>4, <2>2, InheritsStays DEF HeritageInv
  <2>7. ASSUME how = "super" PROVE Advances(frames', top, supers', objects')
    <3> DEFINE active == frames[context].callee
    <3>1. /\ v.kind = "method" /\ Inherits(v, supers, objects, methods)
          /\ context \in 1..Len(frames) /\ v.receiver = active.receiver
          /\ Position(OrderOf(v, supers, objects), active.supplier)
               < Position(OrderOf(v, supers, objects), v.supplier)
      BY <1>4, <2>7, SuperInherited
    <3>2. Innermost(frames, context, Len(frames))
      BY DEF HeritageInv, ArgumentsInv, ContextInv, Links
    <3>3. Innermost(frames', context, top - 1)
      BY <2>3, <3>2 DEF Innermost, IsMethod
    <3>4. OrderOf(v, supers', objects') = OrderOf(v, supers, objects)
      BY <3>1 DEF Grows, OrderOf, Inherits, Objects
    <3>5. context \in 1..(top - 1) /\ frames'[context].callee = active
      BY <2>3, <3>1
    <3> HIDE DEF active, top
    <3> QED BY <2>2, <2>3, <3>1, <3>3, <3>4, <3>5 DEF Advances
  <2>8. Advances(frames', top, supers', objects')
    BY <2>2, <2>3, <2>7 DEF Advances
  <2>9. \A i \in 1..Len(frames') : i \in 1..Len(frames) \/ i = top BY <2>3
  <2> HIDE DEF top
  <2> QED BY <2>3, <2>4, <2>5, <2>6, <2>8, <2>9 DEF HeritageInv
<1> QED BY <1>3, <1>4

LEMMA ResultInherited ==
  ASSUME HeritageInv, ArgumentsInv', WorldInv', Grows, NEW v,
         Inherits(v, supers, objects, methods) \/ IsFailure(v), Result(v)
  PROVE  HeritageInv'
<1>1. frames' = frames BY DEF Result, Raise
<1>2. \A u \in made' : u \in made \/ Inherits(u, supers, objects, methods)
  BY DEF Result, Raise, Keep
<1>3. \A i \in 1..Len(frames) : \A j \in 1..(i - 1) : frames'[j] = frames[j] BY <1>1
<1> QED BY <1>1, <1>2, <1>3, StillInherited

\* Below every call that Pop leaves, nothing has changed either.
LEMMA PoppedBelow ==
  ASSUME ContextInv, frames # <<>>, Pop
  PROVE  \A i \in 1..Len(frames)' : \A j \in 1..(i - 1) : frames'[j] = frames[j]
<1>1. PICK C : frames \in Seq(Frames(C)) BY DEF ContextInv, IsStack
<1>2. frames' = SubSeq(frames, 1, Len(frames) - 1) BY DEF Pop
<1>3. Len(frames') \in Nat BY <1>1, <1>2
<1>4. \A i \in 1..Len(frames') : \A j \in 1..(i - 1) : j \in 1..Len(frames') BY <1>3
<1>5. \A j \in 1..Len(frames') : frames'[j] = frames[j] BY Popped
<1> QED BY <1>4, <1>5

\* A callable that captures arguments is bound to the same receiver.
LEMMA ExtendInherited ==
  ASSUME HeritageInv, ArgumentsInv', WorldInv', Grows, Extend
  PROVE  HeritageInv'
<1>1. frames # <<>> /\ Pop BY DEF Extend, Pending
<1>2. /\ Len(frames) \in Nat /\ Len(frames) \in 1..Len(frames) /\ Top = frames[Len(frames)]
      /\ \A i \in 1..Len(frames)' : i \in 1..Len(frames) /\ frames'[i] = frames[i]
  BY <1>1, Popped DEF HeritageInv, ArgumentsInv
<1> DEFINE v == Top.callee
           w == [v EXCEPT !.captured = @ + Top.args]
<1>3. Complete(v) /\ Inherits(v, supers, objects, methods)
  BY <1>2 DEF HeritageInv, ArgumentsInv, Counted
<1>4. w.kind = v.kind /\ w.receiver = v.receiver /\ w.supplier = v.supplier /\ w.name = v.name
  <2>1. PICK R, S : v \in [kind : {"method", "function", "native"}, receiver : R,
                           supplier : S, name : Name, captured : Nat]
    BY <1>3 DEF Complete
  <2> HIDE DEF v
  <2> QED BY <2>1
<1>5. made' = made \cup {w} BY DEF Extend, Keep
<1> HIDE DEF w, v
<1>6. Inherits(w, supers, objects, methods) BY <1>3, <1>4 DEF Inherits, OrderOf
<1>7. \A i \in 1..Len(frames)' : \A j \in 1..(i - 1) : frames'[j] = frames[j]
  BY <1>1, PoppedBelow DEF HeritageInv, ArgumentsInv
<1> QED BY <1>2, <1>5, <1>6, <1>7, StillInherited

LEMMA EnterInherited ==
  ASSUME HeritageInv, ArgumentsInv', WorldInv', Grows, Enter
  PROVE  HeritageInv'
<1>1. PICK C : frames \in Seq(Frames(C))
  BY DEF HeritageInv, ArgumentsInv, ContextInv, IsStack
<1> DEFINE f == [Top EXCEPT !.running = TRUE, !.previous = context]
           n == Len(frames)
<1>2. n \in Nat /\ n \in 1..n BY <1>1 DEF Enter, Pending
<1>3. Top \in Frames(C) /\ Top = frames[n] BY <1>1, <1>2 DEF Top
<1>4. f.callee = Top.callee /\ f.how = Top.how BY <1>3 DEF Frames
<1>5. frames' = [frames EXCEPT ![n] = f] /\ made' = made BY DEF Enter
<1> HIDE DEF f
<1>6. /\ Len(frames') = n
      /\ \A i \in 1..n : frames'[i] = IF i = n THEN f ELSE frames[i]
  BY <1>1, <1>2, <1>5
<1>7. \A i \in 1..n : frames'[i].callee = frames[i].callee /\ frames'[i].how = frames[i].how
  BY <1>3, <1>4, <1>6
<1>8. \A i \in 1..n : \A j \in 1..(i - 1) : frames'[j] = frames[j]
  BY <1>2, <1>6
<1> QED BY <1>5, <1>6, <1>7, <1>8, StillInherited

LEMMA NextHeritage == HeritageInv /\ [DispatchNext]_dispatchVars => HeritageInv'
<1> SUFFICES ASSUME HeritageInv, [DispatchNext]_dispatchVars PROVE HeritageInv' OBVIOUS
<1>1. ArgumentsInv' BY NextArguments DEF HeritageInv
<1>2. WorldInv' /\ Grows BY NextGrows DEF HeritageInv
<1>3. \A o \in Objects, n \in Name : Inherits(Resolve(o, n), supers, objects, methods)
  BY ResolveInherited
<1>4. \A n : Inherits(ResolveSuper(n), supers, objects, methods) \/ IsFailure(ResolveSuper(n))
  BY SuperInherited
<1>5. CASE ReadAttribute BY <1>1, <1>2, <1>3, <1>5, ResultInherited DEF ReadAttribute
<1>6. CASE ReadSuper BY <1>1, <1>2, <1>4, <1>6, ResultInherited DEF ReadSuper
<1>7. CASE DotCall
  <2>1. PICK o \in Objects, n \in Name, k \in 0..2 : Call(Resolve(o, n), k, "dot")
    BY <1>7 DEF DotCall
  <2> QED BY <1>1, <1>2, <1>3, <2>1, CallInherited
<1>8. CASE SuperCall
  <2>1. PICK n \in Name, k \in 0..2 : Call(ResolveSuper(n), k, "super")
    BY <1>8 DEF SuperCall
  <2> QED BY <1>1, <1>2, <1>4, <2>1, CallInherited
<1>9. CASE CallMade
  <2>1. PICK v \in made, k \in 0..2 : Call(v, k, "value")
    BY <1>9 DEF CallMade
  <2>2. Inherits(v, supers, objects, methods) BY DEF HeritageInv
  <2> QED BY <1>1, <1>2, <2>1, <2>2, CallInherited
<1>10. CASE Extend BY <1>1, <1>2, <1>10, ExtendInherited
<1>11. CASE Enter BY <1>1, <1>2, <1>11, EnterInherited
<1>12. CASE Return \/ Unwind
  <2>1. frames # <<>> /\ Pop /\ made' = made BY <1>12 DEF Return, Unwind, Running
  <2>2. \A i \in 1..Len(frames)' : i \in 1..Len(frames) /\ frames'[i] = frames[i]
    BY <2>1, Popped DEF HeritageInv, ArgumentsInv
  <2>3. \A i \in 1..Len(frames)' : \A j \in 1..(i - 1) : frames'[j] = frames[j]
    BY <2>1, PoppedBelow DEF HeritageInv, ArgumentsInv
  <2> QED BY <1>1, <1>2, <2>1, <2>2, <2>3, StillInherited
<1>13. CASE \/ Report \/ Fail \/ UNCHANGED dispatchVars
            \/ \E c \in Classes : NewObject(c)
            \/ \E o \in Objects, n \in Name, v \in made : SetAttribute(o, n, v)
            \/ \E c \in Classes, n \in Name : SetMethod(c, n)
  <2>1. frames' = frames /\ made' = made
    BY <1>13 DEF Report, Fail, Raise, NewObject, SetAttribute, SetMethod, dispatchVars
  <2>2. \A i \in 1..Len(frames) : \A j \in 1..(i - 1) : frames'[j] = frames[j] BY <2>1
  <2> QED BY <1>1, <1>2, <2>1, <2>2, StillInherited
<1> QED BY <1>5, <1>6, <1>7, <1>8, <1>9, <1>10, <1>11, <1>12, <1>13 DEF DispatchNext

LEMMA InitHeritage == DispatchInit => HeritageInv
<1> SUFFICES ASSUME DispatchInit PROVE HeritageInv OBVIOUS
<1>1. ArgumentsInv BY InitArguments
<1>2. /\ supers \in Hierarchies /\ methods = [c \in 1..Len(supers) |-> {}]
      /\ objects = <<>> /\ frames = <<>> /\ made = {Function(n) : n \in Name}
  BY DEF DispatchInit
<1>3. IsHierarchy(supers) BY <1>2, DispatchAssumption DEF IsHierarchy
<1>4. Len(supers) \in Nat BY <1>3 DEF IsHierarchy
<1>5. methods \in Seq(SUBSET Name) /\ Len(methods) = Len(supers) BY <1>2, <1>4
<1>6. WorldInv BY <1>2, <1>3, <1>5 DEF WorldInv, Objects
<1>7. \A v \in made : Inherits(v, supers, objects, methods)
  <2>1. \A n : Function(n).kind # "method" BY DEF Function, Value
  <2> QED BY <1>2, <2>1 DEF Inherits
<1>8. Len(frames) = 0 BY <1>2
<1> QED BY <1>1, <1>6, <1>7, <1>8 DEF HeritageInv

THEOREM HeritageInvariant == DispatchSpec => []HeritageInv
BY InitHeritage, NextHeritage, PTL DEF DispatchSpec

(***************************************************************************)
(* A bound method is one that its receiver inherits, however long ago it   *)
(* was bound (enact_eval_make_bound_method, enact_eval_apply_method).      *)
(***************************************************************************)
THEOREM BoundForGood == DispatchSpec => []SupplierInherited
<1>1. HeritageInv => SupplierInherited
  <2> SUFFICES ASSUME HeritageInv PROVE SupplierInherited OBVIOUS
  <2>1. PICK C : frames \in Seq(Frames(C))
    BY DEF HeritageInv, ArgumentsInv, ContextInv, IsStack
  <2>2. DOMAIN frames = 1..Len(frames) BY <2>1
  <2>3. \A v \in Alive : Inherits(v, supers, objects, methods)
    BY <2>2 DEF HeritageInv, Alive
  <2> QED BY <2>3 DEF SupplierInherited, Inherits, Objects, Linearization, OrderOf
<1> QED BY <1>1, HeritageInvariant, PTL

(***************************************************************************)
(* Every super call goes behind the class of the method that makes it, so  *)
(* that a chain of them ends (enact_eval_make_super_bound_method).         *)
(***************************************************************************)
THEOREM SuperGoesOn == DispatchSpec => []SuperAdvances
<1>1. HeritageInv => SuperAdvances
  <2> SUFFICES ASSUME HeritageInv, NEW i \in DOMAIN frames, frames[i].how = "super"
               PROVE  \E j \in 1..(i - 1) :
                        LET callee == frames[i].callee
                            caller == frames[j].callee
                            order == Linearization[objects[callee.receiver].class].order
                        IN /\ InnermostIs(j, i - 1)
                           /\ callee.receiver = caller.receiver
                           /\ Position(order, caller.supplier) < Position(order, callee.supplier)
    BY DEF SuperAdvances
  <2>1. PICK C : frames \in Seq(Frames(C))
    BY DEF HeritageInv, ArgumentsInv, ContextInv, IsStack
  <2>2. i \in 1..Len(frames) BY <2>1
  <2>3. Advances(frames, i, supers, objects) BY <2>2 DEF HeritageInv
  <2> QED BY <2>3 DEF Advances, Innermost, InnermostIs, Linearization, OrderOf
<1> QED BY <1>1, HeritageInvariant, PTL

=============================================================================
