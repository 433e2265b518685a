-------------------------- MODULE EnactEvalProofs ---------------------------
(***************************************************************************)
(* Proofs about EnactArithmetic and EnactEval.  The checked operations are *)
(* exact for every word size: the intermediate word never wraps, and an    *)
(* operation is refused only for a reason.  The stack of an evaluation     *)
(* closes the environments that it opens, whatever fails where, and a call *)
(* never lacks an environment.  Frames, environments and functions hold    *)
(* values only, and syntax trees that the parser made: no operator ever    *)
(* computes with what is not an integer.                                   *)
(***************************************************************************)
EXTENDS EnactEval, EnactListsProofs

-----------------------------------------------------------------------------
(***************************************************************************)
(* The intermediate word holds every sum, difference and product.          *)
(***************************************************************************)
LEMMA MonotoneProduct ==
  ASSUME NEW a \in Nat, NEW b \in Nat, NEW m \in Nat, a <= m, b <= m
  PROVE  a * b \in Nat /\ a * b <= m * m
<1>1. a * b \in Nat /\ a * m \in Nat /\ m * m \in Nat
  OBVIOUS
<1>2. a * b <= a * m
  <2>1. m - b \in Nat
    OBVIOUS
  <2>2. a * (m - b) >= 0
    BY <2>1
  <2>3. a * (m - b) = a * m - a * b
    OBVIOUS
  <2> QED
    BY <1>1, <2>2, <2>3
<1>3. a * m <= m * m
  <2>1. m - a \in Nat
    OBVIOUS
  <2>2. m * (m - a) >= 0
    BY <2>1
  <2>3. m * (m - a) = m * m - a * m
    OBVIOUS
  <2> QED
    BY <1>1, <2>2, <2>3
<1> QED
  BY <1>1, <1>2, <1>3

\* The bound of the words in terms of the size of the smaller one.
LEMMA Words ==
  /\ MaxInt + 1 \in Nat /\ MaxInt + 1 >= 2
  /\ (MaxInt + 1) * (MaxInt + 1) \in Nat
  /\ Half = 2 * ((MaxInt + 1) * (MaxInt + 1))
  /\ 2 * (MaxInt + 1) <= (MaxInt + 1) * (MaxInt + 1)
  /\ \A n \in Ints : n \in Int /\ -(MaxInt + 1) <= n /\ n <= MaxInt
<1>1. MaxInt \in Nat /\ MaxInt + 1 >= 2
  BY ArithmeticAssumption
<1>2. (MaxInt + 1) * (MaxInt + 1) \in Nat
  BY <1>1
<1>3. Half = 2 * ((MaxInt + 1) * (MaxInt + 1))
  BY <1>1 DEF Half
<1>4. 2 * (MaxInt + 1) <= (MaxInt + 1) * (MaxInt + 1)
  <2>1. (MaxInt - 1) * (MaxInt + 1) >= 0
    BY <1>1
  <2>2. (MaxInt + 1) * (MaxInt + 1) = (MaxInt - 1) * (MaxInt + 1) + 2 * (MaxInt + 1)
    BY <1>1
  <2> QED
    BY <1>1, <2>1, <2>2
<1>5. \A n \in Ints : n \in Int /\ -(MaxInt + 1) <= n /\ n <= MaxInt
  BY <1>1 DEF Ints, MinInt
<1> QED
  BY <1>1, <1>2, <1>3, <1>4, <1>5

\* A value that fits keeps its value in the intermediate word.
LEMMA WideExact ==
  ASSUME NEW x \in Int, -Half <= x, x < Half
  PROVE  Wide(x) = x
<1>1. Half \in Nat /\ Half > 0
  BY Words
<1> HIDE DEF Half
<1>2. x + Half \in 0..(2 * Half - 1)
  BY <1>1
<1>3. (x + Half) % (2 * Half) = x + Half
  BY <1>1, <1>2
<1> QED
  BY <1>1, <1>3 DEF Wide

LEMMA MagnitudeType ==
  ASSUME NEW x \in Int
  PROVE  /\ Magnitude(x) \in Nat
         /\ x >= 0 => Magnitude(x) = x
         /\ x < 0 => Magnitude(x) = -x
         /\ Magnitude(x) = 0 <=> x = 0
BY DEF Magnitude

LEMMA ProductBound ==
  ASSUME NEW l \in Ints, NEW r \in Ints
  PROVE  l * r \in Int /\ -Half <= l * r /\ l * r < Half
<1> DEFINE m == MaxInt + 1
<1>1. l \in Int /\ r \in Int /\ m \in Nat /\ m * m \in Nat /\ m * m > 0 /\ Half = 2 * (m * m)
  BY Words
<1>2. Magnitude(l) \in Nat /\ Magnitude(l) <= m /\ Magnitude(r) \in Nat /\ Magnitude(r) <= m
  <2>1. -m <= l /\ l <= m /\ -m <= r /\ r <= m
    BY <1>1, Words, ArithmeticAssumption
  <2> HIDE DEF m
  <2> QED
    BY <1>1, <2>1 DEF Magnitude
<1> HIDE DEF m
<1>3. Magnitude(l) * Magnitude(r) \in Nat /\ Magnitude(l) * Magnitude(r) <= m * m
  BY <1>1, <1>2, MonotoneProduct
<1>4. l * r = Magnitude(l) * Magnitude(r) \/ l * r = -(Magnitude(l) * Magnitude(r))
  BY <1>1 DEF Magnitude
<1> QED
  BY <1>1, <1>3, <1>4
-----------------------------------------------------------------------------
(***************************************************************************)
(* Sums, differences and products.                                         *)
(***************************************************************************)
Ring == {"+", "-", "*"}

\* The integer that an operator of Ring stands for.
Meant(op, l, r) == CASE op = "+" -> l + r [] op = "-" -> l - r [] op = "*" -> l * r

LEMMA RingIntermediate ==
  ASSUME NEW op \in Ring, NEW l \in Ints, NEW r \in Ints
  PROVE  /\ Meant(op, l, r) \in Int
         /\ Intermediate(op, l, r) = Meant(op, l, r)
<1>1. l \in Int /\ r \in Int /\ -(MaxInt + 1) <= l /\ l <= MaxInt
      /\ -(MaxInt + 1) <= r /\ r <= MaxInt
  BY Words
<1>2. MaxInt \in Nat /\ Half \in Nat /\ 2 * (MaxInt + 1) <= Half /\ 2 * (MaxInt + 1) < Half
  <2> HIDE DEF Half
  <2> QED
    BY Words, ArithmeticAssumption
<1> HIDE DEF Half
<1>3. Wide(l + r) = l + r
  BY <1>1, <1>2, WideExact
<1>4. Wide(l - r) = l - r
  BY <1>1, <1>2, WideExact
<1>5. Wide(l * r) = l * r /\ l * r \in Int
  BY ProductBound, WideExact
<1> QED
  BY <1>1, <1>3, <1>4, <1>5 DEF Ring, Intermediate, Meant

LEMMA RingExact ==
  ASSUME NEW op \in Ring, NEW l \in Ints, NEW r \in Ints
  PROVE  ExactOrRefused(op, l, r)
<1> DEFINE x == Meant(op, l, r)
<1>1. x \in Int /\ Intermediate(op, l, r) = x
  BY RingIntermediate
<1>2. op \notin Divisions
  BY DEF Ring, Divisions
<1>3. \A n : Exact(op, l, r, n) <=> n = x
  BY DEF Ring, Exact, Meant
<1>4. CheckedBinary(op, l, r) = IF x < MinInt \/ x > MaxInt
                                  THEN Error("INT_OVERFLOW") ELSE Number(x)
  BY <1>1, <1>2 DEF CheckedBinary, Narrow
<1> HIDE DEF x
<1>5. CASE x < MinInt \/ x > MaxInt
  <2>1. x \notin Ints
    BY <1>1, <1>5, ArithmeticAssumption DEF Ints, MinInt
  <2> QED
    BY <1>2, <1>3, <1>4, <1>5, <2>1 DEF ExactOrRefused, Error
<1>6. CASE ~(x < MinInt \/ x > MaxInt)
  <2>1. x \in Ints
    BY <1>1, <1>6, ArithmeticAssumption DEF Ints, MinInt
  <2> QED
    BY <1>3, <1>4, <1>6, <2>1 DEF ExactOrRefused, Number
<1> QED
  BY <1>5, <1>6

-----------------------------------------------------------------------------
(***************************************************************************)
(* Quotients and remainders.                                               *)
(***************************************************************************)
LEMMA NaturalDivision ==
  ASSUME NEW a \in Nat, NEW b \in Nat, b > 0
  PROVE  /\ a \div b \in Nat /\ a % b \in Nat /\ a % b < b
         /\ a = b * (a \div b) + (a % b)
         /\ a \div b <= a
         /\ b >= 2 => 2 * (a \div b) <= a
<1> DEFINE q == a \div b
           m == a % b
<1>1. q \in Int /\ m \in 0..(b - 1) /\ a = b * q + m
  OBVIOUS
<1> HIDE DEF q, m
<1>2. q >= 0
  <2>1. SUFFICES ASSUME q <= -1 PROVE FALSE
    BY <1>1
  <2>2. b * (-1 - q) >= 0
    BY <1>1, <2>1
  <2>3. b * (-1 - q) = -b - b * q
    BY <1>1
  <2> QED
    BY <1>1, <2>2, <2>3
<1>3. b * q \in Nat /\ (b - 1) * q >= 0 /\ (b - 1) * q = b * q - q
  BY <1>1, <1>2
<1>4. b >= 2 => (b - 2) * q >= 0 /\ (b - 2) * q = b * q - 2 * q
  BY <1>1, <1>2
<1>5. /\ q \in Nat /\ m \in Nat /\ m < b /\ a = b * q + m /\ q <= a
      /\ b >= 2 => 2 * q <= a
  BY <1>1, <1>2, <1>3, <1>4
<1> QED
  BY <1>5 DEF q, m
\* A division that is not refused, in terms of the magnitudes.
LEMMA Division ==
  ASSUME NEW l \in Ints, NEW r \in Ints, r # 0, ~(l = MinInt /\ r = -1)
  PROVE  \E q \in Nat, m \in Nat :
           /\ Magnitude(l) = Magnitude(r) * q + m /\ m < Magnitude(r)
           /\ Quotient(l, r) = IF (l < 0) = (r < 0) THEN q ELSE -q
           /\ Remainder(l, r) = IF l < 0 THEN -m ELSE m
           /\ Quotient(l, r) \in Ints /\ Remainder(l, r) \in Ints
<1> DEFINE a == Magnitude(l)
           b == Magnitude(r)
           q == a \div b
           m == a % b
<1>1. /\ MaxInt \in Nat /\ l \in Int /\ r \in Int /\ MinInt = -MaxInt - 1
      /\ -MaxInt - 1 <= l /\ l <= MaxInt /\ -MaxInt - 1 <= r /\ r <= MaxInt
  BY Words, ArithmeticAssumption DEF MinInt, Ints
<1>2. /\ a \in Nat /\ b \in Nat /\ b > 0
      /\ l < 0 => a = -l
      /\ l >= 0 => a = l
      /\ r < 0 => b = -r
      /\ r >= 0 => b = r
  BY <1>1 DEF Magnitude
<1> HIDE DEF a, b
<1>3. /\ q \in Nat /\ m \in Nat /\ m < b /\ a = b * q + m /\ q <= a
      /\ b >= 2 => 2 * q <= a
  BY <1>2, NaturalDivision
<1>4. /\ Quotient(l, r) = IF (l < 0) = (r < 0) THEN q ELSE -q
      /\ Remainder(l, r) = IF l < 0 THEN -m ELSE m
  BY Zenon DEF Quotient, Remainder, a, b
<1> HIDE DEF q, m
<1>5. Quotient(l, r) \in Ints
  <2>1. CASE b >= 2
    <3>1. 2 * q <= a /\ a <= MaxInt + 1 /\ MaxInt >= 1
      BY <1>1, <1>2, <1>3, <2>1, ArithmeticAssumption
    <3>2. q \in Ints /\ -q \in Ints
      BY <1>1, <1>3, <3>1 DEF Ints
    <3> QED
      BY <1>4, <3>2
  <2>2. CASE b = 1
    <3>1. q <= a
      BY <1>3
    <3>2. CASE (l < 0) = (r < 0)
      <4>1. a <= MaxInt
        BY <1>1, <1>2, <2>2, <3>2
      <4>2. q \in Ints
        BY <1>1, <1>2, <1>3, <4>1 DEF Ints
      <4> QED
        BY <1>4, <3>2, <4>2
    <3>3. CASE (l < 0) # (r < 0)
      <4>1. a <= MaxInt + 1
        BY <1>1, <1>2
      <4>2. -q \in Ints
        BY <1>1, <1>2, <1>3, <4>1 DEF Ints
      <4> QED
        BY <1>4, <3>3, <4>2
    <3> QED
      BY <3>2, <3>3
  <2> QED
    BY <1>2, <2>1, <2>2
<1>6. Remainder(l, r) \in Ints
  <2>1. b <= MaxInt + 1
    BY <1>1, <1>2
  <2>2. m \in Ints /\ -m \in Ints
    BY <1>1, <1>2, <1>3, <2>1 DEF Ints
  <2> QED
    BY <1>4, <2>2
<1> QED
  BY <1>3, <1>4, <1>5, <1>6 DEF a, b

LEMMA QuotientExact ==
  ASSUME NEW l \in Ints, NEW r \in Ints, r # 0, ~(l = MinInt /\ r = -1)
  PROVE  Exact("/", l, r, Quotient(l, r))
<1> DEFINE n == Quotient(l, r)
           rest == l - n * r
<1>1. PICK q \in Nat, m \in Nat :
           /\ Magnitude(l) = Magnitude(r) * q + m /\ m < Magnitude(r)
           /\ n = IF (l < 0) = (r < 0) THEN q ELSE -q
  BY Division
<1>2. l \in Int /\ r \in Int
  BY Words
<1> HIDE DEF n
<1>3. rest = IF l < 0 THEN -m ELSE m
  <2>1. CASE l < 0 /\ r < 0
    <3>1. -l = (-r) * q + m /\ n = q
      BY <1>1, <1>2, <2>1 DEF Magnitude
    <3>2. (-r) * q = -(q * r)
      BY <1>2
    <3> QED
      BY <1>1, <1>2, <2>1, <3>1, <3>2
  <2>2. CASE l < 0 /\ r >= 0
    <3>1. -l = r * q + m /\ n = -q
      BY <1>1, <1>2, <2>2 DEF Magnitude
    <3>2. (-q) * r = -(r * q)
      BY <1>2
    <3> QED
      BY <1>1, <1>2, <2>2, <3>1, <3>2
  <2>3. CASE l >= 0 /\ r < 0
    <3>1. l = (-r) * q + m /\ n = -q
      BY <1>1, <1>2, <2>3 DEF Magnitude
    <3>2. (-q) * r = (-r) * q
      BY <1>2
    <3> QED
      BY <1>1, <1>2, <2>3, <3>1, <3>2
  <2>4. CASE l >= 0 /\ r >= 0
    <3>1. l = r * q + m /\ n = q
      BY <1>1, <1>2, <2>4 DEF Magnitude
    <3>2. q * r = r * q
      BY <1>2
    <3> QED
      BY <1>1, <1>2, <2>4, <3>1, <3>2
  <2> QED
    BY <1>2, <2>1, <2>2, <2>3, <2>4
<1> HIDE DEF rest
<1>4. Magnitude(rest) = m /\ (rest = 0 \/ (rest < 0) = (l < 0))
  BY <1>1, <1>2, <1>3 DEF Magnitude
<1> QED
  BY <1>1, <1>4 DEF Exact, rest, n
LEMMA RemainderExact ==
  ASSUME NEW l \in Ints, NEW r \in Ints, r # 0, ~(l = MinInt /\ r = -1)
  PROVE  Exact("mod", l, r, Remainder(l, r))
<1> DEFINE n == Remainder(l, r)
           p == Quotient(l, r)
<1>1. PICK q \in Nat, m \in Nat :
           /\ Magnitude(l) = Magnitude(r) * q + m /\ m < Magnitude(r)
           /\ p = IF (l < 0) = (r < 0) THEN q ELSE -q
           /\ n = IF l < 0 THEN -m ELSE m
           /\ p \in Ints
  BY Division
<1>2. l \in Int /\ r \in Int
  BY Words
<1>3. p \in -MaxInt - 1..MaxInt + 1
  <2>1. MaxInt \in Nat
    BY ArithmeticAssumption
  <2> HIDE DEF p
  <2> QED
    BY <1>1, <2>1 DEF Ints, MinInt
<1> HIDE DEF n, p
<1>4. l = p * r + n
  <2>1. CASE l < 0 /\ r < 0
    <3>1. -l = (-r) * q + m /\ p = q /\ n = -m
      BY <1>1, <1>2, <2>1 DEF Magnitude
    <3>2. (-r) * q = -(q * r)
      BY <1>2
    <3> QED
      BY <1>1, <1>2, <3>1, <3>2
  <2>2. CASE l < 0 /\ r >= 0
    <3>1. -l = r * q + m /\ p = -q /\ n = -m
      BY <1>1, <1>2, <2>2 DEF Magnitude
    <3>2. (-q) * r = -(r * q)
      BY <1>2
    <3> QED
      BY <1>1, <1>2, <3>1, <3>2
  <2>3. CASE l >= 0 /\ r < 0
    <3>1. l = (-r) * q + m /\ p = -q /\ n = m
      BY <1>1, <1>2, <2>3 DEF Magnitude
    <3>2. (-q) * r = (-r) * q
      BY <1>2
    <3> QED
      BY <1>1, <1>2, <3>1, <3>2
  <2>4. CASE l >= 0 /\ r >= 0
    <3>1. l = r * q + m /\ p = q /\ n = m
      BY <1>1, <1>2, <2>4 DEF Magnitude
    <3>2. q * r = r * q
      BY <1>2
    <3> QED
      BY <1>1, <1>2, <3>1, <3>2
  <2> QED
    BY <1>2, <2>1, <2>2, <2>3, <2>4
<1>5. Magnitude(n) = m /\ (n = 0 \/ (n < 0) = (l < 0))
  BY <1>1, <1>2 DEF Magnitude
<1> QED
  BY <1>1, <1>3, <1>4, <1>5 DEF Exact, n

LEMMA DivisionsExact ==
  ASSUME NEW op \in Divisions, NEW l \in Ints, NEW r \in Ints
  PROVE  ExactOrRefused(op, l, r)
<1>1. CASE r = 0
  BY <1>1 DEF ExactOrRefused, CheckedBinary, Error
<1>2. CASE r # 0 /\ l = MinInt /\ r = -1
  BY <1>2 DEF ExactOrRefused, CheckedBinary, Error
<1>3. CASE r # 0 /\ ~(l = MinInt /\ r = -1)
  <2> DEFINE n == Intermediate(op, l, r)
  <2>1. n \in Ints /\ Exact(op, l, r, n)
    <3>1. CASE op = "/"
      BY <1>3, <3>1, Division, QuotientExact DEF Intermediate
    <3>2. CASE op = "mod"
      BY <1>3, <3>2, Division, RemainderExact DEF Intermediate
    <3> QED
      BY <3>1, <3>2 DEF Divisions
  <2>2. CheckedBinary(op, l, r) = Narrow(n)
    BY <1>3 DEF CheckedBinary
  <2> HIDE DEF n
  <2>3. CheckedBinary(op, l, r) = Number(n)
    BY <2>1, <2>2, ArithmeticAssumption DEF Narrow, Ints, MinInt
  <2> QED
    BY <2>1, <2>3 DEF ExactOrRefused, Number
<1> QED
  BY <1>1, <1>2, <1>3

-----------------------------------------------------------------------------
(***************************************************************************)
(* enact_checked_binary, for every word size and every pair of integers:   *)
(* the result is exact, or there is a reason to refuse it.  In particular  *)
(* the intermediate int64_t never overflows, and division by zero and of   *)
(* INT32_MIN by -1 are caught before C evaluates them.                     *)
(***************************************************************************)
THEOREM OperationsExact ==
  \A op \in Operations, l, r \in Ints : ExactOrRefused(op, l, r)
BY RingExact, DivisionsExact DEF Operations, Ring

-----------------------------------------------------------------------------
(***************************************************************************)
(* Sequences whose members are not looked at.                              *)
(***************************************************************************)
IsSequence(s) == \E S : s \in Seq(S)

LEMMA SequenceLength ==
  ASSUME NEW s, IsSequence(s)
  PROVE  Len(s) \in Nat /\ DOMAIN s = 1..Len(s) /\ (Len(s) = 0 <=> s = <<>>)
BY DEF IsSequence

LEMMA Appended ==
  ASSUME NEW s, IsSequence(s), NEW x
  PROVE  /\ IsSequence(Append(s, x)) /\ Len(Append(s, x)) = Len(s) + 1
         /\ \A i \in 1..Len(s) : Append(s, x)[i] = s[i]
         /\ Append(s, x)[Len(s) + 1] = x
<1>1. PICK S : s \in Seq(S)
  BY DEF IsSequence
<1> DEFINE T == S \cup {x}
<1>2. s \in Seq(T) /\ x \in T
  BY <1>1
<1> HIDE DEF T
<1>3. Append(s, x) \in Seq(T) /\ Len(Append(s, x)) = Len(s) + 1
  BY <1>2
<1>4. (\A i \in 1..Len(s) : Append(s, x)[i] = s[i]) /\ Append(s, x)[Len(s) + 1] = x
  BY <1>2
<1> QED
  BY <1>3, <1>4 DEF IsSequence

LEMMA Shortened ==
  ASSUME NEW s, IsSequence(s), Len(s) > 0
  PROVE  /\ IsSequence(Front(s)) /\ Len(Front(s)) = Len(s) - 1
         /\ \A i \in 1..(Len(s) - 1) : Front(s)[i] = s[i]
<1>1. PICK S : s \in Seq(S)
  BY DEF IsSequence
<1>2. \A i \in 1..(Len(s) - 1) : s[i] \in S
  BY <1>1
<1>3. /\ SubSeq(s, 1, Len(s) - 1) \in Seq(S)
      /\ Len(SubSeq(s, 1, Len(s) - 1)) = IF 1 <= Len(s) - 1 THEN Len(s) - 1 - 1 + 1 ELSE 0
      /\ \A i \in 1..(Len(s) - 1 - 1 + 1) : SubSeq(s, 1, Len(s) - 1)[i] = s[1 + i - 1]
  BY <1>1, <1>2, SubSeqProperties
<1>4. Len(Front(s)) = Len(s) - 1
  <2> DEFINE n == Len(s)
  <2>1. n \in Nat /\ n > 0
    BY <1>1
  <2>2. Len(SubSeq(s, 1, n - 1)) = IF 1 <= n - 1 THEN n - 1 - 1 + 1 ELSE 0
    BY <1>3
  <2>3. Front(s) = SubSeq(s, 1, n - 1)
    BY DEF Front
  <2> HIDE DEF n
  <2>4. (IF 1 <= n - 1 THEN n - 1 - 1 + 1 ELSE 0) = n - 1
    BY <2>1
  <2>5. Len(Front(s)) = n - 1
    BY <2>2, <2>3, <2>4
  <2> QED
    BY <2>5 DEF n
<1>5. \A i \in 1..(Len(s) - 1) : Front(s)[i] = s[i]
  BY <1>1, <1>3 DEF Front
<1>6. IsSequence(Front(s))
  BY <1>3 DEF IsSequence, Front
<1> QED
  BY <1>4, <1>5, <1>6

LEMMA Replaced ==
  ASSUME NEW s, IsSequence(s), NEW k, NEW x
  PROVE  /\ IsSequence([s EXCEPT ![k] = x]) /\ Len([s EXCEPT ![k] = x]) = Len(s)
         /\ \A i \in 1..Len(s) : i # k => [s EXCEPT ![k] = x][i] = s[i]
         /\ k \in 1..Len(s) => [s EXCEPT ![k] = x][k] = x
<1>1. PICK S : s \in Seq(S)
  BY DEF IsSequence
<1> DEFINE T == S \cup {x}
           t == [s EXCEPT ![k] = x]
<1>2. s \in Seq(T) /\ x \in T /\ Len(s) \in Nat /\ DOMAIN s = 1..Len(s)
  BY <1>1
<1>3. \A i \in 1..Len(s) : s[i] \in T
  BY <1>2
<1> HIDE DEF T
<1>4. t = [i \in 1..Len(s) |-> IF i = k THEN x ELSE s[i]]
  BY <1>2
<1>5. t \in [1..Len(s) -> T]
  BY <1>2, <1>3, <1>4
<1>6. t \in Seq(T) /\ Len(t) = Len(s)
  BY <1>2, <1>5
<1> QED
  BY <1>4, <1>6 DEF IsSequence

-----------------------------------------------------------------------------
(***************************************************************************)
(* The stack and its environments.  What a frame is waiting for, what it   *)
(* holds and where it evaluates does not depend on what the values are.    *)
(***************************************************************************)
OpensEnv == {"where", "call", "apply"}
Calls == {"call", "apply"}

CountOf(f) == IF f.tree.op = "call" THEN Len(f.tree.kids) - 1 ELSE f.tree.n

\* All arguments are there, and the body of a function is not being evaluated.
IsComplete(f) == f.tree.op \in Calls /\ f.local # TRUE /\ Len(f.done) = CountOf(f) + 1

FrameInv(f) ==
  /\ f = [tree |-> f.tree, env |-> f.env, local |-> f.local, held |-> f.held, done |-> f.done]
  /\ IsSequence(f.done)
  /\ f.env \in Nat
  /\ f.env = 0 => f.tree.op \in {"apply", "walk"}
  /\ f.local = TRUE => f.tree.op \in OpensEnv

OpenedIn(fs, k) == Cardinality({i \in 1..k : fs[i].local})

LEMMA OpenedCounts ==
  ASSUME NEW fs, NEW k \in Nat
  PROVE  /\ OpenedIn(fs, k) \in Nat /\ OpenedIn(fs, 0) = 0
         /\ fs[k + 1].local = TRUE => OpenedIn(fs, k + 1) = OpenedIn(fs, k) + 1
         /\ fs[k + 1].local # TRUE => OpenedIn(fs, k + 1) = OpenedIn(fs, k)
<1> DEFINE S(n) == {i \in 1..n : fs[i].local}
<1>1. IsFiniteSet(1..k)
  BY FirstNumbers
<1>2. IsFiniteSet(S(k)) /\ Cardinality(S(k)) \in Nat
  <2>1. S(k) \subseteq 1..k
    OBVIOUS
  <2> QED
    BY <1>1, <2>1, FS_Subset, FS_CardinalityType
<1>3. S(0) = {} /\ Cardinality({}) = 0
  BY FS_EmptySet
<1>4. k + 1 \notin S(k)
  OBVIOUS
<1>5. ASSUME fs[k + 1].local = TRUE PROVE Cardinality(S(k + 1)) = Cardinality(S(k)) + 1
  <2>1. S(k + 1) = S(k) \cup {k + 1}
    BY <1>5
  <2>2. Cardinality(S(k) \cup {k + 1}) = Cardinality(S(k)) + 1
    <3> HIDE DEF S
    <3> QED
      BY <1>2, <1>4, FS_AddElement
  <2> QED
    BY <2>1, <2>2
<1>6. ASSUME fs[k + 1].local # TRUE PROVE S(k + 1) = S(k)
  <2>1. ~fs[k + 1].local
    BY <1>6
  <2> QED
    BY <2>1
<1>7. \A n : OpenedIn(fs, n) = Cardinality(S(n))
  BY DEF OpenedIn
<1> HIDE DEF S
<1> QED
  BY <1>2, <1>3, <1>5, <1>6, <1>7

LEMMA OpenedAlike ==
  ASSUME NEW fs, NEW gs, NEW k \in Nat,
         \A i \in 1..k : fs[i].local = TRUE <=> gs[i].local = TRUE
  PROVE  OpenedIn(fs, k) = OpenedIn(gs, k)
<1>1. {i \in 1..k : fs[i].local} = {i \in 1..k : gs[i].local}
  OBVIOUS
<1> QED
  BY <1>1 DEF OpenedIn

\* Every environment but the first belongs to one frame of a stack fs, and a
\* frame that waits for a value still lacks an argument or evaluates a body.
WellOpened(fs, es) ==
  /\ IsSequence(fs) /\ IsSequence(es)
  /\ \A k \in 1..Len(fs) : FrameInv(fs[k]) /\ fs[k].env <= 1 + OpenedIn(fs, k - 1)
  /\ \A k \in 1..(Len(fs) - 1) : ~IsComplete(fs[k])
  /\ Len(es) = 1 + OpenedIn(fs, Len(fs))

\* A constructor has not missed its class in a call.
ErrorInv(fs, diag) ==
  diag # NoError =>
    /\ Len(fs) > 0
    /\ IsComplete(fs[Len(fs)]) /\ fs[Len(fs)].tree.op = "call" => diag # "NAME_UNBOUND"

StackInv == WellOpened(frames, envs) /\ ErrorInv(frames, error)

LEMMA StackImplies ==
  StackInv => LocalsClosed /\ EnvLostByWalksOnly
<1> SUFFICES ASSUME StackInv PROVE LocalsClosed /\ EnvLostByWalksOnly
  OBVIOUS
<1>1. \A k : Opened(k) = OpenedIn(frames, k)
  BY DEF Opened, OpenedIn
<1>2. DOMAIN frames = 1..Len(frames)
  BY SequenceLength DEF StackInv, WellOpened
<1>3. LocalsClosed
  BY <1>1, <1>2 DEF StackInv, WellOpened, LocalsClosed, Depth
<1>4. EnvLostByWalksOnly
  <2> SUFFICES ASSUME FailedItself, Op = "call" PROVE error # "NAME_UNBOUND"
    BY DEF EnvLostByWalksOnly
  <2>1. error # NoError /\ Top.local # TRUE /\ Done = Count + 1
    BY DEF FailedItself
  <2>2. IsComplete(Top)
    BY <2>1 DEF IsComplete, CountOf, Calls, Count, Op, Done
  <2> QED
    BY <2>1, <2>2 DEF StackInv, ErrorInv, Top, Depth, Op
<1> QED
  BY <1>3, <1>4

-----------------------------------------------------------------------------
(***************************************************************************)
(* The moves of a stack.                                                   *)
(***************************************************************************)

\* Only the number of environments matters.
LEMMA SameNumberOfEnvs ==
  ASSUME NEW fs, NEW es, NEW e2, WellOpened(fs, es), IsSequence(e2), Len(e2) = Len(es)
  PROVE  WellOpened(fs, e2)
BY DEF WellOpened

LEMMA Tops ==
  ASSUME NEW fs, NEW es, WellOpened(fs, es), Len(fs) > 0
  PROVE  /\ Len(fs) \in Nat /\ Len(es) \in Nat /\ FrameInv(fs[Len(fs)])
         /\ fs[Len(fs)].env <= Len(es)
<1> DEFINE n == Len(fs)
<1>1. n \in Nat /\ n > 0 /\ Len(es) \in Nat
  BY SequenceLength DEF WellOpened
<1>2. FrameInv(fs[n]) /\ fs[n].env <= 1 + OpenedIn(fs, n - 1)
  BY <1>1 DEF WellOpened
<1>3. n - 1 \in Nat /\ n - 1 + 1 = n
  BY <1>1
<1>4. Len(es) = 1 + OpenedIn(fs, n)
  BY DEF WellOpened
<1>5. OpenedIn(fs, n - 1) \in Nat
  BY <1>3, OpenedCounts
<1>6. fs[n].local = TRUE => OpenedIn(fs, n) = OpenedIn(fs, n - 1) + 1
  BY <1>3, OpenedCounts
<1>7. fs[n].local # TRUE => OpenedIn(fs, n) = OpenedIn(fs, n - 1)
  BY <1>3, OpenedCounts
<1>8. fs[n].env \in Nat
  BY <1>2 DEF FrameInv
<1> HIDE DEF n
<1>9. OpenedIn(fs, n - 1) <= OpenedIn(fs, n)
  <2>1. CASE fs[n].local = TRUE
    BY <1>5, <1>6, <2>1
  <2>2. CASE fs[n].local # TRUE
    BY <1>5, <1>7, <2>2
  <2> QED
    BY <2>1, <2>2
<1>10. OpenedIn(fs, n) \in Nat
  BY <1>1, OpenedCounts
<1>11. fs[n].env <= Len(es)
  BY <1>2, <1>4, <1>5, <1>8, <1>9, <1>10
<1> QED
  BY <1>1, <1>2, <1>11 DEF n

LEMMA Pushed ==
  ASSUME NEW fs, NEW es, WellOpened(fs, es),
         Len(fs) > 0 => ~IsComplete(fs[Len(fs)]),
         NEW f, FrameInv(f), f.local # TRUE, f.env <= Len(es)
  PROVE  WellOpened(Append(fs, f), es)
<1> DEFINE n == Len(fs)
           gs == Append(fs, f)
<1>1. n \in Nat
  BY SequenceLength DEF WellOpened
<1>2. IsSequence(gs) /\ Len(gs) = n + 1 /\ (\A i \in 1..n : gs[i] = fs[i]) /\ gs[n + 1] = f
  BY Appended DEF WellOpened
<1>3. /\ \A k \in 1..n : FrameInv(fs[k]) /\ fs[k].env <= 1 + OpenedIn(fs, k - 1)
      /\ \A k \in 1..(n - 1) : ~IsComplete(fs[k])
      /\ Len(es) = 1 + OpenedIn(fs, n) /\ IsSequence(es)
      /\ n > 0 => ~IsComplete(fs[n])
  BY DEF WellOpened
<1> HIDE DEF n, gs
<1>4. \A k \in 0..n : OpenedIn(gs, k) = OpenedIn(fs, k)
  <2> SUFFICES ASSUME NEW k \in 0..n PROVE OpenedIn(gs, k) = OpenedIn(fs, k)
    OBVIOUS
  <2>1. k \in Nat /\ \A i \in 1..k : gs[i].local = TRUE <=> fs[i].local = TRUE
    BY <1>1, <1>2
  <2> QED
    BY <2>1, OpenedAlike
<1>5. OpenedIn(gs, n + 1) = OpenedIn(gs, n)
  BY <1>1, <1>2, OpenedCounts
<1>6. \A k \in 1..(n + 1) : FrameInv(gs[k]) /\ gs[k].env <= 1 + OpenedIn(gs, k - 1)
  <2> SUFFICES ASSUME NEW k \in 1..(n + 1)
               PROVE  FrameInv(gs[k]) /\ gs[k].env <= 1 + OpenedIn(gs, k - 1)
    OBVIOUS
  <2>1. k - 1 \in 0..n
    BY <1>1
  <2>2. CASE k \in 1..n
    BY <2>1, <2>2, <1>2, <1>3, <1>4
  <2>3. CASE k = n + 1
    <3>1. k - 1 = n /\ n \in 0..n
      BY <1>1, <2>3
    <3> QED
      BY <3>1, <2>3, <1>2, <1>3, <1>4
  <2> QED
    BY <1>1, <2>2, <2>3
<1>7. \A k \in 1..n : ~IsComplete(gs[k])
  <2> SUFFICES ASSUME NEW k \in 1..n PROVE ~IsComplete(gs[k])
    OBVIOUS
  <2>1. k \in 1..(n - 1) \/ (k = n /\ n > 0)
    BY <1>1
  <2> QED
    BY <2>1, <1>2, <1>3
<1>8. n + 1 - 1 = n /\ n \in 0..n
  BY <1>1
<1>9. Len(es) = 1 + OpenedIn(gs, n + 1)
  BY <1>3, <1>4, <1>5, <1>8
<1>10. WellOpened(gs, es)
  BY <1>2, <1>3, <1>6, <1>7, <1>8, <1>9 DEF WellOpened
<1> QED
  BY <1>10 DEF gs

LEMMA Popped ==
  ASSUME NEW fs, NEW es, WellOpened(fs, es), Len(fs) > 0, NEW e2, IsSequence(e2),
         fs[Len(fs)].local = TRUE => Len(e2) = Len(es) - 1,
         fs[Len(fs)].local # TRUE => Len(e2) = Len(es)
  PROVE  /\ WellOpened(Front(fs), e2) /\ Len(Front(fs)) = Len(fs) - 1
         /\ Len(fs) > 1 => ~IsComplete(Front(fs)[Len(fs) - 1])
<1> DEFINE n == Len(fs)
           gs == Front(fs)
<1>1. n \in Nat /\ n > 0 /\ n - 1 \in Nat /\ n - 1 + 1 = n
  BY SequenceLength DEF WellOpened
<1>2. IsSequence(gs) /\ Len(gs) = n - 1 /\ (\A i \in 1..(n - 1) : gs[i] = fs[i])
  BY Shortened DEF WellOpened
<1>3. /\ \A k \in 1..n : FrameInv(fs[k]) /\ fs[k].env <= 1 + OpenedIn(fs, k - 1)
      /\ \A k \in 1..(n - 1) : ~IsComplete(fs[k])
      /\ Len(es) = 1 + OpenedIn(fs, n)
      /\ fs[n].local = TRUE => Len(e2) = Len(es) - 1
      /\ fs[n].local # TRUE => Len(e2) = Len(es)
  BY DEF WellOpened
<1> HIDE DEF n, gs
<1>4. \A k \in 0..(n - 1) : OpenedIn(gs, k) = OpenedIn(fs, k)
  <2> SUFFICES ASSUME NEW k \in 0..(n - 1) PROVE OpenedIn(gs, k) = OpenedIn(fs, k)
    OBVIOUS
  <2>1. k \in Nat /\ \A i \in 1..k : gs[i].local = TRUE <=> fs[i].local = TRUE
    BY <1>1, <1>2
  <2> QED
    BY <2>1, OpenedAlike
<1>5. /\ OpenedIn(fs, n - 1) \in Nat
      /\ fs[n].local = TRUE => OpenedIn(fs, n) = OpenedIn(fs, n - 1) + 1
      /\ fs[n].local # TRUE => OpenedIn(fs, n) = OpenedIn(fs, n - 1)
  <2>1. /\ OpenedIn(fs, n - 1) \in Nat
        /\ fs[n - 1 + 1].local = TRUE => OpenedIn(fs, n - 1 + 1) = OpenedIn(fs, n - 1) + 1
        /\ fs[n - 1 + 1].local # TRUE => OpenedIn(fs, n - 1 + 1) = OpenedIn(fs, n - 1)
    BY <1>1, OpenedCounts
  <2> QED
    BY <2>1, <1>1
<1>6. Len(e2) = 1 + OpenedIn(gs, n - 1)
  <2>1. OpenedIn(gs, n - 1) = OpenedIn(fs, n - 1)
    BY <1>1, <1>4
  <2>2. CASE fs[n].local = TRUE
    <3>1. Len(e2) = Len(es) - 1 /\ OpenedIn(fs, n) = OpenedIn(fs, n - 1) + 1
      BY <1>3, <1>5, <2>2
    <3> QED
      BY <3>1, <2>1, <1>3, <1>5
  <2>3. CASE fs[n].local # TRUE
    BY <1>3, <1>5, <2>1, <2>3
  <2> QED
    BY <2>2, <2>3
<1>7. \A k \in 1..(n - 1) : FrameInv(gs[k]) /\ gs[k].env <= 1 + OpenedIn(gs, k - 1)
  <2> SUFFICES ASSUME NEW k \in 1..(n - 1)
               PROVE  FrameInv(gs[k]) /\ gs[k].env <= 1 + OpenedIn(gs, k - 1)
    OBVIOUS
  <2>1. k - 1 \in 0..(n - 1) /\ k \in 1..n
    BY <1>1
  <2> QED
    BY <2>1, <1>2, <1>3, <1>4
<1>8. \A k \in 1..(n - 1) : ~IsComplete(gs[k])
  BY <1>2, <1>3
<1>9. WellOpened(gs, e2)
  <2>1. \A k \in 1..(Len(gs) - 1) : ~IsComplete(gs[k])
    BY <1>1, <1>2, <1>8
  <2> QED
    BY <2>1, <1>2, <1>6, <1>7 DEF WellOpened
<1>10. n > 1 => ~IsComplete(gs[n - 1])
  BY <1>1, <1>8
<1> QED
  BY <1>2, <1>9, <1>10 DEF gs, n

LEMMA TopReplaced ==
  ASSUME NEW s, IsSequence(s), Len(s) > 0, NEW x
  PROVE  /\ IsSequence([s EXCEPT ![Len(s)] = x]) /\ Len([s EXCEPT ![Len(s)] = x]) = Len(s)
         /\ \A i \in 1..Len(s) : i # Len(s) => [s EXCEPT ![Len(s)] = x][i] = s[i]
         /\ [s EXCEPT ![Len(s)] = x][Len(s)] = x
<1>1. Len(s) \in 1..Len(s)
  BY SequenceLength
<1> QED
  BY <1>1, Replaced

\* The frame on the top changes; what it opens is counted below.
LEMMA Retopped ==
  ASSUME NEW fs, NEW es, WellOpened(fs, es), Len(fs) > 0,
         NEW f, FrameInv(f), f.env = fs[Len(fs)].env, NEW e2, IsSequence(e2),
         Len(e2) = 1 + OpenedIn([fs EXCEPT ![Len(fs)] = f], Len(fs))
  PROVE  /\ WellOpened([fs EXCEPT ![Len(fs)] = f], e2)
         /\ Len([fs EXCEPT ![Len(fs)] = f]) = Len(fs)
         /\ [fs EXCEPT ![Len(fs)] = f][Len(fs)] = f
<1> DEFINE n == Len(fs)
           gs == [fs EXCEPT ![n] = f]
<1>1. n \in Nat /\ n > 0 /\ n - 1 \in Nat /\ n - 1 + 1 = n
  BY SequenceLength DEF WellOpened
<1>2. IsSequence(gs) /\ Len(gs) = n /\ (\A i \in 1..n : i # n => gs[i] = fs[i]) /\ gs[n] = f
  <2>1. IsSequence(fs)
    BY DEF WellOpened
  <2> QED
    BY <2>1, TopReplaced
<1>3. /\ \A k \in 1..n : FrameInv(fs[k]) /\ fs[k].env <= 1 + OpenedIn(fs, k - 1)
      /\ \A k \in 1..(n - 1) : ~IsComplete(fs[k])
      /\ f.env = fs[n].env
      /\ Len(e2) = 1 + OpenedIn(gs, n)
  BY DEF WellOpened
<1> HIDE DEF n, gs
<1>4. \A k \in 0..(n - 1) : OpenedIn(gs, k) = OpenedIn(fs, k)
  <2> SUFFICES ASSUME NEW k \in 0..(n - 1) PROVE OpenedIn(gs, k) = OpenedIn(fs, k)
    OBVIOUS
  <2>1. k \in Nat /\ \A i \in 1..k : gs[i].local = TRUE <=> fs[i].local = TRUE
    <3>1. k \in Nat /\ \A i \in 1..k : i \in 1..n /\ i # n
      BY <1>1
    <3> QED
      BY <3>1, <1>2
  <2> QED
    BY <2>1, OpenedAlike
<1>7. \A k \in 1..n : FrameInv(gs[k]) /\ gs[k].env <= 1 + OpenedIn(gs, k - 1)
  <2> SUFFICES ASSUME NEW k \in 1..n
               PROVE  FrameInv(gs[k]) /\ gs[k].env <= 1 + OpenedIn(gs, k - 1)
    OBVIOUS
  <2>1. k - 1 \in 0..(n - 1)
    BY <1>1
  <2>2. FrameInv(gs[k]) /\ gs[k].env = fs[k].env
    BY <1>2, <1>3
  <2> QED
    BY <2>1, <2>2, <1>3, <1>4
<1>8. \A k \in 1..(n - 1) : ~IsComplete(gs[k])
  <2>1. \A k \in 1..(n - 1) : k \in 1..n /\ k # n
    BY <1>1
  <2> QED
    BY <2>1, <1>2, <1>3
<1>9. WellOpened(gs, e2)
  BY <1>2, <1>3, <1>7, <1>8 DEF WellOpened
<1> QED
  BY <1>2, <1>9 DEF gs, n

\* How many environments a stack with another frame on the top has opened.
LEMMA TopCounts ==
  ASSUME NEW fs, NEW es, WellOpened(fs, es), Len(fs) > 0, NEW f
  PROVE  /\ Len(es) \in Nat
         /\ f.local = fs[Len(fs)].local
              => Len(es) = 1 + OpenedIn([fs EXCEPT ![Len(fs)] = f], Len(fs))
         /\ f.local # TRUE /\ fs[Len(fs)].local # TRUE
              => Len(es) = 1 + OpenedIn([fs EXCEPT ![Len(fs)] = f], Len(fs))
         /\ f.local = TRUE /\ fs[Len(fs)].local # TRUE
              => Len(es) + 1 = 1 + OpenedIn([fs EXCEPT ![Len(fs)] = f], Len(fs))
<1> DEFINE n == Len(fs)
           gs == [fs EXCEPT ![n] = f]
<1>1. n \in Nat /\ n > 0 /\ n - 1 \in Nat /\ n - 1 + 1 = n
  BY SequenceLength DEF WellOpened
<1>2. IsSequence(gs) /\ Len(gs) = n /\ (\A i \in 1..n : i # n => gs[i] = fs[i]) /\ gs[n] = f
  <2>1. IsSequence(fs)
    BY DEF WellOpened
  <2> QED
    BY <2>1, TopReplaced
<1>3. Len(es) = 1 + OpenedIn(fs, n) /\ Len(es) \in Nat
  BY SequenceLength DEF WellOpened
<1> HIDE DEF n, gs
<1>4. OpenedIn(gs, n - 1) = OpenedIn(fs, n - 1)
  <2>1. \A i \in 1..(n - 1) : gs[i].local = TRUE <=> fs[i].local = TRUE
    <3>1. \A i \in 1..(n - 1) : i \in 1..n /\ i # n
      BY <1>1
    <3> QED
      BY <3>1, <1>2
  <2> QED
    BY <1>1, <2>1, OpenedAlike
<1>5. \A hs : /\ OpenedIn(hs, n - 1) \in Nat
              /\ hs[n].local = TRUE => OpenedIn(hs, n) = OpenedIn(hs, n - 1) + 1
              /\ hs[n].local # TRUE => OpenedIn(hs, n) = OpenedIn(hs, n - 1)
  <2>1. \A hs : /\ OpenedIn(hs, n - 1) \in Nat
                /\ hs[n - 1 + 1].local = TRUE => OpenedIn(hs, n - 1 + 1) = OpenedIn(hs, n - 1) + 1
                /\ hs[n - 1 + 1].local # TRUE => OpenedIn(hs, n - 1 + 1) = OpenedIn(hs, n - 1)
    BY <1>1, OpenedCounts
  <2> QED
    BY <2>1, <1>1
<1>6. gs[n].local = f.local
  BY <1>2
<1>7. ASSUME f.local # TRUE, fs[n].local # TRUE PROVE Len(es) = 1 + OpenedIn(gs, n)
  BY <1>3, <1>4, <1>5, <1>6, <1>7
<1>8. ASSUME f.local = TRUE, fs[n].local = TRUE PROVE Len(es) = 1 + OpenedIn(gs, n)
  BY <1>3, <1>4, <1>5, <1>6, <1>8
<1>9. ASSUME f.local = TRUE, fs[n].local # TRUE PROVE Len(es) + 1 = 1 + OpenedIn(gs, n)
  <2>1. OpenedIn(gs, n) = OpenedIn(fs, n - 1) + 1 /\ OpenedIn(fs, n) = OpenedIn(fs, n - 1)
    BY <1>4, <1>5, <1>6, <1>9
  <2>2. OpenedIn(fs, n - 1) \in Nat
    BY <1>5
  <2> QED
    BY <2>1, <2>2, <1>3
<1>10. ASSUME f.local = fs[n].local PROVE Len(es) = 1 + OpenedIn(gs, n)
  <2>1. CASE f.local = TRUE
    BY <1>8, <1>10, <2>1
  <2>2. CASE f.local # TRUE
    BY <1>7, <1>10, <2>2
  <2> QED
    BY <2>1, <2>2
<1> QED
  BY <1>3, <1>7, <1>9, <1>10 DEF n, gs

-----------------------------------------------------------------------------
(***************************************************************************)
(* What the actions do to the stack.                                       *)
(***************************************************************************)
LEMMA NewFrame ==
  ASSUME NEW tree, NEW env \in Nat, env = 0 => tree.op \in {"apply", "walk"}
  PROVE  /\ FrameInv(Frame(tree, env)) /\ Frame(tree, env).local # TRUE
         /\ Frame(tree, env).env = env /\ Frame(tree, env).tree = tree
<1>1. <<>> \in Seq({})
  OBVIOUS
<1> QED
  BY <1>1 DEF Frame, FrameInv, IsSequence

\* A session, and the frame on its top.
LEMMA Topmost ==
  ASSUME StackInv, Depth > 0
  PROVE  /\ Depth \in Nat /\ Len(envs) \in Nat /\ IsSequence(envs) /\ FrameInv(Top)
         /\ Top.env \in Nat /\ Top.env <= Len(envs)
         /\ Top.env = 0 => Op \in {"apply", "walk"}
         /\ Top.local = TRUE => Op \in OpensEnv
<1>1. WellOpened(frames, envs) /\ Len(frames) > 0
  BY DEF StackInv, Depth
<1>2. /\ Len(frames) \in Nat /\ Len(envs) \in Nat /\ FrameInv(frames[Len(frames)])
      /\ frames[Len(frames)].env <= Len(envs)
  BY <1>1, Tops
<1> QED
  BY <1>1, <1>2 DEF Depth, Top, Op, FrameInv, WellOpened

LEMMA HeldReplaced ==
  ASSUME NEW g, FrameInv(g), NEW x
  PROVE  /\ FrameInv([g EXCEPT !.held = x]) /\ [g EXCEPT !.held = x].env = g.env
         /\ [g EXCEPT !.held = x].local = g.local
<1> DEFINE f == [g EXCEPT !.held = x]
<1>1. f = [tree |-> g.tree, env |-> g.env, local |-> g.local, held |-> x, done |-> g.done]
  BY DEF FrameInv
<1> HIDE DEF f
<1>2. f.tree = g.tree /\ f.env = g.env /\ f.local = g.local /\ f.held = x /\ f.done = g.done
  BY <1>1
<1>3. FrameInv(f)
  BY <1>1, <1>2 DEF FrameInv
<1> QED
  BY <1>2, <1>3 DEF f

LEMMA DoneReplaced ==
  ASSUME NEW g, FrameInv(g), NEW x, IsSequence(x)
  PROVE  /\ FrameInv([g EXCEPT !.done = x]) /\ [g EXCEPT !.done = x].env = g.env
         /\ [g EXCEPT !.done = x].local = g.local
<1> DEFINE f == [g EXCEPT !.done = x]
<1>1. f = [tree |-> g.tree, env |-> g.env, local |-> g.local, held |-> g.held, done |-> x]
  BY DEF FrameInv
<1> HIDE DEF f
<1>2. f.tree = g.tree /\ f.env = g.env /\ f.local = g.local /\ f.held = g.held /\ f.done = x
  BY <1>1
<1>3. FrameInv(f)
  BY <1>1, <1>2 DEF FrameInv
<1> QED
  BY <1>2, <1>3 DEF f

LEMMA ReturnKeeps ==
  ASSUME StackInv, Depth > 0, error = NoError, NEW v, Return(v), IsSequence(envs'),
         Top.local = TRUE => Len(envs') = Len(envs) - 1,
         Top.local # TRUE => Len(envs') = Len(envs)
  PROVE  StackInv'
<1>1. WellOpened(frames, envs) /\ Len(frames) > 0 /\ frames[Len(frames)] = Top
  BY DEF StackInv, Depth, Top
<1>2. /\ WellOpened(Front(frames), envs') /\ Len(Front(frames)) = Len(frames) - 1
      /\ Len(frames) > 1 => ~IsComplete(Front(frames)[Len(frames) - 1])
  BY <1>1, Popped
<1>3. error' = NoError
  BY DEF Return
<1>4. Depth \in Nat
  BY Topmost
<1>5. CASE Depth = 1
  <2>1. frames' = <<>> /\ Len(Front(frames)) = 0
    BY <1>2, <1>5 DEF Return, Depth
  <2>2. Front(frames) = <<>>
    BY <1>2, <2>1, SequenceLength DEF WellOpened
  <2> QED
    BY <1>2, <1>3, <2>1, <2>2 DEF StackInv, ErrorInv
<1>6. CASE Depth > 1
  <2> DEFINE fs == Front(frames)
             top == fs[Len(fs)]
             f == [top EXCEPT !.done = Append(@, v)]
  <2>1. Len(fs) = Depth - 1 /\ Len(fs) > 0
    BY <1>2, <1>4, <1>6 DEF Depth
  <2>2. frames' = [fs EXCEPT ![Depth - 1].done = Append(@, v)]
    BY <1>4, <1>6 DEF Return
  <2>3. frames' = [fs EXCEPT ![Len(fs)] = f]
    BY <2>1, <2>2
  <2>4. FrameInv(top)
    BY <1>2, <2>1, Tops
  <2>5. IsSequence(Append(top.done, v))
    BY <2>4, Appended DEF FrameInv
  <2>6. FrameInv(f) /\ f.env = top.env /\ f.local = top.local
    <3> DEFINE d == Append(top.done, v)
    <3>1. f = [top EXCEPT !.done = d] /\ IsSequence(d)
      BY <2>5
    <3> HIDE DEF d, top, f
    <3> QED
      BY <2>4, <3>1, DoneReplaced
  <2>9. WellOpened([fs EXCEPT ![Len(fs)] = f], envs')
    <3>1. WellOpened(fs, envs') /\ IsSequence(envs')
      BY <1>2
    <3>2. f.env = fs[Len(fs)].env /\ f.local = fs[Len(fs)].local
      BY <2>6
    <3> HIDE DEF f, fs
    <3>3. Len(envs') = 1 + OpenedIn([fs EXCEPT ![Len(fs)] = f], Len(fs))
      BY <2>1, <3>1, <3>2, TopCounts
    <3> QED
      BY <2>1, <2>6, <3>1, <3>2, <3>3, Retopped
  <2> QED
    BY <1>3, <2>3, <2>9 DEF StackInv, ErrorInv
<1> QED
  BY <1>4, <1>5, <1>6

\* Most frames have opened nothing.
LEMMA ReturnInside ==
  ASSUME StackInv, Depth > 0, error = NoError, NEW v, Return(v), Top.local # TRUE,
         UNCHANGED envs
  PROVE  StackInv'
<1>1. IsSequence(envs') /\ Len(envs') = Len(envs)
  BY DEF StackInv, WellOpened
<1> QED
  BY <1>1, ReturnKeeps

LEMMA FailKeeps ==
  ASSUME StackInv, Depth > 0, NEW diag, Fail(diag), UNCHANGED envs,
         Op = "call" /\ IsComplete(Top) => diag # "NAME_UNBOUND"
  PROVE  StackInv'
BY DEF StackInv, ErrorInv, Fail, Depth, Top, Op

LEMMA PushKeeps ==
  ASSUME StackInv, Depth > 0, error = NoError, ~IsComplete(Top), NEW f, Push(f),
         FrameInv(f), f.local # TRUE, f.env <= Len(envs),
         IsSequence(envs'), Len(envs') = Len(envs)
  PROVE  StackInv'
<1>1. WellOpened(frames, envs) /\ ~IsComplete(frames[Len(frames)])
  BY DEF StackInv, Depth, Top
<1>2. WellOpened(Append(frames, f), envs)
  BY <1>1, Pushed
<1>3. WellOpened(frames', envs')
  BY <1>2, SameNumberOfEnvs DEF Push
<1> QED
  BY <1>3 DEF StackInv, ErrorInv, Push

LEMMA ChildKeeps ==
  ASSUME StackInv, Depth > 0, error = NoError, ~IsComplete(Top), NEW tree, Child(tree),
         Op \notin {"apply", "walk"}, UNCHANGED envs
  PROVE  StackInv'
<1>1. Top.env \in Nat /\ Top.env <= Len(envs) /\ Top.env # 0 /\ IsSequence(envs)
  BY Topmost
<1> DEFINE f == Frame(tree, Top.env)
<1>2. FrameInv(f) /\ f.local # TRUE /\ f.env = Top.env
  BY <1>1, NewFrame
<1>3. Push(f) /\ IsSequence(envs') /\ Len(envs') = Len(envs)
  BY <1>1 DEF Child
<1> HIDE DEF f
<1> QED
  BY <1>1, <1>2, <1>3, PushKeeps

LEMMA SetTopKeeps ==
  ASSUME StackInv, Depth > 0, error = NoError, NEW f, SetTop(f), UNCHANGED error,
         FrameInv(f), f.env = Top.env, f.local # TRUE, Top.local # TRUE, UNCHANGED envs
  PROVE  StackInv'
<1>1. WellOpened(frames, envs) /\ IsSequence(envs) /\ Top = frames[Len(frames)]
  BY DEF StackInv, WellOpened, Depth, Top
<1>2. Len(frames) > 0 /\ f.env = frames[Len(frames)].env /\ frames[Len(frames)].local # TRUE
  BY <1>1 DEF Depth
<1>3. Len(envs) = 1 + OpenedIn([frames EXCEPT ![Len(frames)] = f], Len(frames))
  BY <1>1, <1>2, TopCounts
<1>4. WellOpened([frames EXCEPT ![Len(frames)] = f], envs)
  BY <1>1, <1>2, <1>3, Retopped
<1> QED
  BY <1>4 DEF StackInv, ErrorInv, SetTop, Depth

LEMMA BecomeKeeps ==
  ASSUME StackInv, Depth > 0, error = NoError, NEW tree, Become(tree),
         Op \notin {"apply", "walk"}, Top.local # TRUE, UNCHANGED envs
  PROVE  StackInv'
<1>1. Top.env \in Nat /\ Top.env # 0
  BY Topmost
<1> DEFINE f == Frame(tree, Top.env)
<1>2. FrameInv(f) /\ f.local # TRUE /\ f.env = Top.env
  BY <1>1, NewFrame
<1>3. SetTop(f) /\ UNCHANGED error
  BY DEF Become
<1> HIDE DEF f
<1> QED
  BY <1>2, <1>3, SetTopKeeps

LEMMA WithLocal ==
  ASSUME NEW f, NEW b,
         f = [tree |-> f.tree, env |-> f.env, local |-> f.local, held |-> f.held, done |-> f.done]
  PROVE  [f EXCEPT !.local = b]
           = [tree |-> f.tree, env |-> f.env, local |-> b, held |-> f.held, done |-> f.done]
OBVIOUS

\* where and the application of a function open an environment and evaluate in it.
LEMMA OpenKeeps ==
  ASSUME StackInv, Depth > 0, error = NoError, Top.local # TRUE, Op \in OpensEnv,
         NEW e, OpenEnv(e), NEW tree, UNCHANGED error,
         frames' = Append([frames EXCEPT ![Depth] = Local], Frame(tree, Len(envs) + 1))
  PROVE  StackInv'
<1>1. /\ WellOpened(frames, envs) /\ IsSequence(envs) /\ Top = frames[Len(frames)]
      /\ FrameInv(Top) /\ Len(envs) \in Nat
  BY Topmost DEF StackInv, Depth, Top
<1>2. IsSequence(envs') /\ Len(envs') = Len(envs) + 1
  BY <1>1, Appended DEF OpenEnv
<1>3. Local = [tree |-> Top.tree, env |-> Top.env, local |-> TRUE, held |-> Top.held,
               done |-> Top.done]
  <2>1. Top = [tree |-> Top.tree, env |-> Top.env, local |-> Top.local, held |-> Top.held,
               done |-> Top.done]
    BY <1>1 DEF FrameInv
  <2> HIDE DEF Top
  <2>2. [Top EXCEPT !.local = TRUE]
          = [tree |-> Top.tree, env |-> Top.env, local |-> TRUE, held |-> Top.held, done |-> Top.done]
    BY <2>1, WithLocal
  <2> QED
    BY <2>2 DEF Local
<1>4. FrameInv(Local) /\ Local.env = Top.env /\ Local.local = TRUE
  <2>1. Local.local = TRUE /\ Local.tree = Top.tree /\ Local.env = Top.env
        /\ Local.held = Top.held /\ Local.done = Top.done
    BY <1>3
  <2>2. Local.tree.op \in OpensEnv
    BY <2>1 DEF Op
  <2>3. Local = [tree |-> Local.tree, env |-> Local.env, local |-> Local.local,
                 held |-> Local.held, done |-> Local.done]
    BY <1>3, <2>1
  <2>4. Local.env = 0 => Local.tree.op \in {"apply", "walk"}
    BY <1>1, <2>1 DEF FrameInv
  <2>5. IsSequence(Local.done) /\ Local.env \in Nat
    BY <1>1, <2>1 DEF FrameInv
  <2>6. FrameInv(Local)
    BY <2>2, <2>3, <2>4, <2>5 DEF FrameInv
  <2> QED
    BY <2>1, <2>6
<1> DEFINE gs == [frames EXCEPT ![Len(frames)] = Local]
<1>5. WellOpened(gs, envs') /\ Len(gs) = Len(frames) /\ gs[Len(frames)] = Local
  <2> DEFINE f == Local
  <2>1. /\ FrameInv(f) /\ f.env = frames[Len(frames)].env /\ f.local = TRUE
        /\ frames[Len(frames)].local # TRUE
    BY <1>1, <1>4
  <2>2. gs = [frames EXCEPT ![Len(frames)] = f] /\ Len(frames) > 0
    BY DEF Depth
  <2> HIDE DEF f, gs
  <2>5. FrameInv(f) /\ f.env = frames[Len(frames)].env /\ f.local = TRUE
    BY <2>1
  <2>6. frames[Len(frames)].local # TRUE
    BY <2>1
  <2>3. /\ WellOpened([frames EXCEPT ![Len(frames)] = f], envs')
        /\ Len([frames EXCEPT ![Len(frames)] = f]) = Len(frames)
        /\ [frames EXCEPT ![Len(frames)] = f][Len(frames)] = f
    <3>1. Len(envs) + 1 = 1 + OpenedIn([frames EXCEPT ![Len(frames)] = f], Len(frames))
      BY <1>1, <2>2, <2>5, <2>6, TopCounts
    <3>2. Len(envs') = 1 + OpenedIn([frames EXCEPT ![Len(frames)] = f], Len(frames))
      BY <1>2, <3>1
    <3> QED
      BY <1>1, <1>2, <2>2, <2>5, <3>2, Retopped
  <2> QED
    BY <2>2, <2>3 DEF f
<1>6. ~IsComplete(gs[Len(gs)])
  BY <1>4, <1>5 DEF IsComplete
<1>7. /\ FrameInv(Frame(tree, Len(envs) + 1)) /\ Frame(tree, Len(envs) + 1).local # TRUE
      /\ Frame(tree, Len(envs) + 1).env = Len(envs) + 1
  <2> DEFINE m == Len(envs) + 1
  <2>1. m \in Nat /\ m # 0
    BY <1>1
  <2> HIDE DEF m
  <2>2. FrameInv(Frame(tree, m)) /\ Frame(tree, m).local # TRUE /\ Frame(tree, m).env = m
    BY <2>1, NewFrame
  <2> QED
    BY <2>2 DEF m
<1>8. WellOpened(Append(gs, Frame(tree, Len(envs) + 1)), envs')
  <2> DEFINE f == Frame(tree, Len(envs) + 1)
  <2>1. FrameInv(f) /\ f.local # TRUE /\ f.env = Len(envs')
    BY <1>2, <1>7
  <2>3. Len(envs') <= Len(envs')
    BY <1>1, <1>2
  <2> HIDE DEF gs, f
  <2>2. WellOpened(Append(gs, f), envs')
    BY <1>5, <1>6, <2>1, <2>3, Pushed
  <2> QED
    BY <2>2 DEF f
<1> QED
  BY <1>8 DEF StackInv, ErrorInv, Depth

LEMMA SetEnvKeeps ==
  ASSUME StackInv, NEW env, SetEnv(env)
  PROVE  IsSequence(envs') /\ Len(envs') = Len(envs)
BY Replaced DEF StackInv, WellOpened, SetEnv

LEMMA CloseEnvShortens ==
  ASSUME StackInv, Depth > 0, Top.local = TRUE, CloseEnv
  PROVE  IsSequence(envs') /\ Len(envs') = Len(envs) - 1
<1> DEFINE n == Len(frames)
<1>1. n \in Nat /\ n > 0 /\ IsSequence(envs) /\ Len(envs) = 1 + OpenedIn(frames, n)
  BY Topmost DEF StackInv, WellOpened, Depth
<1>2. OpenedIn(frames, n) \in Nat
  BY <1>1, OpenedCounts
<1>3. Len(envs) > 0
  BY <1>1, <1>2
<1> QED
  BY <1>1, <1>3, Shortened DEF CloseEnv

-----------------------------------------------------------------------------
(***************************************************************************)
(* One step for each action.                                               *)
(***************************************************************************)
LEMMA StackInit == Init => StackInv
<1> SUFFICES ASSUME Init PROVE StackInv
  OBVIOUS
<1> DEFINE e == [x \in {} |-> IntValue(0)]
<1>1. frames = <<>> /\ envs = <<e>> /\ error = NoError
  BY DEF Init
<1>2. /\ <<>> \in Seq({}) /\ Len(<<>>) = 0 /\ 1..0 = {} /\ 1..(0 - 1) = {}
      /\ <<e>> \in Seq({e}) /\ Len(<<e>>) = 1
  OBVIOUS
<1>3. OpenedIn(frames, 0) = 0
  BY OpenedCounts
<1> HIDE DEF e
<1>5. IsSequence(frames) /\ IsSequence(envs)
  BY <1>1, <1>2 DEF IsSequence
<1>6. Len(frames) = 0 /\ Len(envs) = 1 /\ 1..Len(frames) = {} /\ 1..(Len(frames) - 1) = {}
  BY <1>1, <1>2
<1>4. WellOpened(frames, envs)
  BY <1>3, <1>5, <1>6 DEF WellOpened
<1> QED
  BY <1>1, <1>4 DEF StackInv, ErrorInv

LEMMA EnterKeeps == StackInv /\ Enter => StackInv'
<1> SUFFICES ASSUME StackInv, Enter PROVE StackInv'
  OBVIOUS
<1> DEFINE f == Frame(program[next], 1)
<1>1. WellOpened(frames, envs) /\ Len(frames) = 0 /\ error = NoError /\ envs' = envs /\ error' = error
  BY DEF Enter, StackInv, Depth
<1>2. frames = <<>> /\ Len(envs) = 1
  <2>1. OpenedIn(frames, 0) = 0
    BY OpenedCounts
  <2> QED
    BY <1>1, <2>1, SequenceLength DEF WellOpened
<1>3. FrameInv(f) /\ f.local # TRUE /\ f.env = 1
  <2>1. 1 \in Nat /\ 1 # 0
    OBVIOUS
  <2> QED
    BY <2>1, NewFrame
<1>4. frames' = Append(frames, f)
  BY <1>2 DEF Enter
<1> HIDE DEF f
<1>5. WellOpened(Append(frames, f), envs)
  <2>1. f.env <= Len(envs) /\ ~(Len(frames) > 0)
    BY <1>1, <1>2, <1>3
  <2> QED
    BY <1>1, <1>3, <2>1, Pushed
<1> QED
  BY <1>1, <1>4, <1>5 DEF StackInv, ErrorInv

\* Evaluation of anything but where and calls opens nothing and cannot be complete.
LEMMA InsideOperands ==
  ASSUME StackInv, NEW ops, Evaluating(ops), ops \cap OpensEnv = {}
  PROVE  Depth > 0 /\ error = NoError /\ Op \in ops /\ Top.local # TRUE
         /\ ~IsComplete(Top) /\ Op # "call" /\ Op # "apply"
<1>1. Depth > 0 /\ error = NoError /\ Op \in ops
  BY DEF Evaluating
<1>2. Op \notin OpensEnv
  BY <1>1
<1> QED
  BY <1>1, <1>2, Topmost DEF OpensEnv, Calls, IsComplete, Op

LEMMA InsideOperation ==
  ASSUME StackInv, NEW op, Evaluating({op}), op \notin OpensEnv
  PROVE  /\ Depth > 0 /\ error = NoError /\ Op = op /\ Top.local # TRUE /\ ~IsComplete(Top)
         /\ Op # "call" /\ Op # "apply"
<1>1. {op} \cap OpensEnv = {}
  OBVIOUS
<1>2. Op \in {op}
  BY DEF Evaluating
<1> QED
  BY <1>1, <1>2, InsideOperands

LEMMA OperatorsOpenNothing ==
  Strict \cap OpensEnv = {} /\ "walk" \notin Strict
<1>1. \A op \in Operations \cup Orderings \cup Equalities : op \notin OpensEnv /\ op # "walk"
  BY DEF Operations, Divisions, Orderings, Equalities, OpensEnv
<1>2. \A op \in Unary \cup Logical \cup {"cons", "if", "class"} : op \notin OpensEnv /\ op # "walk"
  BY DEF Unary, Logical, OpensEnv
<1> QED
  BY <1>1, <1>2 DEF Strict, Binary

LEMMA OperandKeeps == StackInv /\ EvalOperand => StackInv'
<1> SUFFICES ASSUME StackInv, EvalOperand PROVE StackInv'
  OBVIOUS
<1>1. Evaluating(Strict) /\ UNCHANGED envs
  BY DEF EvalOperand, Only, store
<1>2. Strict \cap OpensEnv = {} /\ "walk" \notin Strict
  BY OperatorsOpenNothing
<1>3. Depth > 0 /\ error = NoError /\ Op \in Strict /\ ~IsComplete(Top) /\ Op # "call" /\ Op # "apply"
  BY <1>1, <1>2, InsideOperands
<1>4. CASE Child(Kid(Done + 1))
  BY <1>1, <1>2, <1>3, <1>4, ChildKeeps
<1>5. CASE Fail(Expected(Done)[2])
  BY <1>1, <1>3, <1>5, FailKeeps
<1> QED
  BY <1>4, <1>5 DEF EvalOperand

\* Actions that return or fail, with nothing opened.
LEMMA AnswerUnchanged ==
  ASSUME StackInv, NEW ops, Evaluating(ops), ops \cap OpensEnv = {}, UNCHANGED envs,
         (\E v : Return(v)) \/ (\E diag : Fail(diag))
  PROVE  StackInv'
<1>1. Depth > 0 /\ error = NoError /\ ~IsComplete(Top) /\ Top.local # TRUE
  BY InsideOperands
<1>2. CASE \E v : Return(v)
  BY <1>1, <1>2, ReturnInside
<1>3. CASE \E diag : Fail(diag)
  BY <1>1, <1>3, FailKeeps
<1> QED
  BY <1>2, <1>3

LEMMA AnswerSettingEnv ==
  ASSUME StackInv, NEW ops, Evaluating(ops), ops \cap OpensEnv = {},
         \E v : Return(v), \E env : SetEnv(env)
  PROVE  StackInv'
<1>1. Depth > 0 /\ error = NoError /\ Top.local # TRUE
  BY InsideOperands
<1>2. IsSequence(envs') /\ Len(envs') = Len(envs)
  BY SetEnvKeeps
<1> QED
  BY <1>1, <1>2, ReturnKeeps

LEMMA OperatorKeeps == StackInv /\ EvalOperator => StackInv'
<1> SUFFICES ASSUME StackInv, EvalOperator PROVE StackInv'
  OBVIOUS
<1> DEFINE ops == Unary \cup Binary
<1>1. Evaluating(ops) /\ UNCHANGED envs
  BY DEF EvalOperator, Only, store
<1>2. ops \cap OpensEnv = {}
  BY OperatorsOpenNothing DEF Strict
<1>3. (\E v : Return(v)) \/ (\E diag : Fail(diag))
  <2>1. CASE ~Accepted
    BY <2>1 DEF EvalOperator
  <2>2. CASE Accepted /\ Op \in Operations
    BY <2>2 DEF EvalOperator, ReturnOrFail
  <2>3. CASE Accepted /\ Op = "neg"
    BY <2>3 DEF EvalOperator, ReturnOrFail
  <2>4. CASE Accepted /\ Op \notin Operations /\ Op # "neg"
    BY <2>4 DEF EvalOperator
  <2> QED
    BY <2>1, <2>2, <2>3, <2>4
<1> HIDE DEF ops
<1> QED
  BY <1>1, <1>2, <1>3, AnswerUnchanged

LEMMA DecidedKeeps == StackInv /\ EvalDecided => StackInv'
<1> SUFFICES ASSUME StackInv, EvalDecided PROVE StackInv'
  OBVIOUS
<1>1. Evaluating(Logical) /\ UNCHANGED envs /\ \E v : Return(v)
  BY DEF EvalDecided, Only, store
<1>2. Logical \cap OpensEnv = {}
  BY DEF Logical, OpensEnv
<1> QED
  BY <1>1, <1>2, AnswerUnchanged

LEMMA LeastIntKeeps == StackInv /\ EvalLeastInt => StackInv'
<1> SUFFICES ASSUME StackInv, EvalLeastInt PROVE StackInv'
  OBVIOUS
<1>1. Evaluating({"neg"}) /\ UNCHANGED envs /\ \E v : Return(v)
  BY DEF EvalLeastInt, Only, store
<1>2. {"neg"} \cap OpensEnv = {}
  BY DEF OpensEnv
<1> QED
  BY <1>1, <1>2, AnswerUnchanged

LEMMA ConditionalKeeps == StackInv /\ EvalConditional => StackInv'
<1> SUFFICES ASSUME StackInv, EvalConditional PROVE StackInv'
  OBVIOUS
<1>1. Evaluating({"if"}) /\ UNCHANGED envs
  BY DEF EvalConditional, Only, store
<1>2. {"if"} \cap OpensEnv = {}
  BY DEF OpensEnv
<1>6. "if" \notin OpensEnv
  BY DEF OpensEnv
<1>3. CASE \E tree : Become(tree)
  <2>1. Depth > 0 /\ error = NoError /\ Op = "if" /\ Top.local # TRUE
    BY <1>1, <1>6, InsideOperation
  <2> QED
    BY <1>1, <1>3, <2>1, BecomeKeeps
<1>4. CASE \E diag : Fail(diag)
  BY <1>1, <1>2, <1>4, AnswerUnchanged
<1> QED
  BY <1>3, <1>4 DEF EvalConditional

LEMMA LeafKeeps == StackInv /\ EvalLeaf => StackInv'
<1> SUFFICES ASSUME StackInv, EvalLeaf PROVE StackInv'
  OBVIOUS
<1> DEFINE ops == {"int", "bool", "nil", "id"}
<1>1. Evaluating(ops) /\ UNCHANGED envs
  BY DEF EvalLeaf, Only, store
<1>2. ops \cap OpensEnv = {}
  BY DEF OpensEnv
<1>3. Op \in ops
  BY <1>1 DEF Evaluating
<1>4. (\E v : Return(v)) \/ (\E diag : Fail(diag))
  <2>1. CASE Op = "int"
    BY <2>1 DEF EvalLeaf, ReturnOrFail
  <2>2. CASE Op = "bool"
    BY <2>2 DEF EvalLeaf
  <2>3. CASE Op = "nil"
    BY <2>3 DEF EvalLeaf
  <2>4. CASE Op = "id"
    BY <2>4 DEF EvalLeaf
  <2> QED
    BY <1>3, <2>1, <2>2, <2>3, <2>4
<1> HIDE DEF ops
<1> QED
  BY <1>1, <1>2, <1>4, AnswerUnchanged

LEMMA GroupKeeps == StackInv /\ EvalGroup => StackInv'
<1> SUFFICES ASSUME StackInv, EvalGroup PROVE StackInv'
  OBVIOUS
<1>1. Evaluating({"group"}) /\ UNCHANGED envs /\ \E tree : Become(tree)
  BY DEF EvalGroup, Only, store
<1>2. "group" \notin OpensEnv
  BY DEF OpensEnv
<1>3. Depth > 0 /\ error = NoError /\ Op = "group" /\ Top.local # TRUE
  BY <1>1, <1>2, InsideOperation
<1> QED
  BY <1>1, <1>3, BecomeKeeps

LEMMA SequenceKeeps == StackInv /\ EvalSequence => StackInv'
<1> SUFFICES ASSUME StackInv, EvalSequence PROVE StackInv'
  OBVIOUS
<1>1. Evaluating({";"}) /\ UNCHANGED envs /\ ((\E tree : Become(tree)) \/ (\E tree : Child(tree)))
  BY DEF EvalSequence, Only, store
<1>2. ";" \notin OpensEnv
  BY DEF OpensEnv
<1>3. Depth > 0 /\ error = NoError /\ Op = ";" /\ Top.local # TRUE /\ ~IsComplete(Top)
  BY <1>1, <1>2, InsideOperation
<1>4. CASE \E tree : Become(tree)
  BY <1>1, <1>3, <1>4, BecomeKeeps
<1>5. CASE \E tree : Child(tree)
  BY <1>1, <1>3, <1>5, ChildKeeps
<1> QED
  BY <1>1, <1>4, <1>5

LEMMA FunctionLiteralKeeps == StackInv /\ EvalFunctionLiteral => StackInv'
<1> SUFFICES ASSUME StackInv, EvalFunctionLiteral PROVE StackInv'
  OBVIOUS
<1>1. Evaluating({"::"}) /\ UNCHANGED envs /\ \E v : Return(v)
  BY DEF EvalFunctionLiteral, Only
<1>2. {"::"} \cap OpensEnv = {}
  BY DEF OpensEnv
<1> QED
  BY <1>1, <1>2, AnswerUnchanged

LEMMA AssignmentKeeps == StackInv /\ EvalAssignment => StackInv'
<1> SUFFICES ASSUME StackInv, EvalAssignment PROVE StackInv'
  OBVIOUS
<1>1. Evaluating({":="})
  BY DEF EvalAssignment
<1>2. {":="} \cap OpensEnv = {}
  BY DEF OpensEnv
<1>6. ":=" \notin OpensEnv
  BY DEF OpensEnv
<1>3. CASE Done = 0
  <2>1. Child(Kid(1)) /\ UNCHANGED envs
    BY <1>3 DEF EvalAssignment
  <2>2. Depth > 0 /\ error = NoError /\ Op = ":=" /\ ~IsComplete(Top)
    BY <1>1, <1>6, InsideOperation
  <2> QED
    BY <2>1, <2>2, ChildKeeps
<1>4. CASE Done # 0
  <2>1. (\E v : Return(v)) /\ \E env : SetEnv(env)
    BY <1>4 DEF EvalAssignment
  <2> QED
    BY <1>1, <1>2, <2>1, AnswerSettingEnv
<1> QED
  BY <1>3, <1>4

LEMMA ClassDefinitionKeeps == StackInv /\ EvalClassDefinition => StackInv'
<1> SUFFICES ASSUME StackInv, EvalClassDefinition PROVE StackInv'
  OBVIOUS
<1>1. Evaluating({"class"})
  BY DEF EvalClassDefinition
<1>2. {"class"} \cap OpensEnv = {}
  BY DEF OpensEnv
<1>3. CASE Accepted
  <2>1. (\E v : Return(v)) /\ \E env : SetEnv(env)
    BY <1>3 DEF EvalClassDefinition
  <2> QED
    BY <1>1, <1>2, <2>1, AnswerSettingEnv
<1>4. CASE ~Accepted
  <2>1. (\E diag : Fail(diag)) /\ UNCHANGED envs
    BY <1>4 DEF EvalClassDefinition
  <2> QED
    BY <1>1, <1>2, <2>1, AnswerUnchanged
<1> QED
  BY <1>3, <1>4

LEMMA RecursiveAssignmentKeeps == StackInv /\ EvalRecursiveAssignment => StackInv'
<1> SUFFICES ASSUME StackInv, EvalRecursiveAssignment PROVE StackInv'
  OBVIOUS
<1>1. Evaluating({"f:="}) /\ (\E v : Return(v)) /\ \E env : SetEnv(env)
  BY DEF EvalRecursiveAssignment
<1>2. {"f:="} \cap OpensEnv = {}
  BY DEF OpensEnv
<1> QED
  BY <1>1, <1>2, AnswerSettingEnv

\* The environment that a frame has opened is closed as it returns.
LEMMA LeaveKeeps ==
  ASSUME StackInv, Depth > 0, error = NoError, Top.local, CloseEnv, NEW v, Return(v)
  PROVE  StackInv'
<1>1. Top.local = TRUE \/ Top.local # TRUE
  OBVIOUS
<1>2. IsSequence(envs') /\ Len(envs') = Len(envs) - 1
  BY CloseEnvShortens
<1> QED
  BY <1>2, ReturnKeeps

LEMMA CollectFixKeeps == StackInv /\ CollectFix => StackInv'
<1> SUFFICES ASSUME StackInv, CollectFix PROVE StackInv'
  OBVIOUS
<1> DEFINE h == IF Top.held = <<>> THEN <<Kid(1)>> ELSE Unnested(Top.held)
           f == [Top EXCEPT !.held = h]
<1>1. Evaluating({"fix"}) /\ UNCHANGED envs /\ UNCHANGED error
  BY DEF CollectFix, Only, store
<1>2. SetTop(f)
  BY DEF CollectFix
<1>3. "fix" \notin OpensEnv
  BY DEF OpensEnv
<1>4. Depth > 0 /\ error = NoError /\ Top.local # TRUE
  BY <1>1, <1>3, InsideOperation
<1>5. FrameInv(Top)
  BY <1>4, Topmost
<1> HIDE DEF h
<1>6. FrameInv(f) /\ f.env = Top.env /\ f.local = Top.local
  <2> HIDE DEF Top
  <2> QED
    BY <1>5, HeldReplaced
<1> HIDE DEF f
<1>7. f.local # TRUE
  BY <1>4, <1>6
<1> QED
  BY <1>1, <1>2, <1>4, <1>6, <1>7, SetTopKeeps

LEMMA FixKeeps == StackInv /\ EvalFix => StackInv'
<1> SUFFICES ASSUME StackInv, EvalFix PROVE StackInv'
  OBVIOUS
<1>1. Evaluating({"fix"})
  BY DEF EvalFix
<1>2. {"fix"} \cap OpensEnv = {}
  BY DEF OpensEnv
<1>3. CASE FixDiagnostic(Top.tree.names, Top.held) # NoError
  <2>1. (\E diag : Fail(diag)) /\ UNCHANGED envs
    BY <1>3 DEF EvalFix
  <2> QED
    BY <1>1, <1>2, <2>1, AnswerUnchanged
<1>4. CASE FixDiagnostic(Top.tree.names, Top.held) = NoError
  <2>1. (\E v : Return(v)) /\ \E env : SetEnv(env)
    BY <1>4 DEF EvalFix
  <2> QED
    BY <1>1, <1>2, <2>1, AnswerSettingEnv
<1> QED
  BY <1>3, <1>4

LEMMA WhereKeeps == StackInv /\ EvalWhere => StackInv'
<1> SUFFICES ASSUME StackInv, EvalWhere PROVE StackInv'
  OBVIOUS
<1>1. Depth > 0 /\ error = NoError /\ Op = "where"
  BY DEF EvalWhere, Evaluating
<1>2. ~IsComplete(Top) /\ Op \in OpensEnv
  BY <1>1 DEF IsComplete, Calls, OpensEnv, Op
<1>3. Len(envs) \in Nat /\ IsSequence(envs) /\ Len(envs) > 0
  <2>1. /\ Len(envs) \in Nat /\ IsSequence(envs) /\ Depth \in Nat
        /\ Len(envs) = 1 + OpenedIn(frames, Len(frames))
    BY <1>1, Topmost DEF StackInv, WellOpened
  <2>2. OpenedIn(frames, Len(frames)) \in Nat
    BY <2>1, OpenedCounts DEF Depth
  <2> QED
    BY <2>1, <2>2
<1>4. CASE ~Top.local /\ OpenEnv(Env) /\ UNCHANGED error
           /\ frames' = Append([frames EXCEPT ![Depth] = Local], Frame(Kid(2), Len(envs) + 1))
  <2>1. Top.local # TRUE
    BY <1>4
  <2> QED
    BY <1>1, <1>2, <1>4, <2>1, OpenKeeps
<1>5. CASE envs' = [envs EXCEPT ![Len(envs)] = Define(@, Target, Result(1))] /\ Push(Frame(Kid(1), Len(envs)))
  <2> DEFINE f == Frame(Kid(1), Len(envs))
             e == Define(envs[Len(envs)], Target, Result(1))
  <2>1. FrameInv(f) /\ f.local # TRUE /\ f.env = Len(envs)
    <3> DEFINE n == Len(envs)
    <3>1. n \in Nat /\ n # 0
      BY <1>3
    <3> HIDE DEF n
    <3>2. FrameInv(Frame(Kid(1), n)) /\ Frame(Kid(1), n).local # TRUE /\ Frame(Kid(1), n).env = n
      BY <3>1, NewFrame
    <3> QED
      BY <3>2 DEF n
  <2>2. envs' = [envs EXCEPT ![Len(envs)] = e] /\ Push(f)
    BY <1>5
  <2> HIDE DEF f, e
  <2>3. IsSequence(envs') /\ Len(envs') = Len(envs)
    BY <1>3, <2>2, Replaced
  <2>4. f.env <= Len(envs)
    BY <1>3, <2>1
  <2> QED
    BY <1>1, <1>2, <2>1, <2>2, <2>3, <2>4, PushKeeps
<1>6. CASE Top.local /\ CloseEnv /\ Return(Result(2))
  BY <1>1, <1>6, LeaveKeeps
<1> QED
  BY <1>4, <1>5, <1>6 DEF EvalWhere, Push, Return

LEMMA AttributeKeeps == StackInv /\ EvalAttribute => StackInv'
<1> SUFFICES ASSUME StackInv, EvalAttribute PROVE StackInv'
  OBVIOUS
<1>1. Evaluating({"attr"}) /\ UNCHANGED envs
  BY DEF EvalAttribute, Only, store
<1>2. {"attr"} \cap OpensEnv = {} /\ "attr" \notin OpensEnv
  BY DEF OpensEnv
<1>3. CASE Child(Kid(1))
  <2>1. Depth > 0 /\ error = NoError /\ Op = "attr" /\ ~IsComplete(Top)
    BY <1>1, <1>2, InsideOperation
  <2> QED
    BY <1>1, <1>3, <2>1, ChildKeeps
<1>4. CASE (\E v : Return(v)) \/ (\E diag : Fail(diag))
  BY <1>1, <1>2, <1>4, AnswerUnchanged
<1> QED
  BY <1>3, <1>4 DEF EvalAttribute

\* The diagnostics of a call that is refused.
LEMMA RefusedWithReason ==
  ASSUME NEW v, NEW count
  PROVE  CallDiagnostic(v, count) # "NAME_UNBOUND"
BY DEF CallDiagnostic, NoError

LEMMA CalleeKeeps == StackInv /\ EvalCallee => StackInv'
<1> SUFFICES ASSUME StackInv, EvalCallee PROVE StackInv'
  OBVIOUS
<1>1. Depth > 0 /\ error = NoError /\ Op = "call" /\ UNCHANGED envs
  BY DEF EvalCallee, Evaluating, Only, store
<1>2. CASE Done = 1 /\ CallDiagnostic(Callee, Count) # NoError
  <2>1. Fail(CallDiagnostic(Callee, Count))
    BY <1>2 DEF EvalCallee
  <2> QED
    BY <1>1, <2>1, FailKeeps, RefusedWithReason
<1>3. CASE ~(Done = 1 /\ CallDiagnostic(Callee, Count) # NoError)
  <2>1. Child(Kid(Done + 1)) /\ Done <= Count
    BY <1>3 DEF EvalCallee
  <2>2. ~IsComplete(Top)
    <3> SUFFICES ASSUME IsComplete(Top) PROVE FALSE
      OBVIOUS
    <3>1. Done = Count + 1 /\ Count = Len(Top.tree.kids) - 1
      BY <1>1 DEF IsComplete, CountOf, Done, Count, Op
    <3>2. Done \in Nat
      BY <1>1, Topmost, SequenceLength DEF FrameInv, Done
    <3> HIDE DEF Done, Count
    <3> QED
      BY <2>1, <3>1, <3>2
  <2> QED
    BY <1>1, <2>1, <2>2, ChildKeeps
<1> QED
  BY <1>2, <1>3

\* A call or the application by a walk, with callee and arguments.
LEMMA ApplyingState ==
  ASSUME StackInv, Applying
  PROVE  Depth > 0 /\ error = NoError /\ Op \in Calls /\ Op \in OpensEnv /\ Top.local # TRUE
BY DEF Applying, Evaluating, Calls, OpensEnv

LEMMA RefuseKeeps == StackInv /\ Refuse => StackInv'
<1> SUFFICES ASSUME StackInv, Refuse PROVE StackInv'
  OBVIOUS
<1>1. Applying /\ Fail(CallDiagnostic(Callee, Count)) /\ UNCHANGED envs
  BY DEF Refuse, Only, store
<1> QED
  BY <1>1, ApplyingState, RefusedWithReason, FailKeeps

LEMMA PartialKeeps == StackInv /\ ApplyPartially => StackInv'
<1> SUFFICES ASSUME StackInv, ApplyPartially PROVE StackInv'
  OBVIOUS
<1>1. Applying /\ Return(NextFunction) /\ UNCHANGED envs
  BY DEF ApplyPartially, Applies, Only
<1> QED
  BY <1>1, ApplyingState, ReturnInside

LEMMA FunctionKeeps == StackInv /\ ApplyFunction => StackInv'
<1> SUFFICES ASSUME StackInv, ApplyFunction PROVE StackInv'
  OBVIOUS
<1> DEFINE e == DefineAll(WithSelf(Callee.n), ParamsOf, Arguments)
           tree == functions[Callee.n].body
<1>1. /\ Applying /\ OpenEnv(e) /\ UNCHANGED error
      /\ frames' = Append([frames EXCEPT ![Depth] = Local], Frame(tree, Len(envs) + 1))
  BY DEF ApplyFunction, Applies
<1> HIDE DEF e, tree
<1> QED
  BY <1>1, ApplyingState, OpenKeeps

LEMMA EndFunctionKeeps == StackInv /\ EndFunction => StackInv'
<1> SUFFICES ASSUME StackInv, EndFunction PROVE StackInv'
  OBVIOUS
<1>1. Depth > 0 /\ error = NoError /\ Top.local /\ CloseEnv /\ Return(Result(Done))
  BY DEF EndFunction, Evaluating
<1> QED
  BY <1>1, LeaveKeeps

LEMMA ExtendKeeps == StackInv /\ ExtendBuiltin => StackInv'
<1> SUFFICES ASSUME StackInv, ExtendBuiltin PROVE StackInv'
  OBVIOUS
<1>1. Applying /\ (\E v : Return(v)) /\ UNCHANGED envs
  BY DEF ExtendBuiltin, AppliesBuiltin, Applies, Only, store
<1> QED
  BY <1>1, ApplyingState, ReturnInside

\* A builtin gives a value or fails, in a call never for want of a class.
Answered ==
  \/ \E v : Return(v)
  \/ \E diag : Fail(diag) /\ (Op = "call" => diag # "NAME_UNBOUND")

LEMMA BuiltinAnswers ==
  ASSUME StackInv, Applying, UNCHANGED envs, Answered
  PROVE  StackInv'
<1>1. Depth > 0 /\ error = NoError /\ Top.local # TRUE
  BY ApplyingState
<1>2. CASE \E v : Return(v)
  BY <1>1, <1>2, ReturnInside
<1>3. CASE \E diag : Fail(diag) /\ (Op = "call" => diag # "NAME_UNBOUND")
  BY <1>1, <1>3, FailKeeps
<1> QED
  BY <1>2, <1>3 DEF Answered

LEMMA NarrowDiagnostic ==
  ASSUME NEW n
  PROVE  Narrow(n).err \in {"OK", "INT_OVERFLOW"}
<1>1. CASE n < MinInt \/ n > MaxInt
  BY <1>1 DEF Narrow, Error
<1>2. CASE ~(n < MinInt \/ n > MaxInt)
  BY <1>2 DEF Narrow, Number
<1> QED
  BY <1>1, <1>2

LEMMA ConstructAnswers ==
  ASSUME StackInv, Applying, NEW arguments, Construct(arguments)
  PROVE  Answered
<1> DEFINE class == Lookup(Env, "Set")
<1>1. CASE ~HasEnvironment
  <2>1. Fail("NAME_UNBOUND")
    BY <1>1 DEF Construct
  <2>2. Op # "call"
    BY <1>1, ApplyingState, Topmost DEF HasEnvironment
  <2> QED
    BY <2>1, <2>2 DEF Answered
<1>2. CASE HasEnvironment
  <2>1. \/ Fail("TYPE_EXPECTED_CLASS") \/ Fail("TYPE_EXPECTED_LIST") \/ Return(Object(class))
        \/ Return([Object(class) EXCEPT !.items = DistinctItems(arguments[1].items)])
    BY <1>2, Zenon DEF Construct
  <2>2. "TYPE_EXPECTED_CLASS" # "NAME_UNBOUND" /\ "TYPE_EXPECTED_LIST" # "NAME_UNBOUND"
    OBVIOUS
  <2> HIDE DEF class
  <2> QED
    BY <2>1, <2>2, Zenon DEF Answered
<1> QED
  BY <1>1, <1>2

LEMMA BuiltinKeeps == StackInv /\ ApplyBuiltin => StackInv'
<1> SUFFICES ASSUME StackInv, ApplyBuiltin PROVE StackInv'
  OBVIOUS
<1> DEFINE arguments == Collected
           Misfits == \/ Fail("TYPE_EXPECTED_LIST") \/ Fail("LIST_EMPTY")
                      \/ Fail("TYPE_EXPECTED_FUNCTION") \/ Fail("INT_OVERFLOW")
<1>1. Applying /\ UNCHANGED envs
  BY DEF ApplyBuiltin, AppliesBuiltin, Applies, Only, store
<1>2. /\ "TYPE_EXPECTED_LIST" # "NAME_UNBOUND" /\ "LIST_EMPTY" # "NAME_UNBOUND"
      /\ "TYPE_EXPECTED_FUNCTION" # "NAME_UNBOUND" /\ "INT_OVERFLOW" # "NAME_UNBOUND"
  OBVIOUS
<1>3. ASSUME Construct(arguments) PROVE Answered
  BY <1>1, <1>3, ConstructAnswers
<1>4. ASSUME NEW n, ReturnOrFail(Narrow(n)) PROVE Answered
  <2>1. Narrow(n).err = "OK" \/ (Narrow(n).err # "OK" /\ Narrow(n).err = "INT_OVERFLOW")
    BY NarrowDiagnostic
  <2>2. CASE Narrow(n).err = "OK"
    BY <1>4, <2>2 DEF ReturnOrFail, Answered
  <2>3. CASE Narrow(n).err # "OK" /\ Narrow(n).err = "INT_OVERFLOW"
    BY <1>2, <1>4, <2>3 DEF ReturnOrFail, Answered
  <2> QED
    BY <2>1, <2>2, <2>3
<1>5. ASSUME Misfits PROVE Answered
  BY <1>2, <1>5, Zenon DEF Answered
<1>6. ASSUME NEW v, Return(v) PROVE Answered
  BY <1>6 DEF Answered
<1>7. \/ Construct(arguments) \/ (\E n : ReturnOrFail(Narrow(n)))
      \/ Misfits \/ (\E v : Return(v))
  BY Zenon DEF ApplyBuiltin
<1>8. Answered
  <2> HIDE DEF arguments, Misfits
  <2> QED
    BY <1>3, <1>4, <1>5, <1>6, <1>7
<1> QED
  BY <1>1, <1>8, BuiltinAnswers

LEMMA AskKeeps == StackInv /\ ApplyAsk => StackInv'
<1> SUFFICES ASSUME StackInv, ApplyAsk PROVE StackInv'
  OBVIOUS
<1>1. Applying /\ UNCHANGED envs
  BY DEF ApplyAsk, AppliesBuiltin, Applies, Only
<1>2. (\E v : Return(v)) \/ Fail("INPUT_UNAVAILABLE")
  BY DEF ApplyAsk
<1> QED
  BY <1>1, <1>2, BuiltinAnswers DEF Answered

LEMMA BeginWalkKeeps == StackInv /\ BeginWalk => StackInv'
<1> SUFFICES ASSUME StackInv, BeginWalk PROVE StackInv'
  OBVIOUS
<1> DEFINE f == [Frame(WalkTree, Top.env) EXCEPT !.held = <<Callee>> \o Collected]
<1>1. Applying /\ UNCHANGED envs
  BY DEF BeginWalk, AppliesBuiltin, Applies, Only, store
<1>2. CASE Fail("TYPE_EXPECTED_FUNCTION") \/ Fail("TYPE_EXPECTED_LIST")
  BY <1>1, <1>2, BuiltinAnswers DEF Answered
<1>3. CASE SetTop(f) /\ UNCHANGED <<outcomes, error>>
  <2>1. Depth > 0 /\ error = NoError /\ Top.local # TRUE /\ Top.env \in Nat
    BY <1>1, ApplyingState, Topmost
  <2>2. WalkTree.op = "walk"
    BY DEF WalkTree, Tree
  <2>3. FrameInv(Frame(WalkTree, Top.env)) /\ Frame(WalkTree, Top.env).local # TRUE
        /\ Frame(WalkTree, Top.env).env = Top.env
    BY <2>1, <2>2, NewFrame
  <2>4. FrameInv(f) /\ f.env = Top.env /\ f.local # TRUE
    <3> DEFINE h == <<Callee>> \o Collected
               g == Frame(WalkTree, Top.env)
    <3>1. f = [g EXCEPT !.held = h] /\ FrameInv(g)
      BY <2>3
    <3> HIDE DEF h, g, f
    <3>2. FrameInv(f) /\ f.env = g.env /\ f.local = g.local
      BY <3>1, HeldReplaced
    <3> QED
      BY <2>3, <3>2 DEF g
  <2> HIDE DEF f
  <2> QED
    BY <1>1, <1>3, <2>1, <2>4, SetTopKeeps
<1> QED
  BY <1>2, <1>3 DEF BeginWalk

LEMMA VisitKeeps == StackInv /\ Visit => StackInv'
<1> SUFFICES ASSUME StackInv, Visit PROVE StackInv'
  OBVIOUS
<1>1. Depth > 0 /\ error = NoError /\ Op = "walk" /\ UNCHANGED envs
  BY DEF Visit, Evaluating, Only, store
<1>2. ~IsComplete(Top)
  BY <1>1 DEF IsComplete, Calls, Op
<1> DEFINE passed == IF Walk = "reduce" THEN <<Accumulator, Items[Done + 1]>> ELSE <<Items[Done + 1]>>
           f == [Frame(ApplyTree(Len(passed)), 0) EXCEPT !.done = <<Callback>> \o passed]
<1>3. Push(f)
  BY DEF Visit
<1>5. IsSequence(<<Callback>> \o passed)
  <2>1. CASE Walk = "reduce"
    <3> DEFINE S == {Callback, Accumulator, Items[Done + 1]}
    <3>1. <<Callback>> \in Seq(S) /\ <<Accumulator, Items[Done + 1]>> \in Seq(S)
      OBVIOUS
    <3>2. passed = <<Accumulator, Items[Done + 1]>>
      BY <2>1
    <3> HIDE DEF passed, S
    <3> QED
      BY <3>1, <3>2, ConcatProperties DEF IsSequence
  <2>2. CASE Walk # "reduce"
    <3> DEFINE S == {Callback, Items[Done + 1]}
    <3>1. <<Callback>> \in Seq(S) /\ <<Items[Done + 1]>> \in Seq(S)
      OBVIOUS
    <3>2. passed = <<Items[Done + 1]>>
      BY <2>2
    <3> HIDE DEF passed, S
    <3> QED
      BY <3>1, <3>2, ConcatProperties DEF IsSequence
  <2> QED
    BY <2>1, <2>2
<1>6. ApplyTree(Len(passed)).op = "apply"
  BY DEF ApplyTree, Tree
<1> HIDE DEF passed
<1>7. FrameInv(f) /\ f.local # TRUE /\ f.env = 0
  <2> DEFINE d == <<Callback>> \o passed
             g == Frame(ApplyTree(Len(passed)), 0)
  <2>1. f = [g EXCEPT !.done = d] /\ IsSequence(d)
    BY <1>5
  <2>2. FrameInv(g) /\ g.env = 0 /\ g.local # TRUE
    <3> DEFINE t == ApplyTree(Len(passed))
    <3>1. 0 \in Nat /\ t.op \in {"apply", "walk"}
      BY <1>6
    <3> HIDE DEF t
    <3>2. FrameInv(Frame(t, 0)) /\ Frame(t, 0).env = 0 /\ Frame(t, 0).local # TRUE
      BY <3>1, NewFrame
    <3> QED
      BY <3>2 DEF t
  <2> HIDE DEF d, g, f
  <2>3. FrameInv(f) /\ f.env = g.env /\ f.local = g.local
    BY <2>1, <2>2, DoneReplaced
  <2> QED
    BY <2>2, <2>3
<1>8. 0 <= Len(envs) /\ IsSequence(envs')
  BY <1>1, Topmost
<1> HIDE DEF f
<1>9. f.env <= Len(envs)
  BY <1>7, <1>8
<1> QED
  BY <1>1, <1>2, <1>3, <1>7, <1>8, <1>9, PushKeeps

LEMMA EndWalkKeeps == StackInv /\ EndWalk => StackInv'
<1> SUFFICES ASSUME StackInv, EndWalk PROVE StackInv'
  OBVIOUS
<1>1. Evaluating({"walk"}) /\ UNCHANGED envs /\ ((\E v : Return(v)) \/ (\E diag : Fail(diag)))
  BY DEF EndWalk, Only, store
<1>2. {"walk"} \cap OpensEnv = {}
  BY DEF OpensEnv
<1> QED
  BY <1>1, <1>2, AnswerUnchanged

LEMMA UnwindKeeps == StackInv /\ Unwind => StackInv'
<1> SUFFICES ASSUME StackInv, Unwind PROVE StackInv'
  OBVIOUS
<1>1. WellOpened(frames, envs) /\ Depth > 0 /\ frames' = Front(frames) /\ Len(frames) \in Nat
  BY SequenceLength DEF Unwind, StackInv, ErrorInv, WellOpened, Depth
<1>2. /\ IsSequence(envs')
      /\ Top.local = TRUE => Len(envs') = Len(envs) - 1
      /\ Top.local # TRUE => Len(envs') = Len(envs)
  <2>1. CASE Top.local
    <3>1. CloseEnv /\ Top.local = TRUE
      BY <2>1 DEF Unwind
    <3> QED
      BY <1>1, <3>1, CloseEnvShortens
  <2>2. CASE ~Top.local
    BY <1>1, <2>2 DEF Unwind, WellOpened
  <2> QED
    BY <2>1, <2>2
<1>3. /\ WellOpened(frames', envs') /\ Len(frames') = Len(frames) - 1
      /\ Len(frames) > 1 => ~IsComplete(frames'[Len(frames) - 1])
  BY <1>1, <1>2, Popped DEF Depth, Top
<1>4. CASE Depth = 1
  <2>1. error' = NoError
    BY <1>4 DEF Unwind
  <2> QED
    BY <1>3, <2>1 DEF StackInv, ErrorInv
<1>5. CASE Depth > 1
  <2>1. Len(frames') > 0 /\ ~IsComplete(frames'[Len(frames')])
    BY <1>1, <1>3, <1>5 DEF Depth
  <2> QED
    BY <1>3, <2>1 DEF StackInv, ErrorInv
<1> QED
  BY <1>1, <1>4, <1>5 DEF Depth

LEMMA NextKeepsStack == StackInv /\ [Next]_vars => StackInv'
<1> SUFFICES ASSUME StackInv, [Next]_vars PROVE StackInv'
  OBVIOUS
<1>1. CASE Enter
  BY <1>1, EnterKeeps
<1>2. CASE EvalOperand \/ EvalOperator \/ EvalDecided \/ EvalLeastInt \/ EvalConditional
  BY <1>2, OperandKeeps, OperatorKeeps, DecidedKeeps, LeastIntKeeps, ConditionalKeeps
<1>3. CASE EvalLeaf \/ EvalGroup \/ EvalSequence
  BY <1>3, LeafKeeps, GroupKeeps, SequenceKeeps
<1>4. CASE EvalFunctionLiteral \/ EvalAssignment \/ EvalRecursiveAssignment \/ EvalClassDefinition
  BY <1>4, FunctionLiteralKeeps, AssignmentKeeps, RecursiveAssignmentKeeps, ClassDefinitionKeeps
<1>5. CASE CollectFix \/ EvalFix \/ EvalWhere \/ EvalAttribute
  BY <1>5, CollectFixKeeps, FixKeeps, WhereKeeps, AttributeKeeps
<1>6. CASE EvalCallee \/ Refuse \/ ApplyPartially \/ ApplyFunction \/ EndFunction
  BY <1>6, CalleeKeeps, RefuseKeeps, PartialKeeps, FunctionKeeps, EndFunctionKeeps
<1>7. CASE ExtendBuiltin \/ ApplyBuiltin \/ ApplyAsk
  BY <1>7, ExtendKeeps, BuiltinKeeps, AskKeeps
<1>8. CASE BeginWalk \/ Visit \/ EndWalk
  BY <1>8, BeginWalkKeeps, VisitKeeps, EndWalkKeeps
<1>9. CASE Unwind
  BY <1>9, UnwindKeeps
<1>10. CASE UNCHANGED vars
  BY <1>10 DEF vars, StackInv
<1> QED
  BY <1>1, <1>2, <1>3, <1>4, <1>5, <1>6, <1>7, <1>8, <1>9, <1>10 DEF Next

LEMMA StackInvariant == Spec => []StackInv
<1>1. Init => StackInv
  BY StackInit
<1>2. StackInv /\ [Next]_vars => StackInv'
  BY NextKeepsStack
<1> QED
  BY <1>1, <1>2, PTL DEF Spec

(***************************************************************************)
(* However deep a program nests wheres, calls and walks, and wherever it   *)
(* fails, each environment but the session's belongs to one frame, which   *)
(* closes it, and no frame evaluates in an environment that is gone.       *)
(***************************************************************************)
THEOREM EnvironmentsClosed == Spec => []LocalsClosed
<1>1. StackInv => LocalsClosed
  BY StackImplies
<1> QED
  BY <1>1, StackInvariant, PTL

(***************************************************************************)
(* A constructor finds its class in every call of a program: only a walk   *)
(* that applies it directly, without an environment, makes it miss.        *)
(***************************************************************************)
THEOREM ConstructorsMissInWalksOnly == Spec => []EnvLostByWalksOnly
<1>1. StackInv => EnvLostByWalksOnly
  BY StackImplies
<1> QED
  BY <1>1, StackInvariant, PTL

-----------------------------------------------------------------------------
(***************************************************************************)
(* Syntax trees of any height are well formed, and so are all their parts. *)
(***************************************************************************)
TreesOver(K) == {t \in [op : STRING, n : Nat, names : Seq(STRING), kids : K] : WellFormed(t)}

Grows(f, n) == f = [h \in 0..n |-> TreesOver(IF h = 0 THEN {<<>>} ELSE Seq(f[h - 1]))]

LEMMA GrowthExists == \A n \in Nat : \E f : Grows(f, n)
<1> DEFINE T == {n \in Nat : \E f : Grows(f, n)}
<1>1. 0 \in T
  <2> DEFINE f == [h \in 0..0 |-> TreesOver({<<>>})]
  <2>1. Grows(f, 0)
    BY DEF Grows
  <2> QED
    BY <2>1
<1>2. ASSUME NEW n \in Nat, n \in T PROVE n + 1 \in T
  <2>1. PICK f : Grows(f, n)
    BY <1>2
  <2> DEFINE g == [h \in 0..(n + 1) |-> IF h <= n THEN f[h] ELSE TreesOver(Seq(f[n]))]
  <2>2. f = [h \in 0..n |-> TreesOver(IF h = 0 THEN {<<>>} ELSE Seq(f[h - 1]))]
    BY <2>1 DEF Grows
  <2>3. \A h \in 0..(n + 1) : g[h] = TreesOver(IF h = 0 THEN {<<>>} ELSE Seq(g[h - 1]))
    <3> TAKE h \in 0..(n + 1)
    <3>1. CASE h = 0
      <4>1. g[0] = f[0] /\ f[0] = TreesOver({<<>>})
        BY <2>2
      <4> QED
        BY <3>1, <4>1
    <3>2. CASE h \in 1..n
      <4>1. g[h] = f[h] /\ h - 1 \in 0..n /\ g[h - 1] = f[h - 1] /\ h # 0
        BY <3>2
      <4>2. f[h] = TreesOver(Seq(f[h - 1]))
        BY <2>2, <3>2
      <4> QED
        BY <4>1, <4>2
    <3>3. CASE h = n + 1
      <4>1. g[h] = TreesOver(Seq(f[n])) /\ h - 1 = n /\ g[n] = f[n] /\ h # 0
        BY <3>3
      <4> QED
        BY <3>3, <4>1
    <3> QED
      BY <3>1, <3>2, <3>3
  <2> HIDE DEF g
  <2>4. g = [h \in 0..(n + 1) |-> g[h]]
    BY DEF g
  <2>5. Grows(g, n + 1)
    BY <2>3, <2>4 DEF Grows
  <2> QED
    BY <2>5
<1> HIDE DEF T
<1>3. \A n \in Nat : n \in T
  BY <1>1, <1>2, SetInduction
<1> QED
  BY <1>3 DEF T

LEMMA TreesGrow == Grows(TreesUpTo, MaxHeight)
<1> DEFINE Defines(f) ==
      f = [h \in 0..MaxHeight |->
             {t \in [op : STRING, n : Nat, names : Seq(STRING),
                     kids : IF h = 0 THEN {<<>>} ELSE Seq(f[h - 1])] : WellFormed(t)}]
<1>1. TreesUpTo = CHOOSE f : Defines(f)
  BY DEF TreesUpTo
<1>2. PICK f : Grows(f, MaxHeight)
  BY GrowthExists, SyntaxAssumption
<1>3. Defines(f)
  BY <1>2, Zenon DEF Grows, TreesOver
<1>4. Defines(TreesUpTo)
  <2> HIDE DEF Defines
  <2> QED
    BY <1>1, <1>3, Zenon
<1> QED
  BY <1>4, Zenon DEF Grows, TreesOver

\* A tree or a part of one.
Parts == UNION {TreesUpTo[h] : h \in 0..MaxHeight}

IsTree(t) ==
  /\ t.op \in STRING /\ t.n \in Nat /\ t.names \in Seq(STRING) /\ t.kids \in Seq(Parts)
  /\ WellFormed(t)

LEMMA TreesAreTrees == Trees \subseteq Parts /\ \A t \in Parts : IsTree(t)
<1>1. TreesUpTo = [h \in 0..MaxHeight |-> TreesOver(IF h = 0 THEN {<<>>} ELSE Seq(TreesUpTo[h - 1]))]
  BY TreesGrow DEF Grows
<1>2. MaxHeight \in 0..MaxHeight
  BY SyntaxAssumption
<1>3. Trees \subseteq Parts
  BY <1>2 DEF Trees, Parts
<1>4. ASSUME NEW h \in 0..MaxHeight, NEW t \in TreesUpTo[h] PROVE IsTree(t)
  <2> DEFINE K == IF h = 0 THEN {<<>>} ELSE Seq(TreesUpTo[h - 1])
  <2>1. t \in TreesOver(K)
    BY <1>1
  <2>2. K \subseteq Seq(Parts)
    <3>1. CASE h = 0
      <4>1. <<>> \in Seq(Parts)
        OBVIOUS
      <4> QED
        BY <3>1, <4>1
    <3>2. CASE h # 0
      <4>1. h - 1 \in 0..MaxHeight
        BY <3>2, SyntaxAssumption
      <4>2. TreesUpTo[h - 1] \subseteq Parts
        BY <4>1 DEF Parts
      <4>3. Seq(TreesUpTo[h - 1]) \subseteq Seq(Parts)
        <5> HIDE DEF Parts
        <5> QED
          BY <4>2
      <4> QED
        BY <3>2, <4>3
    <3> QED
      BY <3>1, <3>2
  <2> HIDE DEF K
  <2>3. t \in [op : STRING, n : Nat, names : Seq(STRING), kids : K] /\ WellFormed(t)
    BY <2>1, Zenon DEF TreesOver
  <2>4. t.op \in STRING /\ t.n \in Nat /\ t.names \in Seq(STRING) /\ t.kids \in K
    BY <2>3
  <2> QED
    BY <2>2, <2>3, <2>4 DEF IsTree
<1> QED
  BY <1>3, <1>4 DEF Parts

\* What the evaluation relies on.
LEMMA TreeParts ==
  ASSUME NEW t \in Parts
  PROVE  /\ t.n \in Nat /\ t.names \in Seq(STRING) /\ t.kids \in Seq(Parts)
         /\ t.op \notin {"walk", "apply"}
         /\ t.op \in Unary \cup {"group", "::", ":=", "f:=", "fix", "attr"} => Len(t.kids) = 1
         /\ t.op \in Binary \cup {";", "where"} => Len(t.kids) = 2
         /\ t.op = "if" => Len(t.kids) = 3
         /\ t.op = "call" => Len(t.kids) >= 1
         /\ t.op \in {":=", "f:="} => Len(t.names) = 1
         /\ t.op = "f:=" => t.kids[1].op = "::"
<1>1. IsTree(t)
  BY TreesAreTrees
<1> DEFINE op == t.op
<1>2. /\ CASE op \in Leaves -> Len(t.kids) = 0
           [] op \in Unary \cup {"group", "::", ":=", "f:=", "fix", "attr"} -> Len(t.kids) = 1
           [] op \in Binary \cup {";", "where"} -> Len(t.kids) = 2
           [] op = "if" -> Len(t.kids) = 3
           [] op = "call" -> Len(t.kids) >= 1
           [] OTHER -> op = "class"
      /\ op \in {":=", "f:="} => Len(t.names) = 1
      /\ op = "f:=" => t.kids[1].op = "::"
  BY <1>1 DEF IsTree, WellFormed
<1> DEFINE A == Unary \cup {"group", "::", ":=", "f:=", "fix", "attr"}
           B == Binary \cup {";", "where"}
<1>3. /\ op \in Leaves => op \in {"int", "bool", "nil", "id"}
      /\ op \in A => op \in {"neg", "not", "new", "group", "::", ":=", "f:=", "fix", "attr"}
      /\ op \in B => op \in {"+", "-", "*", "/", "mod", "<", ">", "<=", ">=", "==", "!=", "and", "or",
                            "cons", ";", "where"}
  BY DEF Leaves, Unary, Binary, Operations, Divisions, Orderings, Equalities, Logical
<1> HIDE DEF op, A, B
<1>4. /\ op \in {"walk", "apply"} => op \notin Leaves /\ op \notin A /\ op \notin B /\ op \notin {"if", "call", "class"}
      /\ op \in A => op \notin Leaves
      /\ op \in B => op \notin Leaves /\ op \notin A
      /\ op \in {"if", "call"} => op \notin Leaves /\ op \notin A /\ op \notin B
  BY <1>3
<1>5. (CASE op \in Leaves -> Len(t.kids) = 0
         [] op \in A -> Len(t.kids) = 1
         [] op \in B -> Len(t.kids) = 2
         [] op = "if" -> Len(t.kids) = 3
         [] op = "call" -> Len(t.kids) >= 1
         [] OTHER -> op = "class")
  BY <1>2 DEF A, B
<1>6. op \notin {"walk", "apply"}
  BY <1>4, <1>5
<1>7. op \in A => Len(t.kids) = 1
  BY <1>4, <1>5
<1>8. op \in B => Len(t.kids) = 2
  BY <1>4, <1>5
<1>9. (op = "if" => Len(t.kids) = 3) /\ (op = "call" => Len(t.kids) >= 1)
  BY <1>4, <1>5
<1> QED
  BY <1>1, <1>2, <1>6, <1>7, <1>8, <1>9 DEF op, A, B, IsTree

-----------------------------------------------------------------------------
(***************************************************************************)
(* What the values are.  V holds all that exist, also those that are part  *)
(* of others, and n functions have been made.                              *)
(***************************************************************************)
ValueIn(V, n, v) ==
  /\ v = [kind |-> v.kind, n |-> v.n, name |-> v.name, items |-> v.items]
  /\ v.items \in Seq(V)
  /\ v.kind = "int" => v.n \in Ints
  /\ v.kind = "function" => v.n \in 1..n /\ v.items = <<>>
  /\ v.kind = "builtin" => v.name \in DOMAIN ParamNames /\ Len(v.items) <= Len(ParamNames[v.name])
  /\ v.kind = "method" =>
       /\ v.name \in DOMAIN CollectionMethods /\ v.n = CollectionMethods[v.name]
       /\ v.items # <<>> /\ Len(v.items) <= Len(ParamNames[v.name])

EnvIn(V, e) == \A x \in DOMAIN e : e[x] \in V

FunctionIn(V, f) == IsSequence(f.params) /\ f.body \in Parts /\ EnvIn(V, f.env)

Closed(V, n) ==
  /\ \A v \in V : ValueIn(V, n, v)
  /\ \A i \in 1..n : Function(i) \in V
  /\ \A i \in Ints : IntValue(i) \in V
  /\ EnvIn(V, Installed)

StoreIn(V, es, fns) ==
  /\ IsSequence(fns) /\ Closed(V, Len(fns))
  /\ \A k \in 1..Len(es) : EnvIn(V, es[k])
  /\ \A k \in 1..Len(fns) : FunctionIn(V, fns[k])

\* A walk holds its builtin, the callback and the collection.
WalkIn(V, f) ==
  /\ f.held \in Seq(V) /\ Len(f.held) >= 3 /\ f.held[1].name \in Walks
  /\ Last(f.held).kind \in {"list", "object"} /\ Last(f.held).items \in Seq(V)
  /\ Len(f.done) <= Len(Last(f.held).items)

FrameIn(V, f) ==
  /\ f.tree.op \notin {"apply", "walk"} => f.tree \in Parts
  /\ f.tree.op = "apply" => f.tree.n \in Nat
  /\ f.done \in Seq(V)
  /\ f.tree.op = "fix" => f.held \in Seq(Parts)
  /\ f.tree.op = "walk" => WalkIn(V, f)
  /\ f.tree.op \in Operations /\ Len(f.done) = 2 => f.done[1].kind = "int"

\* Of a frame below the top: the operand that is evaluated is not the last.
WaitingIn(f) ==
  /\ f.tree.op = "walk" => Len(f.done) < Len(Last(f.held).items)
  /\ f.tree.op \in Operations /\ Len(f.done) = 1 => f.done[1].kind = "int"

FramesIn(V, fs) ==
  /\ \A k \in 1..Len(fs) : FrameIn(V, fs[k])
  /\ \A k \in 1..(Len(fs) - 1) : WaitingIn(fs[k])

Typed(V) == FramesIn(V, frames) /\ StoreIn(V, envs, functions)

TypeInv ==
  /\ program \in Seq(Trees) /\ next \in Nat \ {0}
  /\ \E V : Typed(V)

-----------------------------------------------------------------------------
(***************************************************************************)
(* More values and functions.                                              *)
(***************************************************************************)
LEMMA WiderSequences ==
  ASSUME NEW V, NEW W, V \subseteq W, NEW s \in Seq(V)
  PROVE  s \in Seq(W)
OBVIOUS

LEMMA WiderValue ==
  ASSUME NEW V, NEW W, V \subseteq W, NEW n \in Nat, NEW m \in Nat, n <= m,
         NEW v, ValueIn(V, n, v)
  PROVE  ValueIn(W, m, v)
<1>1. v.items \in Seq(W)
  BY WiderSequences DEF ValueIn
<1>2. v.kind = "function" => v.n \in 1..m
  BY DEF ValueIn
<1> QED
  BY <1>1, <1>2 DEF ValueIn

LEMMA WiderFrame ==
  ASSUME NEW V, NEW W, V \subseteq W, NEW f, FrameIn(V, f)
  PROVE  FrameIn(W, f)
<1>1. f.done \in Seq(W)
  BY WiderSequences DEF FrameIn
<1>2. ASSUME f.tree.op = "walk" PROVE WalkIn(W, f)
  <2>1. WalkIn(V, f)
    BY <1>2 DEF FrameIn
  <2>2. f.held \in Seq(W) /\ Last(f.held).items \in Seq(W)
    BY <2>1, WiderSequences DEF WalkIn
  <2> QED
    BY <2>1, <2>2, Zenon DEF WalkIn
<1> QED
  BY <1>1, <1>2, Zenon DEF FrameIn

LEMMA WiderFrames ==
  ASSUME NEW V, NEW W, V \subseteq W, NEW fs, FramesIn(V, fs)
  PROVE  FramesIn(W, fs)
BY WiderFrame, Zenon DEF FramesIn

LEMMA WiderEnv ==
  ASSUME NEW V, NEW W, V \subseteq W, NEW e, EnvIn(V, e)
  PROVE  EnvIn(W, e)
BY DEF EnvIn

LEMMA WiderFunction ==
  ASSUME NEW V, NEW W, V \subseteq W, NEW f, FunctionIn(V, f)
  PROVE  FunctionIn(W, f)
BY WiderEnv, Zenon DEF FunctionIn

\* With more values.
LEMMA WiderStore ==
  ASSUME NEW V, NEW es, NEW fns, StoreIn(V, es, fns), NEW S, \A v \in S : ValueIn(V, Len(fns), v)
  PROVE  StoreIn(V \cup S, es, fns)
<1> DEFINE W == V \cup S
<1>1. V \subseteq W /\ Len(fns) \in Nat
  BY SequenceLength DEF StoreIn
<1>2. \A w \in W : w \in V \/ w \in S
  OBVIOUS
<1> HIDE DEF W
<1>3. \A w \in W : ValueIn(W, Len(fns), w)
  <2> TAKE w \in W
  <2>1. ValueIn(V, Len(fns), w)
    BY <1>2 DEF StoreIn, Closed
  <2> QED
    BY <1>1, <2>1, WiderValue
<1>4. EnvIn(W, Installed)
  BY <1>1, WiderEnv DEF StoreIn, Closed
<1>5. Closed(W, Len(fns))
  <2>1. (\A i \in 1..Len(fns) : Function(i) \in V) /\ \A i \in Ints : IntValue(i) \in V
    BY Zenon DEF StoreIn, Closed
  <2> QED
    BY <1>1, <1>3, <1>4, <2>1, Zenon DEF Closed
<1>6. \A k \in 1..Len(es) : EnvIn(W, es[k])
  BY <1>1, WiderEnv, Zenon DEF StoreIn
<1>7. \A k \in 1..Len(fns) : FunctionIn(W, fns[k])
  BY <1>1, WiderFunction, Zenon DEF StoreIn
<1>8. StoreIn(W, es, fns)
  BY <1>5, <1>6, <1>7, Zenon DEF StoreIn
<1> QED
  BY <1>8 DEF W

LEMMA PlainValue ==
  ASSUME NEW V, NEW n, NEW kind, kind \notin {"int", "function", "builtin", "method"},
         NEW k, NEW name, NEW items \in Seq(V)
  PROVE  ValueIn(V, n, Value(kind, k, name, items))
<1> DEFINE v == Value(kind, k, name, items)
<1>1. v = [kind |-> kind, n |-> k, name |-> name, items |-> items]
  BY DEF Value
<1> HIDE DEF v
<1>2. v.kind = kind /\ v.n = k /\ v.name = name /\ v.items = items
  BY <1>1
<1>3. ValueIn(V, n, v)
  BY <1>1, <1>2 DEF ValueIn
<1> QED
  BY <1>3 DEF v

LEMMA ItemsReplaced ==
  ASSUME NEW V, NEW n, NEW v, ValueIn(V, n, v), v.kind \notin {"int", "function", "builtin", "method"},
         NEW items \in Seq(V)
  PROVE  ValueIn(V, n, [v EXCEPT !.items = items])
<1> DEFINE w == [v EXCEPT !.items = items]
<1>1. w = [kind |-> v.kind, n |-> v.n, name |-> v.name, items |-> items]
  BY DEF ValueIn
<1> HIDE DEF w
<1>2. w.kind = v.kind /\ w.n = v.n /\ w.name = v.name /\ w.items = items
  BY <1>1
<1>3. ValueIn(V, n, w)
  BY <1>1, <1>2 DEF ValueIn
<1> QED
  BY <1>3 DEF w

LEMMA NumberValue ==
  ASSUME NEW V, NEW n, NEW i \in Ints
  PROVE  ValueIn(V, n, IntValue(i))
<1> DEFINE v == IntValue(i)
<1>1. v = [kind |-> "int", n |-> i, name |-> "", items |-> <<>>] /\ <<>> \in Seq(V)
  BY DEF IntValue, Value
<1> HIDE DEF v
<1>2. v.kind = "int" /\ v.n = i /\ v.name = "" /\ v.items = <<>>
  BY <1>1
<1>3. ValueIn(V, n, v)
  BY <1>1, <1>2 DEF ValueIn
<1> QED
  BY <1>3 DEF v

LEMMA FunctionValue ==
  ASSUME NEW V, NEW n, NEW i \in 1..n
  PROVE  ValueIn(V, n, Function(i))
<1> DEFINE v == Function(i)
<1>1. v = [kind |-> "function", n |-> i, name |-> "", items |-> <<>>] /\ <<>> \in Seq(V)
  BY DEF Function, Value
<1> HIDE DEF v
<1>2. v.kind = "function" /\ v.n = i /\ v.name = "" /\ v.items = <<>>
  BY <1>1
<1>3. ValueIn(V, n, v)
  BY <1>1, <1>2 DEF ValueIn
<1> QED
  BY <1>3 DEF v

-----------------------------------------------------------------------------
(***************************************************************************)
(* Environments.                                                           *)
(***************************************************************************)
LEMMA EnvSet ==
  ASSUME NEW V, NEW es, IsSequence(es), NEW fns, StoreIn(V, es, fns), NEW k, NEW e, EnvIn(V, e)
  PROVE  StoreIn(V, [es EXCEPT ![k] = e], fns)
<1> DEFINE gs == [es EXCEPT ![k] = e]
<1>1. /\ Len(gs) = Len(es) /\ \A i \in 1..Len(es) : i # k => gs[i] = es[i]
      /\ k \in 1..Len(es) => gs[k] = e
  BY Replaced
<1> HIDE DEF gs
<1>2. \A i \in 1..Len(gs) : EnvIn(V, gs[i])
  BY <1>1 DEF StoreIn
<1>3. StoreIn(V, gs, fns)
  BY <1>2, Zenon DEF StoreIn
<1> QED
  BY <1>3 DEF gs

LEMMA EnvOpened ==
  ASSUME NEW V, NEW es, IsSequence(es), NEW fns, StoreIn(V, es, fns), NEW e, EnvIn(V, e)
  PROVE  StoreIn(V, Append(es, e), fns)
<1> DEFINE gs == Append(es, e)
           n == Len(es)
<1>1. n \in Nat /\ Len(gs) = n + 1 /\ (\A i \in 1..n : gs[i] = es[i]) /\ gs[n + 1] = e
  BY SequenceLength, Appended
<1>2. \A i \in 1..n : EnvIn(V, es[i])
  BY DEF StoreIn
<1> HIDE DEF gs, n
<1>3. \A i \in 1..(n + 1) : i \in 1..n \/ i = n + 1
  BY <1>1
<1>4. \A i \in 1..Len(gs) : EnvIn(V, gs[i])
  BY <1>1, <1>2, <1>3
<1>5. StoreIn(V, gs, fns)
  BY <1>4, Zenon DEF StoreIn
<1> QED
  BY <1>5 DEF gs

LEMMA EnvClosed ==
  ASSUME NEW V, NEW es, IsSequence(es), Len(es) > 0, NEW fns, StoreIn(V, es, fns)
  PROVE  StoreIn(V, Front(es), fns)
<1> DEFINE gs == Front(es)
           n == Len(es)
<1>1. n \in Nat /\ Len(gs) = n - 1 /\ (\A i \in 1..(n - 1) : gs[i] = es[i])
  BY SequenceLength, Shortened
<1>2. \A i \in 1..n : EnvIn(V, es[i])
  BY DEF StoreIn
<1> HIDE DEF gs, n
<1>3. \A i \in 1..(n - 1) : i \in 1..n
  BY <1>1
<1>4. \A i \in 1..Len(gs) : EnvIn(V, gs[i])
  BY <1>1, <1>2, <1>3
<1>5. StoreIn(V, gs, fns)
  BY <1>4, Zenon DEF StoreIn
<1> QED
  BY <1>5 DEF gs

LEMMA DefinedIn ==
  ASSUME NEW V, NEW e, EnvIn(V, e), NEW x, NEW v \in V
  PROVE  EnvIn(V, Define(e, x, v))
<1> DEFINE d == Define(e, x, v)
<1>1. /\ DOMAIN d = DOMAIN e \cup {x}
      /\ \A y \in DOMAIN e \cup {x} : d[y] = IF y = x THEN v ELSE e[y]
  BY DEF Define
<1> HIDE DEF d
<1>2. EnvIn(V, d)
  BY <1>1 DEF EnvIn
<1> QED
  BY <1>2 DEF d

LEMMA DefinedAtIn ==
  ASSUME NEW V, NEW e, EnvIn(V, e), NEW names, NEW values, IsSequence(values),
         \A i \in 1..Len(values) : values[i] \in V, NEW I \in SUBSET (1..Len(values))
  PROVE  EnvIn(V, DefineAt(e, names, values, I))
<1> DEFINE at(x) == {i \in I : names[i] = x}
           D == DOMAIN e \cup {names[i] : i \in I}
           d == DefineAt(e, names, values, I)
<1>1. d = [x \in D |->
             IF at(x) = {} THEN e[x] ELSE values[CHOOSE i \in at(x) : \A j \in at(x) : j <= i]]
  BY DEF DefineAt
<1>2. DOMAIN d = D
  BY <1>1
<1>3. ASSUME NEW x \in D, at(x) = {} PROVE d[x] \in V
  <2>1. d[x] = e[x] /\ x \in DOMAIN e
    BY <1>1, <1>3
  <2> QED
    BY <2>1 DEF EnvIn
<1>4. ASSUME NEW x \in D, at(x) # {} PROVE d[x] \in V
  <2> DEFINE i == CHOOSE i \in at(x) : \A j \in at(x) : j <= i
  <2>1. d[x] = values[i]
    BY <1>1, <1>4
  <2>2. at(x) \in SUBSET (1..Len(values)) /\ Len(values) \in Nat
    BY SequenceLength
  <2>3. \E k \in at(x) : \A j \in at(x) : j <= k
    <3> HIDE DEF at
    <3> QED
      BY <1>4, <2>2, GreatestElement
  <2>4. i \in at(x)
    BY <2>3
  <2>5. i \in 1..Len(values)
    BY <2>2, <2>4
  <2> HIDE DEF i
  <2> QED
    BY <2>1, <2>5
<1> HIDE DEF d, at, D
<1>5. EnvIn(V, d)
  BY <1>2, <1>3, <1>4 DEF EnvIn
<1> QED
  BY <1>5 DEF d

LEMMA DefinedAllIn ==
  ASSUME NEW V, NEW e, EnvIn(V, e), NEW names, NEW values \in Seq(V)
  PROVE  EnvIn(V, DefineAll(e, names, values))
<1>1. IsSequence(values) /\ (\A i \in 1..Len(values) : values[i] \in V) /\ DOMAIN values = 1..Len(values)
  BY DEF IsSequence
<1>2. EnvIn(V, DefineAt(e, names, values, 1..Len(values)))
  BY <1>1, DefinedAtIn
<1> QED
  BY <1>1, <1>2 DEF DefineAll

LEMMA FoundIn ==
  ASSUME NEW V, NEW n, Closed(V, n), NEW e, EnvIn(V, e), NEW x, Bound(e, x)
  PROVE  Lookup(e, x) \in V
<1>1. EnvIn(V, Installed) /\ x \in DOMAIN e \cup DOMAIN Installed
  BY DEF Closed, Bound
<1> DEFINE I == Installed
<1>2. Lookup(e, x) = IF x \in DOMAIN e THEN e[x] ELSE I[x]
  BY DEF Lookup
<1>3. EnvIn(V, I) /\ x \in DOMAIN e \cup DOMAIN I
  BY <1>1
<1> HIDE DEF I
<1> QED
  BY <1>2, <1>3 DEF EnvIn

-----------------------------------------------------------------------------
(***************************************************************************)
(* Functions.                                                              *)
(***************************************************************************)
LEMMA MoreFunctions ==
  ASSUME NEW V, NEW es, NEW fns, StoreIn(V, es, fns), NEW m \in Nat, Len(fns) <= m
  PROVE  LET W == V \cup {Function(i) : i \in 1..m}
         IN Closed(W, m) /\ V \subseteq W /\ \A i \in 1..m : Function(i) \in W
<1> DEFINE S == {Function(i) : i \in 1..m}
           W == V \cup S
<1>1. V \subseteq W /\ \A i \in 1..m : Function(i) \in W
  OBVIOUS
<1>2. \A w \in W : w \in V \/ \E i \in 1..m : w = Function(i)
  OBVIOUS
<1>3. Len(fns) \in Nat /\ Closed(V, Len(fns))
  BY SequenceLength DEF StoreIn
<1> HIDE DEF S, W
<1>4. \A w \in W : ValueIn(W, m, w)
  <2> TAKE w \in W
  <2>1. CASE w \in V
    <3>1. ValueIn(V, Len(fns), w)
      BY <1>3, <2>1 DEF Closed
    <3> QED
      BY <1>1, <1>3, <3>1, WiderValue
  <2>2. CASE \E i \in 1..m : w = Function(i)
    BY <2>2, FunctionValue
  <2> QED
    BY <1>2, <2>1, <2>2
<1>5. EnvIn(W, Installed)
  BY <1>1, <1>3, WiderEnv DEF Closed
<1>6. \A i \in Ints : IntValue(i) \in W
  BY <1>1, <1>3, Zenon DEF Closed
<1>7. Closed(W, m)
  BY <1>1, <1>4, <1>5, <1>6, Zenon DEF Closed
<1> QED
  BY <1>1, <1>7 DEF W, S

LEMMA FunctionsAdded ==
  ASSUME NEW V, NEW es, NEW fns, StoreIn(V, es, fns), NEW gs, IsSequence(gs),
         Len(gs) >= Len(fns), \A i \in 1..Len(fns) : gs[i] = fns[i],
         NEW W, V \subseteq W, Closed(W, Len(gs)),
         \A i \in 1..Len(gs) : i > Len(fns) => FunctionIn(W, gs[i])
  PROVE  StoreIn(W, es, gs)
<1>1. Len(fns) \in Nat /\ Len(gs) \in Nat
  BY SequenceLength DEF StoreIn
<1>2. \A k \in 1..Len(es) : EnvIn(W, es[k])
  BY WiderEnv, Zenon DEF StoreIn
<1>3. \A k \in 1..Len(gs) : FunctionIn(W, gs[k])
  <2> TAKE k \in 1..Len(gs)
  <2>1. CASE k > Len(fns)
    BY <2>1
  <2>2. CASE k \in 1..Len(fns)
    <3>1. FunctionIn(V, fns[k]) /\ gs[k] = fns[k]
      BY <2>2 DEF StoreIn
    <3> QED
      BY <3>1, WiderFunction
  <2> QED
    BY <1>1, <2>1, <2>2
<1> QED
  BY <1>2, <1>3, Zenon DEF StoreIn

LEMMA FunctionAppended ==
  ASSUME NEW V, NEW es, NEW fns, StoreIn(V, es, fns), NEW f, FunctionIn(V, f)
  PROVE  \E W : /\ V \subseteq W /\ Function(Len(fns) + 1) \in W
                /\ StoreIn(W, es, Append(fns, f))
<1> DEFINE n == Len(fns)
           gs == Append(fns, f)
           m == n + 1
           W == V \cup {Function(i) : i \in 1..m}
<1>1. n \in Nat /\ m \in Nat /\ IsSequence(fns)
  BY SequenceLength DEF StoreIn
<1>2. IsSequence(gs) /\ Len(gs) = m /\ (\A i \in 1..n : gs[i] = fns[i]) /\ gs[m] = f
  BY <1>1, Appended
<1>3. Closed(W, m) /\ V \subseteq W /\ \A i \in 1..m : Function(i) \in W
  <2>1. Len(fns) <= m
    BY <1>1
  <2> QED
    BY <1>1, <2>1, MoreFunctions, Zenon
<1> HIDE DEF gs, W
<1>4. FunctionIn(W, f)
  BY <1>3, WiderFunction
<1>5. \A i \in 1..m : i > n => i = m
  BY <1>1
<1>6. StoreIn(W, es, gs)
  BY <1>1, <1>2, <1>3, <1>4, <1>5, FunctionsAdded
<1>7. Function(n + 1) \in W
  BY <1>1, <1>3
<1> QED
  BY <1>3, <1>6, <1>7 DEF gs

-----------------------------------------------------------------------------
(***************************************************************************)
(* Frames.                                                                 *)
(***************************************************************************)
LEMMA FramesPushed ==
  ASSUME NEW V, NEW fs, IsSequence(fs), FramesIn(V, fs), Len(fs) > 0 => WaitingIn(fs[Len(fs)]),
         NEW f, FrameIn(V, f)
  PROVE  FramesIn(V, Append(fs, f))
<1> DEFINE n == Len(fs)
           gs == Append(fs, f)
<1>1. n \in Nat /\ Len(gs) = n + 1 /\ (\A i \in 1..n : gs[i] = fs[i]) /\ gs[n + 1] = f
  BY SequenceLength, Appended
<1>2. /\ \A k \in 1..n : FrameIn(V, fs[k])
      /\ \A k \in 1..(n - 1) : WaitingIn(fs[k])
      /\ n > 0 => WaitingIn(fs[n])
  BY DEF FramesIn
<1> HIDE DEF n, gs
<1>3. \A k \in 1..(n + 1) : k \in 1..n \/ k = n + 1
  BY <1>1
<1>4. \A k \in 1..n : k \in 1..(n - 1) \/ (k = n /\ n > 0)
  BY <1>1
<1>5. n + 1 - 1 = n
  BY <1>1
<1>6. \A k \in 1..(n + 1) : FrameIn(V, gs[k])
  BY <1>1, <1>2, <1>3
<1>7. \A k \in 1..n : WaitingIn(gs[k])
  BY <1>1, <1>2, <1>4
<1>8. FramesIn(V, gs)
  BY <1>1, <1>5, <1>6, <1>7 DEF FramesIn
<1> QED
  BY <1>8 DEF gs

LEMMA FramesPopped ==
  ASSUME NEW V, NEW fs, IsSequence(fs), FramesIn(V, fs), Len(fs) > 0
  PROVE  /\ FramesIn(V, Front(fs)) /\ IsSequence(Front(fs)) /\ Len(Front(fs)) = Len(fs) - 1
         /\ Len(fs) > 1 => WaitingIn(Front(fs)[Len(fs) - 1])
<1> DEFINE n == Len(fs)
           gs == Front(fs)
<1>1. n \in Nat /\ n > 0 /\ IsSequence(gs) /\ Len(gs) = n - 1 /\ \A i \in 1..(n - 1) : gs[i] = fs[i]
  BY SequenceLength, Shortened
<1>2. /\ \A k \in 1..n : FrameIn(V, fs[k])
      /\ \A k \in 1..(n - 1) : WaitingIn(fs[k])
  BY DEF FramesIn
<1> HIDE DEF n, gs
<1>3. /\ \A k \in 1..(n - 1) : k \in 1..n
      /\ \A k \in 1..(n - 1 - 1) : k \in 1..(n - 1)
      /\ n > 1 => n - 1 \in 1..(n - 1)
  BY <1>1
<1>4. FramesIn(V, gs)
  BY <1>1, <1>2, <1>3 DEF FramesIn
<1>5. n > 1 => WaitingIn(gs[n - 1])
  BY <1>1, <1>2, <1>3
<1> QED
  BY <1>1, <1>4, <1>5 DEF gs, n

LEMMA FramesRetopped ==
  ASSUME NEW V, NEW fs, IsSequence(fs), FramesIn(V, fs), Len(fs) > 0, NEW f, FrameIn(V, f)
  PROVE  /\ FramesIn(V, [fs EXCEPT ![Len(fs)] = f])
         /\ IsSequence([fs EXCEPT ![Len(fs)] = f]) /\ Len([fs EXCEPT ![Len(fs)] = f]) = Len(fs)
         /\ [fs EXCEPT ![Len(fs)] = f][Len(fs)] = f
<1> DEFINE n == Len(fs)
           gs == [fs EXCEPT ![n] = f]
<1>1. /\ n \in Nat /\ n > 0 /\ IsSequence(gs) /\ Len(gs) = n
      /\ (\A i \in 1..n : i # n => gs[i] = fs[i]) /\ gs[n] = f
  BY SequenceLength, TopReplaced
<1>2. /\ \A k \in 1..n : FrameIn(V, fs[k])
      /\ \A k \in 1..(n - 1) : WaitingIn(fs[k])
  BY DEF FramesIn
<1> HIDE DEF n, gs
<1>3. \A k \in 1..(n - 1) : k \in 1..n /\ k # n
  BY <1>1
<1>4. \A k \in 1..n : FrameIn(V, gs[k])
  BY <1>1, <1>2
<1>5. \A k \in 1..(n - 1) : WaitingIn(gs[k])
  BY <1>1, <1>2, <1>3
<1>6. FramesIn(V, gs)
  BY <1>1, <1>4, <1>5 DEF FramesIn
<1> QED
  BY <1>1, <1>6 DEF gs, n

LEMMA DoneExtended ==
  ASSUME NEW g, FrameInv(g), NEW d
  PROVE  LET f == [g EXCEPT !.done = d]
         IN f.tree = g.tree /\ f.held = g.held /\ f.done = d /\ f.env = g.env
<1> DEFINE f == [g EXCEPT !.done = d]
<1>1. f = [tree |-> g.tree, env |-> g.env, local |-> g.local, held |-> g.held, done |-> d]
  BY DEF FrameInv
<1> HIDE DEF f
<1>2. f.tree = g.tree /\ f.held = g.held /\ f.done = d /\ f.env = g.env
  BY <1>1
<1> QED
  BY <1>2 DEF f

\* A frame that has been waiting gets a value.
LEMMA Received ==
  ASSUME NEW V, NEW g, FrameInv(g), FrameIn(V, g), WaitingIn(g), NEW v \in V
  PROVE  FrameIn(V, [g EXCEPT !.done = Append(g.done, v)])
<1> DEFINE d == Append(g.done, v)
           f == [g EXCEPT !.done = d]
           n == Len(g.done)
<1>1. f.tree = g.tree /\ f.held = g.held /\ f.done = d
  BY DoneExtended
<1>2. g.done \in Seq(V)
  BY DEF FrameIn
<1>3. d \in Seq(V) /\ n \in Nat /\ Len(d) = n + 1 /\ \A i \in 1..n : d[i] = g.done[i]
  BY <1>2
<1> HIDE DEF f, d
<1>4. ASSUME f.tree.op = "walk" PROVE WalkIn(V, f)
  <2>1. WalkIn(V, g) /\ n < Len(Last(g.held).items)
    BY <1>1, <1>4 DEF FrameIn, WaitingIn
  <2> DEFINE m == Len(Last(g.held).items)
  <2>2. m \in Nat
    <3>1. Last(g.held).items \in Seq(V)
      BY <2>1 DEF WalkIn
    <3> DEFINE s == Last(g.held).items
    <3>2. s \in Seq(V)
      BY <3>1
    <3> HIDE DEF s
    <3>3. Len(s) \in Nat
      BY <3>2
    <3> QED
      BY <3>3 DEF s
  <2>4. n < m
    BY <2>1
  <2>5. n + 1 <= m
    <3> HIDE DEF m, n
    <3> QED
      BY <1>3, <2>2, <2>4
  <2>3. Len(f.done) <= Len(Last(f.held).items)
    BY <1>1, <1>3, <2>5
  <2> QED
    BY <1>1, <2>1, <2>3 DEF WalkIn
<1>5. ASSUME f.tree.op \in Operations, Len(f.done) = 2 PROVE f.done[1].kind = "int"
  <2>0. Len(d) = 2
    BY <1>1, <1>5
  <2>3. n + 1 = 2 /\ n \in Nat
    BY <1>3, <2>0
  <2>4. n = 1
    <3> HIDE DEF n
    <3> QED
      BY <2>3
  <2>1. n = 1 /\ f.done[1] = g.done[1]
    BY <1>1, <1>3, <2>4
  <2>2. g.done[1].kind = "int"
    BY <1>1, <1>5, <2>1, Zenon DEF WaitingIn
  <2> QED
    BY <2>1, <2>2
<1>6. FrameIn(V, f)
  BY <1>1, <1>3, <1>4, <1>5 DEF FrameIn
<1> QED
  BY <1>6 DEF f, d

\* What Return makes of the frames.
LEMMA FramesReturned ==
  ASSUME StackInv, Depth > 0, NEW V, FramesIn(V, frames), NEW v \in V, Return(v)
  PROVE  FramesIn(V, frames')
<1>1. /\ WellOpened(frames, envs) /\ IsSequence(frames) /\ Len(frames) > 0 /\ Depth = Len(frames)
      /\ Depth \in Nat
  BY Topmost DEF StackInv, WellOpened, Depth
<1> DEFINE fs == Front(frames)
<1>2. /\ FramesIn(V, fs) /\ IsSequence(fs) /\ Len(fs) = Depth - 1
      /\ Depth > 1 => WaitingIn(fs[Depth - 1])
  BY <1>1, FramesPopped
<1>3. CASE Depth = 1
  <2>1. frames' = <<>>
    BY <1>3 DEF Return
  <2>2. Len(<<>>) = 0 /\ 1..0 = {} /\ 1..(0 - 1) = {}
    OBVIOUS
  <2> QED
    BY <2>1, <2>2 DEF FramesIn
<1>4. CASE Depth > 1
  <2> DEFINE g == fs[Len(fs)]
             f == [g EXCEPT !.done = Append(g.done, v)]
  <2>1. Len(fs) > 0 /\ Len(fs) = Depth - 1 /\ Len(fs) \in 1..Len(fs)
    BY <1>1, <1>2, <1>4
  <2>2. frames' = [fs EXCEPT ![Depth - 1].done = Append(@, v)]
    BY <1>1, <1>4 DEF Return
  <2>3. frames' = [fs EXCEPT ![Len(fs)] = f]
    BY <2>1, <2>2
  <2>4. FrameInv(g)
    <3>1. /\ \A k \in 1..Len(frames) : FrameInv(frames[k])
          /\ \A i \in 1..(Len(frames) - 1) : Front(frames)[i] = frames[i]
      BY <1>1, Shortened DEF WellOpened
    <3>2. Len(fs) \in 1..(Len(frames) - 1) /\ Len(fs) \in 1..Len(frames)
      BY <1>1, <2>1
    <3> QED
      BY <3>1, <3>2
  <2>5. FrameIn(V, g) /\ WaitingIn(g)
    BY <1>2, <1>4, <2>1 DEF FramesIn
  <2>6. FrameIn(V, f)
    <3> HIDE DEF g
    <3> QED
      BY <2>4, <2>5, Received
  <2>7. FramesIn(V, [fs EXCEPT ![Len(fs)] = f])
    <3> HIDE DEF f, fs
    <3> QED
      BY <1>2, <2>1, <2>6, FramesRetopped
  <2> QED
    BY <2>3, <2>7
<1> QED
  BY <1>1, <1>3, <1>4

-----------------------------------------------------------------------------
(***************************************************************************)
(* What the moves do to the values.                                        *)
(***************************************************************************)
SomeTyped == \E V : Typed(V)

\* The session, and the frame on its top.
LEMMA TypedTop ==
  ASSUME StackInv, NEW V, Typed(V), Depth > 0
  PROVE  /\ Depth \in Nat /\ Depth = Len(frames) /\ IsSequence(frames) /\ IsSequence(envs)
         /\ IsSequence(functions) /\ Len(functions) \in Nat
         /\ FrameInv(Top) /\ FrameIn(V, Top)
         /\ Top.done \in Seq(V) /\ Done \in Nat /\ \A k \in 1..Done : Result(k) \in V
         /\ \A v \in V : ValueIn(V, Len(functions), v)
<1>1. Depth \in Nat /\ FrameInv(Top) /\ IsSequence(envs)
  BY Topmost
<1>2. Depth = Len(frames) /\ IsSequence(frames)
  BY DEF Depth, StackInv, WellOpened
<1>3. FrameIn(V, Top)
  <2>1. Depth \in 1..Len(frames)
    BY <1>1, <1>2
  <2> QED
    BY <2>1 DEF Typed, FramesIn, Top
<1>4. Top.done \in Seq(V)
  BY <1>3 DEF FrameIn
<1> DEFINE d == Top.done
<1>5. d \in Seq(V)
  BY <1>4
<1> HIDE DEF d
<1>6. Len(d) \in Nat /\ \A k \in 1..Len(d) : d[k] \in V
  BY <1>5
<1>7. Done \in Nat /\ \A k \in 1..Done : Result(k) \in V
  BY <1>6 DEF d, Done, Result
<1>8. IsSequence(functions) /\ Len(functions) \in Nat
  BY SequenceLength DEF Typed, StoreIn
<1>9. \A v \in V : ValueIn(V, Len(functions), v)
  BY DEF Typed, StoreIn, Closed
<1> QED
  BY <1>1, <1>2, <1>3, <1>4, <1>7, <1>8, <1>9

LEMMA TypedEnv ==
  ASSUME StackInv, NEW V, Typed(V), Depth > 0, Top.env # 0
  PROVE  EnvIn(V, Env)
<1>1. Top.env \in Nat /\ Top.env <= Len(envs) /\ Len(envs) \in Nat
  BY Topmost
<1>2. Top.env \in 1..Len(envs)
  BY <1>1
<1> QED
  BY <1>2 DEF Typed, StoreIn, Env

LEMMA ParsedTop ==
  ASSUME StackInv, NEW V, Typed(V), Depth > 0, Op \notin {"apply", "walk"}
  PROVE  Top.tree \in Parts /\ Top.env # 0 /\ EnvIn(V, Env)
<1>1. FrameIn(V, Top)
  BY TypedTop
<1>2. Top.tree \in Parts
  BY <1>1 DEF FrameIn, Op
<1>3. Top.env # 0
  BY Topmost
<1> QED
  BY <1>2, <1>3, TypedEnv

LEMMA ReturnTyped ==
  ASSUME StackInv, Depth > 0, NEW V, Typed(V), NEW W, V \subseteq W, StoreIn(W, envs', functions'),
         NEW v \in W, Return(v)
  PROVE  SomeTyped'
<1>1. FramesIn(W, frames)
  BY WiderFrames DEF Typed
<1>2. FramesIn(W, frames')
  BY <1>1, FramesReturned
<1>3. Typed(W)'
  BY <1>2 DEF Typed
<1> QED
  BY <1>3 DEF SomeTyped

LEMMA ReturnValue ==
  ASSUME StackInv, Depth > 0, NEW V, Typed(V), UNCHANGED <<envs, functions>>,
         NEW v, ValueIn(V, Len(functions), v), Return(v)
  PROVE  SomeTyped'
<1> DEFINE W == V \cup {v}
<1>1. StoreIn(W, envs', functions')
  <2>1. \A u \in {v} : ValueIn(V, Len(functions), u)
    OBVIOUS
  <2> QED
    BY <2>1, WiderStore DEF Typed
<1>2. V \subseteq W /\ v \in W
  OBVIOUS
<1> HIDE DEF W
<1> QED
  BY <1>1, <1>2, ReturnTyped

LEMMA ReturnMember ==
  ASSUME StackInv, Depth > 0, NEW V, Typed(V), UNCHANGED <<envs, functions>>,
         NEW v \in V, Return(v)
  PROVE  SomeTyped'
<1>1. ValueIn(V, Len(functions), v)
  BY TypedTop
<1> QED
  BY <1>1, ReturnValue

LEMMA FailTyped ==
  ASSUME NEW V, Typed(V), UNCHANGED <<envs, functions>>, NEW diag, Fail(diag)
  PROVE  SomeTyped'
<1>1. Typed(V)'
  BY DEF Typed, Fail
<1> QED
  BY <1>1 DEF SomeTyped

LEMMA BooleanValue ==
  ASSUME NEW V, NEW n, NEW b
  PROVE  ValueIn(V, n, BoolValue(b))
<1>1. <<>> \in Seq(V)
  OBVIOUS
<1> QED
  BY <1>1, PlainValue DEF BoolValue

LEMMA PushTyped ==
  ASSUME StackInv, Depth > 0, NEW V, Typed(V), StoreIn(V, envs', functions'), WaitingIn(Top),
         NEW f, FrameIn(V, f), Push(f)
  PROVE  SomeTyped'
<1>1. IsSequence(frames) /\ FramesIn(V, frames) /\ WaitingIn(frames[Len(frames)])
  BY TypedTop DEF Typed, Top, Depth
<1>2. FramesIn(V, Append(frames, f))
  BY <1>1, FramesPushed
<1>3. Typed(V)'
  BY <1>2 DEF Typed, Push
<1> QED
  BY <1>3 DEF SomeTyped

LEMMA SetTopTyped ==
  ASSUME StackInv, Depth > 0, NEW V, Typed(V), UNCHANGED <<envs, functions>>,
         NEW f, FrameIn(V, f), SetTop(f)
  PROVE  SomeTyped'
<1>1. IsSequence(frames) /\ FramesIn(V, frames) /\ Len(frames) > 0
  BY TypedTop DEF Typed, Depth
<1>2. FramesIn(V, [frames EXCEPT ![Len(frames)] = f])
  BY <1>1, FramesRetopped
<1>3. Typed(V)'
  BY <1>2 DEF Typed, SetTop, Depth
<1> QED
  BY <1>3 DEF SomeTyped

LEMMA FrameFields ==
  ASSUME NEW tree, NEW env
  PROVE  /\ Frame(tree, env).tree = tree /\ Frame(tree, env).held = <<>>
         /\ Frame(tree, env).done = <<>> /\ Frame(tree, env).env = env
BY DEF Frame

LEMMA NewFrameIn ==
  ASSUME NEW V, NEW tree \in Parts, NEW env
  PROVE  FrameIn(V, Frame(tree, env))
<1> DEFINE f == Frame(tree, env)
<1>1. f.tree = tree /\ f.held = <<>> /\ f.done = <<>>
  BY FrameFields
<1>2. tree.op \notin {"walk", "apply"}
  BY TreeParts
<1>3. <<>> \in Seq(V) /\ <<>> \in Seq(Parts) /\ Len(<<>>) = 0
  OBVIOUS
<1> HIDE DEF f
<1>4. FrameIn(V, f)
  BY <1>1, <1>2, <1>3 DEF FrameIn
<1> QED
  BY <1>4 DEF f

LEMMA ChildTyped ==
  ASSUME StackInv, Depth > 0, NEW V, Typed(V), UNCHANGED <<envs, functions>>, WaitingIn(Top),
         NEW tree \in Parts, Child(tree)
  PROVE  SomeTyped'
<1>1. FrameIn(V, Frame(tree, Top.env)) /\ Push(Frame(tree, Top.env))
  BY NewFrameIn DEF Child
<1>2. StoreIn(V, envs', functions')
  BY DEF Typed
<1> QED
  BY <1>1, <1>2, PushTyped

LEMMA BecomeTyped ==
  ASSUME StackInv, Depth > 0, NEW V, Typed(V), UNCHANGED <<envs, functions>>,
         NEW tree \in Parts, Become(tree)
  PROVE  SomeTyped'
<1>1. FrameIn(V, Frame(tree, Top.env)) /\ SetTop(Frame(tree, Top.env))
  BY NewFrameIn DEF Become
<1> QED
  BY <1>1, SetTopTyped

LEMMA IdleWaits ==
  ASSUME NEW f, f.tree.op \notin Operations, f.tree.op # "walk"
  PROVE  WaitingIn(f)
BY DEF WaitingIn

LEMMA NumberOrFail ==
  ASSUME StackInv, Depth > 0, NEW V, Typed(V), UNCHANGED <<envs, functions>>,
         NEW c, c.err = "OK" => c.n \in Ints, ReturnOrFail(c)
  PROVE  SomeTyped'
<1>1. CASE c.err = "OK"
  <2>1. Return(IntValue(c.n)) /\ c.n \in Ints
    BY <1>1 DEF ReturnOrFail
  <2>2. ValueIn(V, Len(functions), IntValue(c.n))
    BY <2>1, NumberValue
  <2> QED
    BY <2>1, <2>2, ReturnValue
<1>2. CASE c.err # "OK"
  <2>1. Fail(c.err)
    BY <1>2 DEF ReturnOrFail
  <2> QED
    BY <2>1, FailTyped
<1> QED
  BY <1>1, <1>2

\* A frame that opens an environment evaluates a tree in it.
LEMMA OpenTyped ==
  ASSUME StackInv, Depth > 0, NEW V, Typed(V), StoreIn(V, envs', functions'), WaitingIn(Top),
         NEW tree \in Parts, NEW env,
         frames' = Append([frames EXCEPT ![Depth] = Local], Frame(tree, env))
  PROVE  SomeTyped'
<1> DEFINE g == Top
           f == [g EXCEPT !.local = TRUE]
<1>1. /\ IsSequence(frames) /\ FramesIn(V, frames) /\ Len(frames) > 0 /\ Depth = Len(frames)
      /\ FrameInv(g) /\ FrameIn(V, g) /\ WaitingIn(g)
  BY TypedTop DEF Typed, Depth
<1>2. frames' = Append([frames EXCEPT ![Depth] = f], Frame(tree, env))
  BY DEF Local
<1> HIDE DEF g
<1>3. f.tree = g.tree /\ f.held = g.held /\ f.done = g.done
  <2>1. g = [tree |-> g.tree, env |-> g.env, local |-> g.local, held |-> g.held, done |-> g.done]
    BY <1>1 DEF FrameInv
  <2>2. f = [tree |-> g.tree, env |-> g.env, local |-> TRUE, held |-> g.held, done |-> g.done]
    BY <2>1, WithLocal
  <2> QED
    BY <2>2
<1> HIDE DEF f
<1>4. FrameIn(V, f)
  <2>1. g.tree.op = "walk" => WalkIn(V, f)
    BY <1>1, <1>3, Zenon DEF FrameIn, WalkIn
  <2> QED
    BY <1>1, <1>3, <2>1 DEF FrameIn
<1>5. WaitingIn(f)
  BY <1>1, <1>3 DEF WaitingIn
<1> DEFINE gs == [frames EXCEPT ![Len(frames)] = f]
<1>6. FramesIn(V, gs) /\ IsSequence(gs) /\ Len(gs) = Len(frames) /\ gs[Len(frames)] = f
  BY <1>1, <1>4, FramesRetopped
<1>7. FrameIn(V, Frame(tree, env))
  BY NewFrameIn
<1>8. frames' = Append(gs, Frame(tree, env))
  BY <1>1, <1>2
<1> HIDE DEF gs
<1>9. FramesIn(V, frames')
  BY <1>5, <1>6, <1>7, <1>8, FramesPushed
<1>10. Typed(V)'
  BY <1>9 DEF Typed
<1> QED
  BY <1>10 DEF SomeTyped

-----------------------------------------------------------------------------
(***************************************************************************)
(* Operands and operators.                                                 *)
(***************************************************************************)
LEMMA OperatorNames ==
  ASSUME NEW op
  PROVE  /\ op \in Operations => op \in {"+", "-", "*", "/", "mod"}
         /\ op \in Orderings => op \in {"<", ">", "<=", ">="}
         /\ op \in Equalities => op \in {"==", "!="}
         /\ op \in Logical => op \in {"and", "or"}
         /\ op \in Unary => op \in {"neg", "not", "new"}
         /\ op \in Strict => op \notin {"walk", "apply", "call", "where", "fix"}
BY DEF Operations, Divisions, Orderings, Equalities, Logical, Unary, Binary, Strict

LEMMA IntExpected ==
  ASSUME NEW k, Op \in Operations \cup {"neg"}
  PROVE  Expected(k)[1] = "int"
<1> DEFINE op == Op
<1>1. op \in {"+", "-", "*", "/", "mod", "neg"}
  BY OperatorNames
<1> DEFINE A == Operations \cup Orderings \cup {"neg"}
           B == Logical \cup {"not", "if"}
<1>2. /\ op \in A /\ op \notin B /\ op \notin {"new", "class"} /\ op \notin Equalities /\ op # "cons"
  BY <1>1 DEF Orderings, Logical, Equalities
<1>3. Expected(k) = CASE op \in A -> <<"int", "TYPE_EXPECTED_INT">>
                      [] op \in B -> <<"bool", "TYPE_EXPECTED_BOOL">>
                      [] op \in {"new", "class"} -> <<"class", "TYPE_EXPECTED_CLASS">>
                      [] op \in Equalities -> <<Result(1).kind, "TYPE_EQUALITY_MISMATCH">>
                      [] op = "cons" -> <<IF k = 2 THEN "list" ELSE Result(1).kind, "TYPE_EXPECTED_LIST">>
  BY Zenon DEF Expected
<1> HIDE DEF op, A, B
<1>4. Expected(k) = <<"int", "TYPE_EXPECTED_INT">>
  BY <1>2, <1>3
<1> QED
  BY <1>4

\* The last operand of an arithmetic operator is an integer.
LEMMA AcceptedInt ==
  ASSUME StackInv, NEW V, Typed(V), Depth > 0, Op \in Operations \cup {"neg"}, Accepted, Done # 0
  PROVE  Result(Done).kind = "int" /\ Result(Done).n \in Ints
<1>1. Done \in Nat /\ Result(Done) \in V /\ ValueIn(V, Len(functions), Result(Done))
  BY TypedTop
<1>2. Result(Done).kind = "int"
  BY IntExpected DEF Accepted
<1> QED
  BY <1>1, <1>2 DEF ValueIn

LEMMA OperandTyped ==
  ASSUME StackInv, NEW V, Typed(V), EvalOperand
  PROVE  SomeTyped'
<1>1. Depth > 0 /\ Op \in Strict /\ Done < Operands /\ UNCHANGED <<envs, functions>>
  BY DEF EvalOperand, Evaluating, Only, store
<1>2. Op \notin {"walk", "apply", "call", "where", "fix"}
  BY <1>1, OperatorNames
<1>3. Top.tree \in Parts /\ Done \in Nat
  BY <1>1, <1>2, ParsedTop, TypedTop
<1>4. Top.tree.kids \in Seq(Parts) /\ (Op = "if" => Len(Top.tree.kids) = 3)
  BY <1>3, TreeParts DEF Op
<1>5. CASE Accepted
  <2>1. Child(Kid(Done + 1))
    BY <1>5 DEF EvalOperand
  <2>2. Operands \in Nat /\ Operands <= Len(Top.tree.kids)
    <3> DEFINE kids == Top.tree.kids
    <3>1. kids \in Seq(Parts) /\ (Op = "if" => Len(kids) = 3)
      BY <1>4
    <3>2. Operands = IF Op = "if" THEN 1 ELSE Len(kids)
      BY DEF Operands
    <3> HIDE DEF kids
    <3>3. Operands \in Nat /\ Operands <= Len(kids)
      BY <3>1, <3>2
    <3> QED
      BY <3>3 DEF kids
  <2>3. Kid(Done + 1) \in Parts
    <3> DEFINE kids == Top.tree.kids
    <3>1. kids \in Seq(Parts) /\ Operands <= Len(kids)
      BY <1>4, <2>2
    <3> HIDE DEF kids
    <3>2. Done + 1 \in 1..Len(kids)
      BY <1>1, <1>3, <2>2, <3>1
    <3>3. kids[Done + 1] \in Parts
      BY <3>1, <3>2
    <3> QED
      BY <3>3 DEF kids, Kid
  <2>4. WaitingIn(Top)
    <3>1. ASSUME Op \in Operations, Done = 1 PROVE Result(1).kind = "int"
      BY <1>1, <1>5, <3>1, AcceptedInt
    <3> QED
      BY <1>2, <3>1 DEF WaitingIn, Op, Done, Result
  <2> QED
    BY <1>1, <2>1, <2>3, <2>4, ChildTyped
<1>6. CASE ~Accepted
  <2>1. Fail(Expected(Done)[2])
    BY <1>6 DEF EvalOperand
  <2> QED
    BY <1>1, <2>1, FailTyped
<1> QED
  BY <1>5, <1>6

LEMMA NegatedInt ==
  ASSUME NEW n \in Ints, Negated(n).err = "OK"
  PROVE  Negated(n).n \in Ints
<1>1. n # MinInt
  BY DEF Negated, Error
<1>2. Negated(n).n = -n
  BY <1>1 DEF Negated, Number
<1> QED
  BY <1>1, <1>2, ArithmeticAssumption DEF Ints, MinInt

LEMMA CheckedInt ==
  ASSUME NEW op \in Operations, NEW l \in Ints, NEW r \in Ints, CheckedBinary(op, l, r).err = "OK"
  PROVE  CheckedBinary(op, l, r).n \in Ints
BY OperationsExact DEF ExactOrRefused

LEMMA ConcatIn ==
  ASSUME NEW V, NEW s \in Seq(V), NEW t \in Seq(V)
  PROVE  /\ s \o t \in Seq(V) /\ Len(s \o t) = Len(s) + Len(t)
         /\ \A i \in 1..Len(s) : (s \o t)[i] = s[i]
         /\ \A i \in 1..Len(t) : (s \o t)[Len(s) + i] = t[i]
OBVIOUS

LEMMA ObjectIn ==
  ASSUME NEW V, NEW n, NEW class
  PROVE  ValueIn(V, n, Object(class)) /\ Object(class).kind = "object"
<1>1. <<>> \in Seq(V)
  OBVIOUS
<1>2. ValueIn(V, n, Object(class))
  BY <1>1, PlainValue DEF Object
<1>3. Object(class).kind = "object"
  BY DEF Object, Value
<1> QED
  BY <1>2, <1>3

LEMMA ListIn ==
  ASSUME NEW V, NEW n, NEW items \in Seq(V)
  PROVE  ValueIn(V, n, ListValue(items))
BY PlainValue DEF ListValue

\* What the operators give that are neither operations nor a negation.
LEMMA AppliedIn ==
  ASSUME StackInv, NEW V, Typed(V), Depth > 0,
         Op \in Orderings \cup Equalities \cup {"cons", "new", "not"} \cup Logical,
         Op \in {"new", "not"} => Done = 1, Op \notin {"new", "not"} => Done = 2
  PROVE  ValueIn(V, Len(functions), Applied)
<1>1. (\A k \in 1..Done : Result(k) \in V) /\ \A v \in V : ValueIn(V, Len(functions), v)
  BY TypedTop
<1> DEFINE op == Op
           less == BoolValue(Compare(Op, Result(1).n, Result(2).n))
           same == BoolValue((Result(1) = Result(2)) = (Op = "=="))
           list == ListValue(<<Result(1)>> \o Result(2).items)
           object == Object(Result(1))
           contrary == BoolValue(~IsTrue(Result(1)))
           right == Result(2)
           n == Len(functions)
<1>2. ValueIn(V, n, less) /\ ValueIn(V, n, same) /\ ValueIn(V, n, object) /\ ValueIn(V, n, contrary)
  BY BooleanValue, ObjectIn
<1>3. ASSUME Done = 2 PROVE ValueIn(V, n, list) /\ ValueIn(V, n, right)
  <2> DEFINE a == Result(1)
             s == Result(2).items
  <2>1. Result(1) \in V /\ Result(2) \in V
    BY <1>1, <1>3
  <2>2. ValueIn(V, n, right)
    BY <1>1, <2>1
  <2>3. a \in V /\ s \in Seq(V)
    BY <2>1, <2>2 DEF ValueIn
  <2> HIDE DEF a, s
  <2>4. <<a>> \in Seq(V)
    BY <2>3
  <2>5. <<a>> \o s \in Seq(V)
    BY <2>3, <2>4, ConcatIn
  <2> HIDE DEF n
  <2>6. ValueIn(V, n, ListValue(<<a>> \o s))
    BY <2>5, ListIn
  <2> QED
    BY <2>2, <2>6 DEF a, s
<1>4. Applied = CASE op \in Orderings -> less
                  [] op \in Equalities -> same
                  [] op = "cons" -> list
                  [] op = "new" -> object
                  [] op = "not" -> contrary
                  [] op \in Logical -> right
  BY Zenon DEF Applied
<1>5. /\ op \in Orderings => op \in {"<", ">", "<=", ">="}
      /\ op \in Equalities => op \in {"==", "!="}
      /\ op \in Logical => op \in {"and", "or"}
  BY OperatorNames
<1>6. /\ op \in Orderings \/ op \in Equalities \/ op \in {"cons", "new", "not"} \/ op \in Logical
      /\ op \notin {"new", "not"} => Done = 2
  OBVIOUS
<1> HIDE DEF op, less, same, list, object, contrary, right, n
<1>7. CASE op \in Orderings
  <2>1. Applied = less
    BY <1>4, <1>5, <1>7
  <2> QED
    BY <1>2, <2>1 DEF n
<1>8. CASE op \in Equalities
  <2>1. Applied = same
    BY <1>4, <1>5, <1>8
  <2> QED
    BY <1>2, <2>1 DEF n
<1>9. CASE op = "cons"
  <2>1. Applied = list
    BY <1>4, <1>5, <1>9
  <2> QED
    BY <1>3, <1>6, <1>9, <2>1 DEF n
<1>10. CASE op = "new"
  <2>1. Applied = object
    BY <1>4, <1>5, <1>10
  <2> QED
    BY <1>2, <2>1 DEF n
<1>11. CASE op = "not"
  <2>1. Applied = contrary
    BY <1>4, <1>5, <1>11
  <2> QED
    BY <1>2, <2>1 DEF n
<1>12. CASE op \in Logical
  <2>1. Applied = right
    BY <1>4, <1>5, <1>12
  <2>2. Done = 2
    BY <1>5, <1>6, <1>12
  <2> QED
    BY <1>3, <2>1, <2>2 DEF n
<1> QED
  BY <1>6, <1>7, <1>8, <1>9, <1>10, <1>11, <1>12

LEMMA OperatorTyped ==
  ASSUME StackInv, NEW V, Typed(V), EvalOperator
  PROVE  SomeTyped'
<1>1. Depth > 0 /\ Op \in Unary \cup Binary /\ Done = Operands /\ UNCHANGED <<envs, functions>>
  BY DEF EvalOperator, Evaluating, Only, store
<1>2. Op \in Strict /\ Op # "if" /\ Op \notin {"walk", "apply", "call", "where", "fix"}
  <2>1. Op # "if"
    BY <1>1 DEF Unary, Binary, Operations, Divisions, Orderings, Equalities, Logical
  <2>2. Op \in Strict
    BY <1>1 DEF Strict
  <2> QED
    BY <2>1, <2>2, OperatorNames
<1>3. Top.tree \in Parts /\ FrameIn(V, Top)
  BY <1>1, <1>2, ParsedTop, TypedTop
<1>4. (Op \in Unary => Done = 1) /\ (Op \in Binary => Done = 2)
  <2>1. Done = Len(Top.tree.kids)
    BY <1>1, <1>2 DEF Operands
  <2>2. /\ Op \in Unary \cup {"group", "::", ":=", "f:=", "fix", "attr"} => Len(Top.tree.kids) = 1
        /\ Op \in Binary \cup {";", "where"} => Len(Top.tree.kids) = 2
    BY <1>3, TreeParts DEF Op
  <2> QED
    BY <2>1, <2>2
<1>5. CASE ~Accepted
  <2>1. Fail(Expected(Done)[2])
    <3>1. \/ ~Accepted /\ Fail(Expected(Done)[2])
          \/ Accepted
      BY <1>5, Zenon DEF EvalOperator
    <3> QED
      BY <1>5, <3>1
  <2> QED
    BY <1>1, <2>1, FailTyped
<1>6. CASE Accepted /\ Op \in Operations
  <2>1. Op # "neg"
    BY <1>6, OperatorNames
  <2>2. ReturnOrFail(CheckedBinary(Op, Result(1).n, Result(2).n))
    BY <1>6, <2>1 DEF EvalOperator
  <2>3. Done = 2
    BY <1>4, <1>6 DEF Binary
  <2>4. Result(2).n \in Ints
    BY <1>1, <1>6, <2>3, AcceptedInt
  <2>5. Result(1).kind = "int"
    BY <1>3, <1>6, <2>3 DEF FrameIn, Result, Done, Op
  <2>6. Result(1).n \in Ints
    <3>1. Result(1) \in V
      BY <1>1, <2>3, TypedTop
    <3>2. ValueIn(V, Len(functions), Result(1))
      BY <1>1, <3>1, TypedTop
    <3> QED
      BY <2>5, <3>2 DEF ValueIn
  <2> DEFINE c == CheckedBinary(Op, Result(1).n, Result(2).n)
  <2>7. c.err = "OK" => c.n \in Ints
    BY <1>6, <2>4, <2>6, CheckedInt
  <2>8. ReturnOrFail(c)
    BY <2>2
  <2> HIDE DEF c
  <2> QED
    BY <1>1, <2>7, <2>8, NumberOrFail
<1>7. CASE Accepted /\ Op = "neg"
  <2>1. Op \notin Operations
    BY <1>7, OperatorNames
  <2>2. ReturnOrFail(Negated(Result(1).n))
    BY <1>7, <2>1 DEF EvalOperator
  <2>3. Done = 1
    BY <1>4, <1>7 DEF Unary
  <2>4. Result(1).n \in Ints
    BY <1>1, <1>7, <2>3, AcceptedInt
  <2> DEFINE c == Negated(Result(1).n)
  <2>5. c.err = "OK" => c.n \in Ints
    BY <2>4, NegatedInt
  <2>6. ReturnOrFail(c)
    BY <2>2
  <2> HIDE DEF c
  <2> QED
    BY <1>1, <2>5, <2>6, NumberOrFail
<1>8. CASE Accepted /\ Op \notin Operations /\ Op # "neg"
  <2>1. Return(Applied)
    BY <1>8 DEF EvalOperator
  <2>2. Op \in Orderings \cup Equalities \cup {"cons", "new", "not"} \cup Logical
    BY <1>1, <1>8 DEF Unary, Binary
  <2>3. (Op \in {"new", "not"} => Done = 1) /\ (Op \notin {"new", "not"} => Done = 2)
    <3>1. Op \in {"new", "not"} => Op \in Unary
      BY DEF Unary
    <3>2. Op \notin {"new", "not"} => Op \in Binary
      BY <2>2 DEF Binary
    <3> QED
      BY <1>4, <3>1, <3>2
  <2>4. ValueIn(V, Len(functions), Applied)
    BY <1>1, <2>2, <2>3, AppliedIn
  <2> QED
    BY <1>1, <2>1, <2>4, ReturnValue
<1> QED
  BY <1>5, <1>6, <1>7, <1>8

LEMMA DecidedTyped ==
  ASSUME StackInv, NEW V, Typed(V), EvalDecided
  PROVE  SomeTyped'
<1>1. Depth > 0 /\ UNCHANGED <<envs, functions>> /\ Return(BoolValue(Op = "or"))
  BY DEF EvalDecided, Evaluating, Only, store
<1> DEFINE v == BoolValue(Op = "or")
<1>2. ValueIn(V, Len(functions), v)
  BY BooleanValue
<1>3. Return(v)
  BY <1>1
<1> HIDE DEF v
<1> QED
  BY <1>1, <1>2, <1>3, ReturnValue

LEMMA LeastIntTyped ==
  ASSUME StackInv, NEW V, Typed(V), EvalLeastInt
  PROVE  SomeTyped'
<1>1. Depth > 0 /\ UNCHANGED <<envs, functions>> /\ Return(IntValue(MinInt))
  BY DEF EvalLeastInt, Evaluating, Only, store
<1>2. MinInt \in Ints
  BY ArithmeticAssumption DEF Ints, MinInt
<1>3. ValueIn(V, Len(functions), IntValue(MinInt))
  BY <1>2, NumberValue
<1> QED
  BY <1>1, <1>3, ReturnValue

\* The operands of the forms.
LEMMA KidIn ==
  ASSUME NEW tree \in Parts, NEW k \in 1..Len(tree.kids)
  PROVE  tree.kids[k] \in Parts
<1> DEFINE kids == tree.kids
<1>1. kids \in Seq(Parts)
  BY TreeParts
<1> HIDE DEF kids
<1>2. \A i \in 1..Len(kids) : kids[i] \in Parts
  BY <1>1
<1> QED
  BY <1>2 DEF kids

LEMMA OnlyKid ==
  ASSUME NEW tree \in Parts, tree.op \in {"group", "::", ":=", "f:=", "fix", "attr"}
  PROVE  tree.kids[1] \in Parts
<1>1. Len(tree.kids) = 1
  BY TreeParts
<1>2. 1 \in 1..Len(tree.kids)
  BY <1>1
<1> QED
  BY <1>2, KidIn

LEMMA OneAndTwo == 1 \in 1..2 /\ 2 \in 1..2
OBVIOUS

LEMMA TwoKids ==
  ASSUME NEW tree \in Parts, tree.op \in {";", "where"}
  PROVE  tree.kids[1] \in Parts /\ tree.kids[2] \in Parts
<1>1. Len(tree.kids) = 2
  BY TreeParts
<1>3. 1 \in 1..2 /\ 2 \in 1..2
  BY OneAndTwo
<1>2. 1 \in 1..Len(tree.kids) /\ 2 \in 1..Len(tree.kids)
  BY <1>1, <1>3, Zenon
<1> QED
  BY <1>2, KidIn

LEMMA ConditionalTyped ==
  ASSUME StackInv, NEW V, Typed(V), EvalConditional
  PROVE  SomeTyped'
<1>1. Depth > 0 /\ Op = "if" /\ UNCHANGED <<envs, functions>>
  BY DEF EvalConditional, Evaluating, Only, store
<1>2. Top.tree \in Parts /\ Top.tree.op = "if"
  BY <1>1, ParsedTop DEF Op
<1>3. Len(Top.tree.kids) = 3
  BY <1>2, TreeParts
<1>4. 2 \in 1..Len(Top.tree.kids) /\ 3 \in 1..Len(Top.tree.kids)
  BY <1>3
<1>5. Kid(2) \in Parts /\ Kid(3) \in Parts
  BY <1>2, <1>4, KidIn DEF Kid
<1>6. Become(Kid(2)) \/ Become(Kid(3)) \/ Fail(Expected(1)[2])
  BY DEF EvalConditional
<1> QED
  BY <1>1, <1>5, <1>6, BecomeTyped, FailTyped

LEMMA LiteralInt ==
  ASSUME NEW n \in Nat, Literal(n).err = "OK"
  PROVE  Literal(n).n \in Ints
<1>1. ~(n > MaxInt)
  BY DEF Literal, Error
<1>2. Literal(n).n = n
  BY <1>1 DEF Literal, Number
<1> QED
  BY <1>1, <1>2, ArithmeticAssumption DEF Ints, MinInt

LEMMA LeafTyped ==
  ASSUME StackInv, NEW V, Typed(V), EvalLeaf
  PROVE  SomeTyped'
<1>1. Depth > 0 /\ Op \in {"int", "bool", "nil", "id"} /\ UNCHANGED <<envs, functions>>
  BY DEF EvalLeaf, Evaluating, Only, store
<1>2. Op \notin {"apply", "walk"}
  BY <1>1
<1>3. Top.tree \in Parts /\ EnvIn(V, Env)
  BY <1>1, <1>2, ParsedTop
<1>4. CASE Op = "int"
  <2>1. ReturnOrFail(Literal(Top.tree.n))
    BY <1>4 DEF EvalLeaf
  <2>2. Top.tree.n \in Nat
    BY <1>3, TreeParts
  <2> DEFINE c == Literal(Top.tree.n)
  <2>3. c.err = "OK" => c.n \in Ints
    BY <2>2, LiteralInt
  <2>4. ReturnOrFail(c)
    BY <2>1
  <2> HIDE DEF c
  <2> QED
    BY <1>1, <2>3, <2>4, NumberOrFail
<1>5. CASE Op = "bool"
  <2> DEFINE v == BoolValue(Top.tree.n = 1)
  <2>1. Return(v)
    BY <1>5 DEF EvalLeaf
  <2>2. ValueIn(V, Len(functions), v)
    BY BooleanValue
  <2> HIDE DEF v
  <2> QED
    BY <1>1, <2>1, <2>2, ReturnValue
<1>6. CASE Op = "nil"
  <2>1. Return(ListValue(<<>>))
    BY <1>6 DEF EvalLeaf
  <2>2. <<>> \in Seq(V)
    OBVIOUS
  <2>3. ValueIn(V, Len(functions), ListValue(<<>>))
    BY <2>2, ListIn
  <2> QED
    BY <1>1, <2>1, <2>3, ReturnValue
<1>7. CASE Op = "id"
  <2> DEFINE name == Top.tree.names[1]
  <2>1. IF Bound(Env, name) THEN Return(Lookup(Env, name)) ELSE Fail("NAME_UNBOUND")
    BY <1>7 DEF EvalLeaf
  <2> HIDE DEF name
  <2>2. CASE Bound(Env, name)
    <3>1. Closed(V, Len(functions))
      BY DEF Typed, StoreIn
    <3>2. Lookup(Env, name) \in V
      BY <1>3, <2>2, <3>1, FoundIn
    <3> QED
      BY <1>1, <2>1, <2>2, <3>2, ReturnMember
  <2>3. CASE ~Bound(Env, name)
    BY <1>1, <2>1, <2>3, FailTyped
  <2> QED
    BY <2>2, <2>3
<1> QED
  BY <1>1, <1>4, <1>5, <1>6, <1>7

LEMMA GroupTyped ==
  ASSUME StackInv, NEW V, Typed(V), EvalGroup
  PROVE  SomeTyped'
<1>1. Depth > 0 /\ Op = "group" /\ UNCHANGED <<envs, functions>> /\ Become(Kid(1))
  BY DEF EvalGroup, Evaluating, Only, store
<1>2. Top.tree \in Parts /\ Top.tree.op = "group"
  BY <1>1, ParsedTop DEF Op
<1>3. Kid(1) \in Parts
  BY <1>2, OnlyKid DEF Kid
<1> QED
  BY <1>1, <1>3, BecomeTyped

LEMMA TopWaits ==
  ASSUME NEW op, Op = op, op \notin Operations, op # "walk"
  PROVE  WaitingIn(Top)
BY IdleWaits DEF Op

LEMMA FormsAreNoOperators ==
  ASSUME NEW op \in {";", ":=", "f:=", "where", "attr", "call", "apply", "class", "fix", "::"}
  PROVE  op \notin Operations /\ op # "walk"
BY DEF Operations, Divisions

LEMMA SequenceTyped ==
  ASSUME StackInv, NEW V, Typed(V), EvalSequence
  PROVE  SomeTyped'
<1>1. Depth > 0 /\ Op = ";" /\ UNCHANGED <<envs, functions>>
  BY DEF EvalSequence, Evaluating, Only, store
<1>2. Top.tree \in Parts /\ Top.tree.op = ";"
  BY <1>1, ParsedTop DEF Op
<1>3. Kid(1) \in Parts /\ Kid(2) \in Parts
  BY <1>2, TwoKids DEF Kid
<1>4. WaitingIn(Top)
  BY <1>1, FormsAreNoOperators, TopWaits
<1>5. CASE Done = 0
  <2>1. Child(Kid(1))
    BY <1>5 DEF EvalSequence
  <2> QED
    BY <1>1, <1>3, <1>4, <2>1, ChildTyped
<1>6. CASE Done # 0
  <2>1. Become(Kid(2))
    BY <1>6 DEF EvalSequence
  <2> QED
    BY <1>1, <1>3, <2>1, BecomeTyped
<1> QED
  BY <1>5, <1>6

-----------------------------------------------------------------------------
(***************************************************************************)
(* Definitions and functions.                                              *)
(***************************************************************************)
LEMMA MadeFunctionIn ==
  ASSUME NEW V, NEW literal \in Parts, literal.op = "::", NEW env, EnvIn(V, env), NEW self
  PROVE  FunctionIn(V, MakeFunction(literal, env, self))
<1> DEFINE f == MakeFunction(literal, env, self)
<1>1. f.params = literal.names /\ f.body = literal.kids[1] /\ f.env = env
  BY DEF MakeFunction
<1>2. IsSequence(literal.names) /\ literal.kids[1] \in Parts
  BY TreeParts, OnlyKid DEF IsSequence
<1> HIDE DEF f
<1>3. FunctionIn(V, f)
  BY <1>1, <1>2 DEF FunctionIn
<1> QED
  BY <1>3 DEF f

LEMMA FunctionLiteralTyped ==
  ASSUME StackInv, NEW V, Typed(V), EvalFunctionLiteral
  PROVE  SomeTyped'
<1> DEFINE f == MakeFunction(Top.tree, Env, NoName)
<1>1. /\ Depth > 0 /\ Op = "::" /\ UNCHANGED envs
      /\ functions' = Append(functions, f) /\ Return(NextFunction)
  BY DEF EvalFunctionLiteral, Evaluating, Only
<1>2. Top.tree \in Parts /\ Top.tree.op = "::" /\ EnvIn(V, Env)
  BY <1>1, ParsedTop DEF Op
<1>3. FunctionIn(V, f)
  BY <1>2, MadeFunctionIn
<1> HIDE DEF f
<1>4. PICK W : /\ V \subseteq W /\ Function(Len(functions) + 1) \in W
               /\ StoreIn(W, envs, Append(functions, f))
  BY <1>3, FunctionAppended DEF Typed
<1>5. StoreIn(W, envs', functions') /\ NextFunction \in W
  BY <1>1, <1>4 DEF NextFunction
<1> QED
  BY <1>1, <1>4, <1>5, ReturnTyped

LEMMA AssignmentTyped ==
  ASSUME StackInv, NEW V, Typed(V), EvalAssignment
  PROVE  SomeTyped'
<1>1. Depth > 0 /\ Op = ":=" /\ UNCHANGED functions
  BY DEF EvalAssignment, Evaluating, Only
<1>2. Top.tree \in Parts /\ Top.tree.op = ":=" /\ EnvIn(V, Env)
  BY <1>1, ParsedTop DEF Op
<1>3. CASE Done = 0
  <2>1. Child(Kid(1)) /\ UNCHANGED envs
    BY <1>3 DEF EvalAssignment
  <2>2. Kid(1) \in Parts
    BY <1>2, OnlyKid DEF Kid
  <2>3. WaitingIn(Top)
    BY <1>1, FormsAreNoOperators, TopWaits
  <2> QED
    BY <1>1, <2>1, <2>2, <2>3, ChildTyped
<1>4. CASE Done # 0
  <2> DEFINE v == Result(1)
  <2>1. Return(v) /\ SetEnv(Define(Env, Target, v))
    BY <1>4 DEF EvalAssignment
  <2>2. v \in V
    <3>1. Done \in Nat /\ \A k \in 1..Done : Result(k) \in V
      BY <1>1, TypedTop
    <3> QED
      BY <1>4, <3>1
  <2> HIDE DEF v
  <2>3. EnvIn(V, Define(Env, Target, v))
    BY <1>2, <2>2, DefinedIn
  <2>4. StoreIn(V, [envs EXCEPT ![Top.env] = Define(Env, Target, v)], functions)
    BY <1>1, <2>3, EnvSet, TypedTop DEF Typed
  <2>5. StoreIn(V, envs', functions')
    BY <1>1, <2>1, <2>4 DEF SetEnv
  <2> QED
    BY <1>1, <2>1, <2>2, <2>5, ReturnTyped
<1> QED
  BY <1>3, <1>4

LEMMA ClassDefinitionTyped ==
  ASSUME StackInv, NEW V, Typed(V), EvalClassDefinition
  PROVE  SomeTyped'
<1> DEFINE class == Class(Target, Top.done)
           W == V \cup {class}
<1>1. Depth > 0 /\ Op = "class" /\ UNCHANGED functions
  BY DEF EvalClassDefinition, Evaluating, Only
<1>2. Top.tree \in Parts /\ EnvIn(V, Env)
  BY <1>1, ParsedTop
<1>3. CASE Accepted
  <2>1. Return(class) /\ SetEnv(Define(Env, Target, class))
    BY <1>3 DEF EvalClassDefinition
  <2>2. Top.done \in Seq(V) /\ IsSequence(envs)
    BY <1>1, TypedTop
  <2>3. ValueIn(V, Len(functions), class)
    BY <2>2, PlainValue DEF Class
  <2>4. V \subseteq W /\ class \in W
    OBVIOUS
  <2>5. StoreIn(W, envs, functions)
    <3> HIDE DEF class
    <3>1. \A u \in {class} : ValueIn(V, Len(functions), u)
      BY <2>3
    <3> QED
      BY <3>1, WiderStore DEF Typed
  <2> HIDE DEF class, W
  <2>6. EnvIn(W, Define(Env, Target, class))
    BY <1>2, <2>4, WiderEnv, DefinedIn
  <2>7. StoreIn(W, [envs EXCEPT ![Top.env] = Define(Env, Target, class)], functions)
    BY <2>2, <2>5, <2>6, EnvSet
  <2>8. StoreIn(W, envs', functions')
    BY <1>1, <2>1, <2>7 DEF SetEnv
  <2> QED
    BY <1>1, <2>1, <2>4, <2>8, ReturnTyped
<1>4. CASE ~Accepted
  <2>1. Fail(Expected(Done)[2]) /\ UNCHANGED envs
    BY <1>4 DEF EvalClassDefinition
  <2> QED
    BY <1>1, <2>1, FailTyped
<1> QED
  BY <1>3, <1>4

LEMMA RecursiveAssignmentTyped ==
  ASSUME StackInv, NEW V, Typed(V), EvalRecursiveAssignment
  PROVE  SomeTyped'
<1> DEFINE f == MakeFunction(Kid(1), Env, Target)
<1>1. /\ Depth > 0 /\ Op = "f:=" /\ functions' = Append(functions, f)
      /\ SetEnv(Define(Env, Target, NextFunction)) /\ Return(NextFunction)
  BY DEF EvalRecursiveAssignment, Evaluating
<1>2. Top.tree \in Parts /\ Top.tree.op = "f:=" /\ EnvIn(V, Env) /\ IsSequence(envs)
  BY <1>1, ParsedTop, TypedTop DEF Op
<1>3. Kid(1) \in Parts /\ Kid(1).op = "::"
  BY <1>2, OnlyKid, TreeParts DEF Kid
<1>4. FunctionIn(V, f)
  BY <1>2, <1>3, MadeFunctionIn
<1> HIDE DEF f
<1>5. PICK W : /\ V \subseteq W /\ Function(Len(functions) + 1) \in W
               /\ StoreIn(W, envs, Append(functions, f))
  BY <1>4, FunctionAppended DEF Typed
<1>6. NextFunction \in W
  BY <1>5 DEF NextFunction
<1>7. EnvIn(W, Define(Env, Target, NextFunction))
  BY <1>2, <1>5, <1>6, WiderEnv, DefinedIn
<1>8. StoreIn(W, [envs EXCEPT ![Top.env] = Define(Env, Target, NextFunction)], Append(functions, f))
  BY <1>2, <1>5, <1>7, EnvSet
<1>9. StoreIn(W, envs', functions')
  BY <1>1, <1>8 DEF SetEnv
<1> QED
  BY <1>1, <1>5, <1>6, <1>9, ReturnTyped

-----------------------------------------------------------------------------
(***************************************************************************)
(* Builtins and the methods of collections.                                *)
(***************************************************************************)
MethodNames == {"size", "subset", "collect", "filter", "all", "exists", "locate", "forEachDo", "reduce"}

LEMMA Methods ==
  /\ DOMAIN CollectionMethods = MethodNames
  /\ CollectionMethods["size"] = 0 /\ CollectionMethods["subset"] = 0 /\ CollectionMethods["collect"] = 1
  /\ CollectionMethods["filter"] = 1 /\ CollectionMethods["all"] = 1 /\ CollectionMethods["exists"] = 1
  /\ CollectionMethods["locate"] = 1 /\ CollectionMethods["forEachDo"] = 1 /\ CollectionMethods["reduce"] = 2
BY DEF CollectionMethods, MethodNames

BuiltinNames ==
  {"hd", "size", "ask", "set", "callableParams", "callableArityRange", "subset", "map", "collect",
   "filter", "all", "exists", "locate", "forEachDo", "reduce"}

LEMMA Builtins ==
  /\ DOMAIN ParamNames = BuiltinNames
  /\ ParamNames["hd"] = <<"list">> /\ ParamNames["size"] = <<"collection">>
  /\ ParamNames["ask"] = <<>> /\ ParamNames["set"] = <<"items">>
  /\ ParamNames["callableParams"] = <<"callable">> /\ ParamNames["callableArityRange"] = <<"callable">>
  /\ ParamNames["subset"] = <<"left", "right">>
  /\ ParamNames["map"] = <<"function", "collection">>
  /\ ParamNames["collect"] = <<"function", "collection">>
  /\ ParamNames["filter"] = <<"predicate", "collection">>
  /\ ParamNames["all"] = <<"predicate", "collection">>
  /\ ParamNames["exists"] = <<"predicate", "collection">>
  /\ ParamNames["locate"] = <<"predicate", "collection">>
  /\ ParamNames["forEachDo"] = <<"function", "collection">>
  /\ ParamNames["reduce"] = <<"function", "initial", "collection">>
BY DEF ParamNames, BuiltinNames

LEMMA ShortSequences ==
  /\ IsSequence(<<>>) /\ Len(<<>>) = 0
  /\ \A x : IsSequence(<<x>>) /\ Len(<<x>>) = 1
  /\ \A x, y : IsSequence(<<x, y>>) /\ Len(<<x, y>>) = 2
  /\ \A x, y, z : IsSequence(<<x, y, z>>) /\ Len(<<x, y, z>>) = 3
<1>1. <<>> \in Seq({})
  OBVIOUS
<1>2. ASSUME NEW x PROVE <<x>> \in Seq({x})
  OBVIOUS
<1>3. ASSUME NEW x, NEW y PROVE <<x, y>> \in Seq({x, y})
  OBVIOUS
<1>4. ASSUME NEW x, NEW y, NEW z PROVE <<x, y, z>> \in Seq({x, y, z})
  OBVIOUS
<1>5. /\ Len(<<>>) = 0 /\ \A x : Len(<<x>>) = 1
      /\ (\A x, y : Len(<<x, y>>) = 2) /\ \A x, y, z : Len(<<x, y, z>>) = 3
  OBVIOUS
<1> QED
  BY <1>1, <1>2, <1>3, <1>4, <1>5, Zenon DEF IsSequence

\* How many parameters the builtins have.
LEMMA ParamCounts ==
  /\ \A x \in BuiltinNames : IsSequence(ParamNames[x])
  /\ Len(ParamNames["ask"]) = 0
  /\ \A x \in {"hd", "size", "set", "callableParams", "callableArityRange"} : Len(ParamNames[x]) = 1
  /\ \A x \in {"subset", "map", "collect", "filter", "all", "exists", "locate", "forEachDo"} : Len(ParamNames[x]) = 2
  /\ Len(ParamNames["reduce"]) = 3
<1> DEFINE P == ParamNames
<1>1. \A x \in {"hd", "size", "set", "callableParams", "callableArityRange"} : \E a : P[x] = <<a>>
  BY Builtins, Zenon
<1>2. \A x \in {"subset", "map", "collect", "filter", "all", "exists", "locate", "forEachDo"} :
        \E a, b : P[x] = <<a, b>>
  BY Builtins, Zenon
<1>3. P["ask"] = <<>> /\ \E a, b, c : P["reduce"] = <<a, b, c>>
  BY Builtins, Zenon
<1> HIDE DEF P
<1>4. \A x \in {"hd", "size", "set", "callableParams", "callableArityRange"} :
        IsSequence(P[x]) /\ Len(P[x]) = 1
  BY <1>1, ShortSequences, Zenon
<1>5. \A x \in {"subset", "map", "collect", "filter", "all", "exists", "locate", "forEachDo"} :
        IsSequence(P[x]) /\ Len(P[x]) = 2
  <2> DEFINE S == {"subset", "map", "collect", "filter", "all", "exists", "locate", "forEachDo"}
  <2>1. \A x \in S : \E a, b : P[x] = <<a, b>>
    BY <1>2
  <2> HIDE DEF S
  <2>2. \A x \in S : IsSequence(P[x]) /\ Len(P[x]) = 2
    BY <2>1, ShortSequences, Zenon
  <2> QED
    BY <2>2 DEF S
<1>6. IsSequence(P["ask"]) /\ Len(P["ask"]) = 0 /\ IsSequence(P["reduce"]) /\ Len(P["reduce"]) = 3
  BY <1>3, ShortSequences, Zenon
<1> QED
  BY <1>4, <1>5, <1>6, Zenon DEF P, BuiltinNames

\* The place of the receiver is that of one of the parameters.
LEMMA MethodPlaces ==
  ASSUME NEW x \in DOMAIN CollectionMethods
  PROVE  /\ x \in BuiltinNames /\ CollectionMethods[x] \in Nat
         /\ Len(ParamNames[x]) \in Nat /\ CollectionMethods[x] < Len(ParamNames[x])
<1>1. x \in MethodNames
  BY Methods
<1> DEFINE n == Len(ParamNames[x])
           k == CollectionMethods[x]
<1>2. CASE x = "size"
  <2>1. n = 1 /\ k = 0
    BY <1>2, ParamCounts, Methods
  <2> QED
    BY <1>2, <2>1 DEF BuiltinNames
<1>3. CASE x = "subset"
  <2>1. n = 2 /\ k = 0
    BY <1>3, ParamCounts, Methods
  <2> QED
    BY <1>3, <2>1 DEF BuiltinNames
<1>4. CASE x = "reduce"
  <2>1. n = 3 /\ k = 2
    BY <1>4, ParamCounts, Methods
  <2> QED
    BY <1>4, <2>1 DEF BuiltinNames
<1>5. CASE x \in {"collect", "filter", "all", "exists", "locate", "forEachDo"}
  <2>1. n = 2
    BY <1>5, ParamCounts
  <2>2. k = 1
    BY <1>5, Methods
  <2> QED
    BY <1>5, <2>1, <2>2 DEF BuiltinNames
<1> QED
  BY <1>1, <1>2, <1>3, <1>4, <1>5 DEF MethodNames

LEMMA MethodValue ==
  ASSUME NEW V, NEW n, NEW x \in DOMAIN CollectionMethods, NEW receiver \in V
  PROVE  ValueIn(V, n, Method(x, receiver))
<1> DEFINE v == Method(x, receiver)
           k == CollectionMethods[x]
           items == <<receiver>>
<1>1. v = [kind |-> "method", n |-> k, name |-> x, items |-> items]
  BY DEF Method, Value
<1>2. items \in Seq(V) /\ items # <<>> /\ Len(items) = 1
  OBVIOUS
<1>3. k \in Nat /\ Len(ParamNames[x]) \in Nat /\ k < Len(ParamNames[x])
  BY MethodPlaces
<1>4. 1 <= Len(ParamNames[x])
  BY <1>3
<1>5. k = CollectionMethods[x]
  OBVIOUS
<1> HIDE DEF v, k, items
<1>6. v.kind = "method" /\ v.n = k /\ v.name = x /\ v.items = items
  BY <1>1
<1>7. ValueIn(V, n, v)
  BY <1>1, <1>2, <1>4, <1>5, <1>6 DEF ValueIn
<1> QED
  BY <1>7 DEF v

LEMMA SubSeqIn ==
  ASSUME NEW V, NEW s \in Seq(V), NEW a \in Nat \ {0}, NEW b \in Nat, b <= Len(s)
  PROVE  SubSeq(s, a, b) \in Seq(V) /\ Len(SubSeq(s, a, b)) = IF a <= b THEN b - a + 1 ELSE 0
<1>1. \A i \in a..b : s[i] \in V
  <2> TAKE i \in a..b
  <2>1. i \in 1..Len(s)
    OBVIOUS
  <2> QED
    BY <2>1
<1> QED
  BY <1>1, SubSeqProperties

LEMMA UnnestedIn ==
  ASSUME NEW parts \in Seq(Parts), Wrapped(parts) # {}
  PROVE  Unnested(parts) \in Seq(Parts)
<1> DEFINE i == CHOOSE k \in Wrapped(parts) : \A j \in Wrapped(parts) : k <= j
           n == Len(parts)
           front == SubSeq(parts, 1, i - 1)
           back == SubSeq(parts, i + 1, n)
           kids == parts[i].kids
<1>1. n \in Nat /\ DOMAIN parts = 1..n
  OBVIOUS
<1>2. Wrapped(parts) \in SUBSET Nat
  <2>1. \A k \in Wrapped(parts) : k \in DOMAIN parts
    BY Zenon DEF Wrapped
  <2> QED
    BY <1>1, <2>1
<1>3. \E k \in Wrapped(parts) : \A j \in Wrapped(parts) : k <= j
  BY <1>2, LeastElement
<1>4. i \in Wrapped(parts)
  BY <1>3
<1> HIDE DEF i
<1>5. i \in 1..n
  BY <1>1, <1>4 DEF Wrapped
<1>6. parts[i] \in Parts
  BY <1>5
<1>7. kids \in Seq(Parts)
  BY <1>6, TreeParts
<1>8. i - 1 \in Nat /\ i - 1 <= n /\ i + 1 \in Nat \ {0} /\ 1 \in Nat \ {0}
  BY <1>1, <1>5
<1>9. front \in Seq(Parts)
  BY <1>8, SubSeqIn
<1>10. back \in Seq(Parts)
  BY <1>1, <1>8, SubSeqIn
<1>11. Unnested(parts) = front \o kids \o back
  BY DEF Unnested, i
<1> HIDE DEF front, back, kids
<1>12. front \o kids \o back \in Seq(Parts)
  BY <1>7, <1>9, <1>10, ConcatIn
<1> QED
  BY <1>11, <1>12

LEMMA HeldFields ==
  ASSUME NEW g, FrameInv(g), NEW h
  PROVE  LET f == [g EXCEPT !.held = h]
         IN f.tree = g.tree /\ f.held = h /\ f.done = g.done /\ f.env = g.env
<1> DEFINE f == [g EXCEPT !.held = h]
<1>1. f = [tree |-> g.tree, env |-> g.env, local |-> g.local, held |-> h, done |-> g.done]
  BY DEF FrameInv
<1> HIDE DEF f
<1>2. f.tree = g.tree /\ f.held = h /\ f.done = g.done /\ f.env = g.env
  BY <1>1
<1> QED
  BY <1>2 DEF f

LEMMA CollectFixTyped ==
  ASSUME StackInv, NEW V, Typed(V), CollectFix
  PROVE  SomeTyped'
<1> DEFINE h == IF Top.held = <<>> THEN <<Kid(1)>> ELSE Unnested(Top.held)
           g == Top
           f == [g EXCEPT !.held = h]
<1>1. Depth > 0 /\ Op = "fix" /\ UNCHANGED <<envs, functions>> /\ (Top.held = <<>> \/ Wrapped(Top.held) # {})
  BY DEF CollectFix, Evaluating, Only, store
<1>2. SetTop(f)
  BY DEF CollectFix
<1>3. Top.tree \in Parts /\ Top.tree.op = "fix" /\ FrameIn(V, Top) /\ FrameInv(Top)
  BY <1>1, ParsedTop, TypedTop DEF Op
<1>4. Kid(1) \in Parts /\ Top.held \in Seq(Parts)
  BY <1>3, OnlyKid DEF Kid, FrameIn
<1>5. h \in Seq(Parts)
  <2>1. CASE Top.held = <<>>
    <3>1. <<Kid(1)>> \in Seq(Parts)
      BY <1>4
    <3> QED
      BY <2>1, <3>1
  <2>2. CASE Top.held # <<>>
    <3>1. Unnested(Top.held) \in Seq(Parts)
      BY <1>1, <1>4, <2>2, UnnestedIn
    <3> QED
      BY <2>2, <3>1
  <2> QED
    BY <2>1, <2>2
<1>6. g.tree.op = "fix" /\ FrameIn(V, g) /\ FrameInv(g)
  BY <1>3
<1> HIDE DEF h, g
<1>7. f.tree = g.tree /\ f.held = h /\ f.done = g.done
  BY <1>6, HeldFields
<1>8. f.tree.op \notin Operations /\ f.tree.op \notin {"walk", "apply"}
  BY <1>6, <1>7, FormsAreNoOperators
<1> HIDE DEF f
<1>9. FrameIn(V, f)
  BY <1>5, <1>6, <1>7, <1>8 DEF FrameIn
<1> QED
  BY <1>1, <1>2, <1>9, SetTopTyped

LEMMA AttributeTyped ==
  ASSUME StackInv, NEW V, Typed(V), EvalAttribute
  PROVE  SomeTyped'
<1>1. Depth > 0 /\ Op = "attr" /\ UNCHANGED <<envs, functions>>
  BY DEF EvalAttribute, Evaluating, Only, store
<1>2. Top.tree \in Parts /\ Top.tree.op = "attr"
  BY <1>1, ParsedTop DEF Op
<1>3. CASE Done = 0
  <2>1. Child(Kid(1))
    BY <1>3 DEF EvalAttribute
  <2>2. Kid(1) \in Parts
    BY <1>2, OnlyKid DEF Kid
  <2>3. WaitingIn(Top)
    BY <1>1, FormsAreNoOperators, TopWaits
  <2> QED
    BY <1>1, <2>1, <2>2, <2>3, ChildTyped
<1>4. CASE Done # 0
  <2>1. \/ Target \in DOMAIN CollectionMethods /\ Return(Method(Target, Result(1)))
        \/ \E diag : Fail(diag)
    BY <1>4 DEF EvalAttribute
  <2>2. CASE \E diag : Fail(diag)
    BY <1>1, <2>2, FailTyped
  <2>3. CASE Target \in DOMAIN CollectionMethods /\ Return(Method(Target, Result(1)))
    <3>1. Result(1) \in V
      <4>1. Done \in Nat /\ \A k \in 1..Done : Result(k) \in V
        BY <1>1, TypedTop
      <4> QED
        BY <1>4, <4>1
    <3>2. ValueIn(V, Len(functions), Method(Target, Result(1)))
      BY <2>3, <3>1, MethodValue
    <3> QED
      BY <1>1, <2>3, <3>2, ReturnValue
  <2> QED
    BY <2>1, <2>2, <2>3
<1> QED
  BY <1>3, <1>4

LEMMA WhereTyped ==
  ASSUME StackInv, NEW V, Typed(V), EvalWhere
  PROVE  SomeTyped'
<1> DEFINE n == Len(envs)
<1>1. Depth > 0 /\ Op = "where" /\ UNCHANGED functions
  BY DEF EvalWhere, Evaluating, Only
<1>2. Top.tree \in Parts /\ Top.tree.op = "where" /\ EnvIn(V, Env)
  BY <1>1, ParsedTop DEF Op
<1>3. Kid(1) \in Parts /\ Kid(2) \in Parts
  BY <1>2, TwoKids DEF Kid
<1>4. IsSequence(envs) /\ Done \in Nat /\ \A k \in 1..Done : Result(k) \in V
  BY <1>1, TypedTop
<1>5. WaitingIn(Top)
  BY <1>1, FormsAreNoOperators, TopWaits
<1>6. CASE /\ ~Top.local /\ OpenEnv(Env)
           /\ frames' = Append([frames EXCEPT ![Depth] = Local], Frame(Kid(2), n + 1))
  <2>1. StoreIn(V, envs', functions')
    BY <1>1, <1>2, <1>4, <1>6, EnvOpened DEF Typed, OpenEnv
  <2>2. frames' = Append([frames EXCEPT ![Depth] = Local], Frame(Kid(2), n + 1))
    BY <1>6
  <2> QED
    BY <1>1, <1>3, <1>5, <2>1, <2>2, OpenTyped
<1>7. CASE /\ Top.local /\ Done = 1
           /\ envs' = [envs EXCEPT ![n] = Define(@, Target, Result(1))]
           /\ Push(Frame(Kid(1), n))
  <2> DEFINE v == Result(1)
             e == Define(envs[n], Target, v)
  <2>1. v \in V
    BY <1>4, <1>7
  <2>2. EnvIn(V, envs[n])
    <3>1. n \in Nat /\ n > 0
      BY <1>1, Topmost, ParsedTop
    <3>2. n \in 1..n
      BY <3>1
    <3> QED
      BY <3>2 DEF Typed, StoreIn
  <2>3. EnvIn(V, e)
    <3> HIDE DEF v
    <3> QED
      BY <2>1, <2>2, DefinedIn
  <2>4. envs' = [envs EXCEPT ![n] = e]
    BY <1>7
  <2> HIDE DEF e, v
  <2>5. StoreIn(V, [envs EXCEPT ![n] = e], functions)
    BY <1>4, <2>3, EnvSet DEF Typed
  <2>6. StoreIn(V, envs', functions')
    BY <1>1, <2>4, <2>5
  <2>7. Push(Frame(Kid(1), n)) /\ FrameIn(V, Frame(Kid(1), n))
    BY <1>3, <1>7, NewFrameIn
  <2> QED
    BY <1>1, <1>5, <2>6, <2>7, PushTyped
<1>8. CASE Top.local /\ Done = 2 /\ CloseEnv /\ Return(Result(2))
  <2>1. Result(2) \in V
    BY <1>4, <1>8
  <2>2. Len(envs) > 0
    BY <1>1, Topmost, ParsedTop
  <2>3. StoreIn(V, envs', functions')
    BY <1>1, <1>4, <1>8, <2>2, EnvClosed DEF Typed, CloseEnv
  <2>4. Return(Result(2))
    BY <1>8
  <2> QED
    BY <1>1, <2>1, <2>3, <2>4, ReturnTyped
<1> QED
  BY <1>6, <1>7, <1>8, Zenon DEF EvalWhere

\* The functions of a fix that is accepted: one for each name.
LEMMA FixParts ==
  ASSUME NEW names, IsSequence(names), NEW parts \in Seq(Parts),
         FixDiagnostic(names, parts) = NoError
  PROVE  /\ Len(names) <= Len(parts)
         /\ \A k \in 1..Len(parts) : /\ parts[k].names[1] \in Range(names)
                                     /\ parts[k].kids[1] \in Parts /\ parts[k].kids[1].op = "::"
         /\ \A i \in 1..Len(names) : \E k \in 1..Len(parts) : parts[k].names[1] = names[i]
<1> DEFINE wrong == {i \in DOMAIN parts : FixPart(names, parts, i) # NoError}
           n == Len(parts)
           m == Len(names)
           first == CHOOSE i \in wrong : \A j \in wrong : i <= j
           R == Range(names)
<1>1. n \in Nat /\ m \in Nat /\ DOMAIN parts = 1..n /\ DOMAIN names = 1..m
  BY SequenceLength
<1>2. FixDiagnostic(names, parts) =
        IF wrong # {} THEN FixPart(names, parts, first)
        ELSE IF n < m THEN "PARSE_UNEXPECTED_TOKEN" ELSE NoError
  BY DEF FixDiagnostic
<1>3. wrong = {}
  <2> SUFFICES ASSUME wrong # {} PROVE FALSE
    OBVIOUS
  <2>1. FixPart(names, parts, first) = NoError
    BY <1>2
  <2>2. wrong \in SUBSET Nat
    BY <1>1
  <2>3. \E i \in wrong : \A j \in wrong : i <= j
    <3> HIDE DEF wrong
    <3> QED
      BY <2>2, LeastElement
  <2>4. first \in wrong
    BY <2>3
  <2> QED
    BY <2>1, <2>4
<1>4. m <= n
  <2>1. ~(n < m)
    BY <1>2, <1>3 DEF NoError
  <2> HIDE DEF n, m
  <2> QED
    BY <1>1, <2>1
<1>5. ASSUME NEW k \in 1..n
      PROVE  /\ parts[k].op \in {":=", "f:="} /\ parts[k].names[1] \in R
             /\ \A j \in 1..(k - 1) : parts[j].names # parts[k].names
             /\ parts[k].kids[1].op = "::"
  <2>1. FixPart(names, parts, k) = NoError
    BY <1>1, <1>3
  <2> QED
    BY <2>1 DEF FixPart, NoError
<1>6. ASSUME NEW k \in 1..n
      PROVE  parts[k].kids[1] \in Parts /\ parts[k].names \in Seq(STRING) /\ Len(parts[k].names) = 1
  <2> DEFINE p == parts[k]
  <2>1. p \in Parts /\ p.op \in {":=", "f:="}
    BY <1>1, <1>5
  <2> HIDE DEF p
  <2>2. p.kids[1] \in Parts /\ p.names \in Seq(STRING) /\ Len(p.names) = 1
    BY <2>1, OnlyKid, TreeParts
  <2> QED
    BY <2>2 DEF p
<1>7. ASSUME NEW j \in 1..n, NEW k \in 1..n, parts[j].names[1] = parts[k].names[1]
      PROVE  j = k
  <2>1. parts[j].names = parts[k].names
    <3> DEFINE a == parts[j].names
               b == parts[k].names
    <3>1. a \in Seq(STRING) /\ b \in Seq(STRING) /\ Len(a) = 1 /\ Len(b) = 1 /\ a[1] = b[1]
      BY <1>6, <1>7
    <3> HIDE DEF a, b
    <3>2. \A i \in 1..Len(a) : i = 1
      BY <3>1
    <3>3. a = b
      BY <3>1, <3>2, SeqEqual
    <3> QED
      BY <3>3 DEF a, b
  <2>2. ~(j < k) /\ ~(k < j)
    <3>1. ASSUME j < k PROVE FALSE
      <4>1. j \in 1..(k - 1)
        BY <3>1
      <4> QED
        BY <1>5, <2>1, <4>1
    <3>2. ASSUME k < j PROVE FALSE
      <4>1. k \in 1..(j - 1)
        BY <3>2
      <4> QED
        BY <1>5, <2>1, <4>1
    <3> QED
      BY <3>1, <3>2
  <2> QED
    BY <1>1, <2>2
<1> DEFINE f == [k \in 1..n |-> parts[k].names[1]]
<1>8. f \in [1..n -> R] /\ \A j, k \in 1..n : f[j] = f[k] => j = k
  BY <1>5, <1>7
<1>9. IsFiniteSet(R) /\ Cardinality(R) <= m
  <2>1. IsFiniteSet(1..m) /\ Cardinality(1..m) = m
    BY <1>1, FirstNumbers
  <2>2. names \in [1..m -> R] /\ \A r \in R : \E i \in 1..m : names[i] = r
    <3>1. \A i \in 1..m : names[i] \in R
      BY <1>1, Zenon DEF Range
    <3>2. names = [i \in 1..m |-> names[i]]
      <4>1. PICK S : names \in Seq(S)
        BY DEF IsSequence
      <4> QED
        BY <4>1
    <3>3. \A r \in R : \E i \in 1..m : names[i] = r
      BY <1>1, Zenon DEF Range
    <3> HIDE DEF R, m
    <3> QED
      BY <3>1, <3>2, <3>3
  <2>3. names \in Surjection(1..m, R)
    <3> HIDE DEF R, m
    <3> QED
      BY <2>2, Fun_IsSurj
  <2> HIDE DEF R, m
  <2>4. IsFiniteSet(R) /\ Cardinality(R) <= Cardinality(1..m)
    BY <2>1, <2>3, FS_Surjection
  <2> QED
    BY <2>1, <2>4
<1>10. IsFiniteSet(1..n) /\ Cardinality(1..n) = n /\ Cardinality(R) \in Nat
  BY <1>1, <1>9, FirstNumbers, FS_CardinalityType
<1> HIDE DEF f, R
<1>11. Cardinality(1..n) <= Cardinality(R)
  <2>1. f \in Injection(1..n, R)
    BY <1>8, Fun_IsInj
  <2> QED
    BY <1>9, <2>1, FS_Injection, Zenon
<1>12. Cardinality(1..n) = Cardinality(R)
  <2> HIDE DEF n, m
  <2> QED
    BY <1>1, <1>4, <1>9, <1>10, <1>11
<1>13. Matches(f, 1..n, R)
  BY <1>8, <1>9, <1>10, <1>12, InjectionMatches
<1>14. \A i \in 1..m : \E k \in 1..n : parts[k].names[1] = names[i]
  <2> TAKE i \in 1..m
  <2>1. names[i] \in R
    BY <1>1 DEF R, Range
  <2>2. PICK k \in 1..n : f[k] = names[i]
    BY <1>13, <2>1 DEF Matches
  <2> QED
    BY <2>2 DEF f
<1> QED
  BY <1>4, <1>5, <1>6, <1>14 DEF R

LEMMA ConcatSequences ==
  ASSUME NEW s, IsSequence(s), NEW t, IsSequence(t)
  PROVE  /\ IsSequence(s \o t) /\ Len(s \o t) = Len(s) + Len(t)
         /\ \A i \in 1..Len(s) : (s \o t)[i] = s[i]
         /\ \A i \in 1..Len(t) : (s \o t)[Len(s) + i] = t[i]
<1>1. PICK S : s \in Seq(S)
  BY DEF IsSequence
<1>2. PICK T : t \in Seq(T)
  BY DEF IsSequence
<1> DEFINE U == S \cup T
<1>3. s \in Seq(U) /\ t \in Seq(U)
  BY <1>1, <1>2
<1> HIDE DEF U
<1> QED
  BY <1>3, ConcatIn DEF IsSequence

LEMMA FixTyped ==
  ASSUME StackInv, NEW V, Typed(V), EvalFix
  PROVE  SomeTyped'
<1> DEFINE names == Top.tree.names
           parts == Top.held
           literal(i) == parts[CHOOSE k \in DOMAIN parts : parts[k].names[1] = names[i]].kids[1]
           n == Len(functions)
           m == Len(names)
           addresses == [i \in DOMAIN names |-> Function(Len(functions) + i)]
           made == [i \in DOMAIN names |->
                      MakeFunction(literal(i), Peers(names, Env, addresses, i), names[i])]
           W == V \cup {Function(i) : i \in 1..(n + m)}
           gs == functions \o made
           env == DefineAll(Env, names, addresses)
<1>1. Depth > 0 /\ Op = "fix" /\ parts # <<>>
  BY DEF EvalFix, Evaluating
<1>2. /\ Top.tree \in Parts /\ Top.tree.op = "fix" /\ FrameIn(V, Top) /\ EnvIn(V, Env)
      /\ IsSequence(functions) /\ n \in Nat /\ IsSequence(envs)
  BY <1>1, ParsedTop, TypedTop DEF Op
<1>3. names \in Seq(STRING) /\ parts \in Seq(Parts)
  BY <1>2, TreeParts DEF FrameIn
<1>4. IsSequence(names) /\ m \in Nat /\ DOMAIN names = 1..m /\ DOMAIN parts = 1..Len(parts)
  BY <1>3, SequenceLength DEF IsSequence
<1>5. CASE FixDiagnostic(names, parts) # NoError
  <2>1. Fail(FixDiagnostic(names, parts)) /\ UNCHANGED <<envs, functions>>
    BY <1>5 DEF EvalFix
  <2> QED
    BY <2>1, FailTyped
<1>6. CASE FixDiagnostic(names, parts) = NoError
  <2>1. functions' = gs /\ SetEnv(env) /\ Return(Last(addresses))
    BY <1>6 DEF EvalFix
  <2>2. /\ \A k \in 1..Len(parts) : /\ parts[k].names[1] \in Range(names)
                                    /\ parts[k].kids[1] \in Parts /\ parts[k].kids[1].op = "::"
        /\ \A i \in 1..m : \E k \in 1..Len(parts) : parts[k].names[1] = names[i]
    BY <1>3, <1>4, <1>6, FixParts
  <2>3. ASSUME NEW i \in 1..m PROVE literal(i) \in Parts /\ literal(i).op = "::"
    <3> DEFINE k == CHOOSE k \in DOMAIN parts : parts[k].names[1] = names[i]
    <3>1. k \in DOMAIN parts
      BY <1>4, <2>2
    <3>2. k \in 1..Len(parts)
      BY <1>4, <3>1
    <3>3. literal(i) = parts[k].kids[1]
      OBVIOUS
    <3> HIDE DEF k, literal
    <3> QED
      BY <2>2, <3>2, <3>3
  <2>4. m >= 1
    <3>1. 1 \in 1..Len(parts)
      BY <1>1, <1>3
    <3>2. parts[1].names[1] \in Range(names)
      BY <2>2, <3>1
    <3>3. \E i \in 1..m : TRUE
      BY <1>4, <3>2 DEF Range
    <3> HIDE DEF m
    <3> QED
      BY <1>4, <3>3
  <2>5. Closed(W, n + m) /\ V \subseteq W /\ \A i \in 1..(n + m) : Function(i) \in W
    <3>1. n + m \in Nat /\ Len(functions) <= n + m
      BY <1>2, <1>4
    <3> HIDE DEF m
    <3> QED
      BY <3>1, MoreFunctions, Zenon DEF Typed
  <2>6. addresses = [i \in 1..m |-> Function(n + i)]
    BY <1>4
  <2> HIDE DEF addresses, W, literal, n, m
  <2>7. addresses \in Seq(W) /\ Len(addresses) = m /\ Last(addresses) \in W
    <3>1. \A i \in 1..m : n + i \in 1..(n + m)
      BY <1>2, <1>4
    <3>2. addresses \in [1..m -> W]
      BY <2>5, <2>6, <3>1
    <3>3. addresses \in Seq(W) /\ Len(addresses) = m
      BY <1>4, <3>2
    <3>4. m \in 1..m
      BY <1>4, <2>4
    <3> QED
      BY <3>2, <3>3, <3>4 DEF Last
  <2>8. EnvIn(W, Env)
    BY <1>2, <2>5, WiderEnv
  <2>9. EnvIn(W, env)
    BY <2>7, <2>8, DefinedAllIn
  <2>10. ASSUME NEW i \in 1..m
         PROVE  FunctionIn(W, MakeFunction(literal(i), Peers(names, Env, addresses, i), names[i]))
    <3>1. IsSequence(addresses) /\ \A j \in 1..Len(addresses) : addresses[j] \in W
      BY <2>7 DEF IsSequence
    <3>2. DOMAIN names \ {i} \in SUBSET (1..Len(addresses))
      BY <1>4, <2>7
    <3>3. EnvIn(W, DefineAt(Env, names, addresses, DOMAIN names \ {i}))
      BY <2>8, <3>1, <3>2, DefinedAtIn
    <3>4. EnvIn(W, Peers(names, Env, addresses, i))
      BY <3>3 DEF Peers
    <3> QED
      BY <2>3, <3>4, MadeFunctionIn
  <2>11. /\ IsSequence(made) /\ Len(made) = m
         /\ \A i \in 1..m : FunctionIn(W, made[i])
    <3>1. made = [i \in 1..m |-> MakeFunction(literal(i), Peers(names, Env, addresses, i), names[i])]
      BY <1>4
    <3> HIDE DEF made
    <3>2. \A i \in 1..m : made[i] = MakeFunction(literal(i), Peers(names, Env, addresses, i), names[i])
      BY <3>1
    <3>3. \A i \in 1..m : FunctionIn(W, made[i])
      BY <2>10, <3>2
    <3>4. made \in Seq({made[i] : i \in 1..m}) /\ Len(made) = m
      <4>1. made = [i \in 1..m |-> made[i]]
        BY <3>1
      <4> HIDE DEF m
      <4>2. made \in [1..m -> {made[i] : i \in 1..m}]
        BY <4>1
      <4> QED
        BY <1>4, <4>2
    <3> QED
      BY <3>3, <3>4 DEF IsSequence
  <2> HIDE DEF made, env, names, parts
  <2>12. /\ IsSequence(gs) /\ Len(gs) = n + m
         /\ \A i \in 1..n : gs[i] = functions[i]
         /\ \A i \in 1..m : gs[n + i] = made[i]
    BY <1>2, <2>11, ConcatSequences DEF n
  <2> HIDE DEF gs
  <2>13. \A i \in 1..(n + m) : i > n => FunctionIn(W, gs[i])
    <3> SUFFICES ASSUME NEW i \in 1..(n + m), i > n PROVE FunctionIn(W, gs[i])
      OBVIOUS
    <3>1. i - n \in 1..m /\ n + (i - n) = i
      BY <1>2, <1>4
    <3>2. gs[n + (i - n)] = made[i - n] /\ FunctionIn(W, made[i - n])
      BY <2>11, <2>12, <3>1
    <3> QED
      BY <3>1, <3>2
  <2>14. StoreIn(W, envs, gs)
    <3>1. StoreIn(V, envs, functions) /\ Len(gs) >= Len(functions)
      BY <1>2, <1>4, <2>12 DEF Typed, n
    <3>2. \A i \in 1..Len(gs) : i > Len(functions) => FunctionIn(W, gs[i])
      BY <2>12, <2>13 DEF n
    <3>3. Closed(W, Len(gs)) /\ \A i \in 1..Len(functions) : gs[i] = functions[i]
      BY <2>5, <2>12 DEF n
    <3> QED
      BY <2>5, <2>12, <3>1, <3>2, <3>3, FunctionsAdded
  <2>15. StoreIn(W, [envs EXCEPT ![Top.env] = env], gs)
    BY <1>2, <2>9, <2>14, EnvSet
  <2>16. StoreIn(W, envs', functions')
    BY <2>1, <2>15 DEF SetEnv
  <2> QED
    BY <1>1, <2>1, <2>5, <2>7, <2>16, ReturnTyped
<1> QED
  BY <1>5, <1>6

-----------------------------------------------------------------------------
(***************************************************************************)
(* Calls.                                                                  *)
(***************************************************************************)
LEMMA CallCount ==
  ASSUME StackInv, NEW V, Typed(V), Depth > 0, Op \in {"call", "apply"}
  PROVE  Count \in Nat /\ (Op = "call" => Len(Top.tree.kids) = Count + 1 /\ Top.tree \in Parts)
<1>1. CASE Op = "call"
  <2> DEFINE kids == Top.tree.kids
  <2>1. Top.tree \in Parts /\ Top.tree.op = "call"
    BY <1>1, ParsedTop DEF Op
  <2>2. kids \in Seq(Parts) /\ Len(kids) >= 1
    BY <2>1, TreeParts
  <2>3. Count = Len(kids) - 1
    BY <1>1 DEF Count
  <2> HIDE DEF kids
  <2>4. Count \in Nat /\ Len(kids) = Count + 1
    BY <2>2, <2>3
  <2> QED
    BY <2>1, <2>4 DEF kids
<1>2. CASE Op = "apply"
  <2>1. FrameIn(V, Top)
    BY TypedTop
  <2>2. Top.tree.n \in Nat /\ Op # "call"
    BY <1>2, <2>1 DEF FrameIn, Op
  <2> QED
    BY <2>2 DEF Count
<1> QED
  BY <1>1, <1>2

LEMMA CalleeTyped ==
  ASSUME StackInv, NEW V, Typed(V), EvalCallee
  PROVE  SomeTyped'
<1>1. Depth > 0 /\ Op = "call" /\ Done <= Count /\ UNCHANGED <<envs, functions>>
  BY DEF EvalCallee, Evaluating, Only, store
<1>2. Count \in Nat /\ Len(Top.tree.kids) = Count + 1 /\ Top.tree \in Parts /\ Done \in Nat
  BY <1>1, CallCount, TypedTop
<1>3. Done + 1 \in 1..Len(Top.tree.kids)
  BY <1>1, <1>2
<1>4. Kid(Done + 1) \in Parts
  BY <1>2, <1>3, KidIn DEF Kid
<1>5. WaitingIn(Top)
  BY <1>1, FormsAreNoOperators, TopWaits
<1>6. Child(Kid(Done + 1)) \/ \E diag : Fail(diag)
  BY DEF EvalCallee
<1> QED
  BY <1>1, <1>4, <1>5, <1>6, ChildTyped, FailTyped

LEMMA RefuseTyped ==
  ASSUME StackInv, NEW V, Typed(V), Refuse
  PROVE  SomeTyped'
<1>1. UNCHANGED <<envs, functions>> /\ Fail(CallDiagnostic(Callee, Count))
  BY DEF Refuse, Only, store
<1> QED
  BY <1>1, FailTyped

LEMMA TailIn ==
  ASSUME NEW V, NEW s \in Seq(V), Len(s) > 0
  PROVE  Tail(s) \in Seq(V) /\ Len(Tail(s)) = Len(s) - 1 /\ s[1] \in V
<1>1. s # <<>> /\ 1 \in 1..Len(s)
  OBVIOUS
<1>2. Tail(s) \in Seq(V) /\ Len(Tail(s)) = Len(s) - 1
  BY <1>1, HeadTailProperties, Zenon
<1>3. s[1] \in V
  BY <1>1
<1> QED
  BY <1>2, <1>3

\* Callee and arguments.
LEMMA CallTop ==
  ASSUME StackInv, NEW V, Typed(V), Applying
  PROVE  /\ Depth > 0 /\ Op \in {"call", "apply"} /\ Count \in Nat /\ WaitingIn(Top)
         /\ Callee \in V /\ ValueIn(V, Len(functions), Callee)
         /\ Arguments \in Seq(V) /\ Len(Arguments) = Count
<1>1. Depth > 0 /\ Op \in {"call", "apply"} /\ Done = Count + 1
  BY DEF Applying, Evaluating
<1>2. Count \in Nat /\ Top.done \in Seq(V) /\ \A v \in V : ValueIn(V, Len(functions), v)
  BY <1>1, CallCount, TypedTop
<1>3. WaitingIn(Top)
  BY <1>1, FormsAreNoOperators, TopWaits
<1> DEFINE d == Top.done
<1>4. d \in Seq(V) /\ Len(d) = Count + 1
  BY <1>1, <1>2 DEF Done
<1> HIDE DEF d
<1>5. Len(d) > 0
  BY <1>2, <1>4
<1>6. Tail(d) \in Seq(V) /\ Len(Tail(d)) = Len(d) - 1 /\ d[1] \in V
  BY <1>4, <1>5, TailIn
<1>7. Len(Tail(d)) = Count
  BY <1>2, <1>4, <1>6
<1> QED
  BY <1>1, <1>2, <1>3, <1>6, <1>7 DEF d, Callee, Result, Arguments

\* A function that is applied, and the environment of its body.
LEMMA AppliedFunction ==
  ASSUME StackInv, NEW V, Typed(V), Applies("function")
  PROVE  /\ Applying /\ FunctionIn(V, functions[Callee.n])
         /\ EnvIn(V, DefineAll(WithSelf(Callee.n), ParamsOf, Arguments))
<1>1. Applying /\ Callee.kind = "function"
  BY DEF Applies
<1>2. ValueIn(V, Len(functions), Callee) /\ Arguments \in Seq(V)
  BY <1>1, CallTop
<1>3. Callee.n \in 1..Len(functions)
  BY <1>1, <1>2 DEF ValueIn
<1>4. FunctionIn(V, functions[Callee.n]) /\ Function(Callee.n) \in V
  BY <1>3 DEF Typed, StoreIn, Closed
<1>5. EnvIn(V, WithSelf(Callee.n))
  <2>1. EnvIn(V, functions[Callee.n].env)
    BY <1>4 DEF FunctionIn
  <2>2. EnvIn(V, Define(functions[Callee.n].env, functions[Callee.n].self, Function(Callee.n)))
    BY <1>4, <2>1, DefinedIn
  <2> QED
    BY <2>1, <2>2 DEF WithSelf
<1> QED
  BY <1>1, <1>2, <1>4, <1>5, DefinedAllIn

LEMMA ApplyPartiallyTyped ==
  ASSUME StackInv, NEW V, Typed(V), ApplyPartially
  PROVE  SomeTyped'
<1> DEFINE rest == SubSeq(ParamsOf, Count + 1, Len(ParamsOf))
           env == DefineAll(WithSelf(Callee.n), ParamsOf, Arguments)
           f == [params |-> rest, body |-> functions[Callee.n].body, env |-> env, self |-> NoName]
<1>1. /\ Applies("function") /\ functions' = Append(functions, f) /\ Return(NextFunction)
      /\ UNCHANGED envs
  BY DEF ApplyPartially, Only
<1>2. Applying /\ FunctionIn(V, functions[Callee.n]) /\ EnvIn(V, env)
  BY <1>1, AppliedFunction
<1>3. Depth > 0 /\ Count \in Nat
  BY <1>2, CallTop
<1>4. IsSequence(rest)
  <2> DEFINE s == ParamsOf
  <2>1. IsSequence(s)
    BY <1>2 DEF FunctionIn, ParamsOf
  <2> HIDE DEF s
  <2>2. PICK S : s \in Seq(S)
    BY <2>1 DEF IsSequence
  <2>3. Len(s) \in Nat /\ Len(s) <= Len(s) /\ Count + 1 \in Nat \ {0}
    BY <1>3, <2>2
  <2>4. SubSeq(s, Count + 1, Len(s)) \in Seq(S)
    BY <2>2, <2>3, SubSeqIn
  <2> QED
    BY <2>4 DEF s, IsSequence
<1> HIDE DEF rest, env
<1>5. f.params = rest /\ f.body = functions[Callee.n].body /\ f.env = env
  OBVIOUS
<1> HIDE DEF f
<1>6. FunctionIn(V, f)
  BY <1>2, <1>4, <1>5 DEF FunctionIn
<1>7. PICK W : /\ V \subseteq W /\ Function(Len(functions) + 1) \in W
               /\ StoreIn(W, envs, Append(functions, f))
  BY <1>6, FunctionAppended DEF Typed
<1>8. StoreIn(W, envs', functions') /\ NextFunction \in W
  BY <1>1, <1>7 DEF NextFunction
<1> QED
  BY <1>1, <1>3, <1>7, <1>8, ReturnTyped

LEMMA ApplyFunctionTyped ==
  ASSUME StackInv, NEW V, Typed(V), ApplyFunction
  PROVE  SomeTyped'
<1> DEFINE env == DefineAll(WithSelf(Callee.n), ParamsOf, Arguments)
           body == functions[Callee.n].body
<1>1. /\ Applies("function") /\ OpenEnv(env) /\ UNCHANGED functions
      /\ frames' = Append([frames EXCEPT ![Depth] = Local], Frame(body, Len(envs) + 1))
  BY DEF ApplyFunction, Only
<1>2. Applying /\ FunctionIn(V, functions[Callee.n]) /\ EnvIn(V, env)
  BY <1>1, AppliedFunction
<1>3. Depth > 0 /\ WaitingIn(Top) /\ IsSequence(envs)
  BY <1>2, CallTop, TypedTop
<1>4. body \in Parts
  BY <1>2 DEF FunctionIn
<1> HIDE DEF env, body
<1>5. StoreIn(V, envs', functions')
  BY <1>1, <1>2, <1>3, EnvOpened DEF Typed, OpenEnv
<1> QED
  BY <1>1, <1>3, <1>4, <1>5, OpenTyped

LEMMA EndFunctionTyped ==
  ASSUME StackInv, NEW V, Typed(V), EndFunction
  PROVE  SomeTyped'
<1>1. /\ Depth > 0 /\ Op \in {"call", "apply"} /\ Done = Count + 2
      /\ CloseEnv /\ Return(Result(Done)) /\ UNCHANGED functions
  BY DEF EndFunction, Evaluating, Only
<1>2. /\ Count \in Nat /\ IsSequence(envs) /\ Done \in Nat
      /\ \A k \in 1..Done : Result(k) \in V
  BY <1>1, CallCount, TypedTop
<1>3. Result(Done) \in V
  <2>1. Done \in 1..Done
    BY <1>1, <1>2
  <2> QED
    BY <1>2, <2>1
<1>4. Len(envs) > 0
  <2>1. IsSequence(frames) /\ Len(envs) = 1 + OpenedIn(frames, Len(frames)) /\ Len(frames) \in Nat
    BY SequenceLength DEF StackInv, WellOpened
  <2>2. OpenedIn(frames, Len(frames)) \in Nat
    BY <2>1, OpenedCounts
  <2> QED
    BY <2>1, <2>2
<1>5. StoreIn(V, envs', functions')
  BY <1>1, <1>2, <1>4, EnvClosed DEF Typed, CloseEnv
<1> QED
  BY <1>1, <1>3, <1>5, ReturnTyped

\* What a builtin is applied to.
LEMMA BuiltinCall ==
  ASSUME StackInv, NEW V, Typed(V), AppliesBuiltin
  PROVE  /\ Applying /\ Depth > 0 /\ Callee \in V /\ ValueIn(V, Len(functions), Callee)
         /\ Callee.kind \in {"builtin", "method"} /\ Callee.name \in BuiltinNames
         /\ Callee.items \in Seq(V) /\ Gathered \in Seq(V)
         /\ Len(Gathered) = Len(Callee.items) + Count /\ Len(Gathered) <= Len(ParamNames[Callee.name])
         /\ Len(Callee.items) \in Nat /\ Count \in Nat /\ Len(ParamNames[Callee.name]) \in Nat
<1>1. Applying /\ Callee.kind \in {"builtin", "method"} /\ CallDiagnostic(Callee, Count) = NoError
  BY DEF AppliesBuiltin, Applies
<1>2. /\ Depth > 0 /\ Callee \in V /\ ValueIn(V, Len(functions), Callee) /\ Count \in Nat
      /\ Arguments \in Seq(V) /\ Len(Arguments) = Count
  BY <1>1, CallTop
<1> DEFINE p == Len(ParamNames[Callee.name])
           items == Callee.items
           c == Len(items)
<1>3. Callee.name \in BuiltinNames
  <2>1. CASE Callee.kind = "builtin"
    BY <1>2, <2>1, Builtins DEF ValueIn
  <2>2. CASE Callee.kind = "method"
    BY <1>2, <2>2, MethodPlaces DEF ValueIn
  <2> QED
    BY <1>1, <2>1, <2>2
<1>4. items \in Seq(V) /\ c \in Nat /\ p \in Nat
  <2>1. IsSequence(ParamNames[Callee.name])
    BY <1>3, ParamCounts
  <2> QED
    BY <1>2, <2>1, SequenceLength DEF ValueIn
<1>5. Gathered \in Seq(V) /\ Len(Gathered) = c + Count
  <2>1. Gathered = items \o Arguments
    BY DEF Gathered
  <2> HIDE DEF items
  <2> QED
    BY <1>2, <1>4, <2>1, ConcatIn
<1>6. Count <= Arity(Callee) - Captured(Callee)
  BY <1>1 DEF CallDiagnostic, ArityFits, NoError
<1>7. Arity(Callee) - Captured(Callee) = p - c
  <2>1. CASE Callee.kind = "builtin"
    BY <2>1 DEF Arity, Captured
  <2>2. CASE Callee.kind = "method"
    <3>1. Arity(Callee) = p - 1 /\ Captured(Callee) = c - 1
      BY <2>2 DEF Arity, Captured
    <3> HIDE DEF p, c
    <3> QED
      BY <1>4, <3>1
  <2> QED
    BY <1>1, <2>1, <2>2
<1> HIDE DEF p, c
<1>8. Len(Gathered) <= p
  BY <1>2, <1>4, <1>5, <1>6, <1>7
<1> QED
  BY <1>1, <1>2, <1>3, <1>4, <1>5, <1>8 DEF p, c

LEMMA ExtendTyped ==
  ASSUME StackInv, NEW V, Typed(V), ExtendBuiltin
  PROVE  SomeTyped'
<1> DEFINE g == Callee
           v == [g EXCEPT !.items = Gathered]
           n == Len(functions)
           p == Len(ParamNames[g.name])
<1>1. AppliesBuiltin /\ Return(v) /\ UNCHANGED <<envs, functions>>
  BY DEF ExtendBuiltin, Only, store
<1>2. /\ Depth > 0 /\ ValueIn(V, n, g) /\ g.kind \in {"builtin", "method"}
      /\ Gathered \in Seq(V) /\ Len(Gathered) <= p
      /\ g.items \in Seq(V) /\ Len(Gathered) = Len(g.items) + Count /\ Count \in Nat
  BY <1>1, BuiltinCall
<1>3. g.items # <<>> => Gathered # <<>>
  <2> DEFINE s == g.items
  <2>1. s \in Seq(V)
    BY <1>2
  <2>2. Len(Gathered) = Len(s) + Count
    BY <1>2
  <2> HIDE DEF s, g
  <2>3. s # <<>> => Len(s) > 0
    BY <2>1
  <2>4. s # <<>> => Len(Gathered) > 0
    BY <1>2, <2>1, <2>2, <2>3
  <2>5. s # <<>> => Gathered # <<>>
    BY <2>4
  <2> QED
    BY <2>5 DEF s
<1>4. p = Len(ParamNames[g.name])
  OBVIOUS
<1> HIDE DEF g, p
<1>5. v = [kind |-> g.kind, n |-> g.n, name |-> g.name, items |-> Gathered]
  BY <1>2 DEF ValueIn
<1> HIDE DEF v
<1>6. v.kind = g.kind /\ v.n = g.n /\ v.name = g.name /\ v.items = Gathered
  BY <1>5
<1>7. ValueIn(V, n, v)
  BY <1>2, <1>3, <1>4, <1>5, <1>6 DEF ValueIn
<1> QED
  BY <1>1, <1>2, <1>7, ReturnValue

LEMMA InsertedIn ==
  ASSUME NEW V, NEW s \in Seq(V), NEW k \in Nat, k <= Len(s), NEW v \in V
  PROVE  InsertAt(s, k + 1, v) \in Seq(V) /\ Len(InsertAt(s, k + 1, v)) = Len(s) + 1
<1> DEFINE a == SubSeq(s, 1, k)
           b == SubSeq(s, k + 1, Len(s))
<1>1. InsertAt(s, k + 1, v) = a \o <<v>> \o b
  <2> DEFINE m == k + 1
  <2>1. m - 1 = k
    OBVIOUS
  <2>2. b = SubSeq(s, m, Len(s))
    OBVIOUS
  <2> HIDE DEF m, b
  <2>3. InsertAt(s, m, v) = SubSeq(s, 1, m - 1) \o <<v>> \o b
    BY <2>2 DEF InsertAt
  <2>4. InsertAt(s, m, v) = a \o <<v>> \o b
    BY <2>1, <2>3, Zenon
  <2> QED
    BY <2>4 DEF m
<1>2. a \in Seq(V) /\ Len(a) = k
  <2>1. a \in Seq(V) /\ Len(a) = IF 1 <= k THEN k - 1 + 1 ELSE 0
    BY SubSeqIn
  <2>2. (IF 1 <= k THEN k - 1 + 1 ELSE 0) = k
    OBVIOUS
  <2> HIDE DEF a
  <2> QED
    BY <2>1, <2>2
<1>3. b \in Seq(V) /\ Len(b) = Len(s) - k
  <2> DEFINE n == Len(s)
  <2>1. n \in Nat /\ k <= n /\ n <= n
    OBVIOUS
  <2>2. b \in Seq(V) /\ Len(b) = IF k + 1 <= n THEN n - (k + 1) + 1 ELSE 0
    <3>1. k + 1 \in Nat \ {0}
      OBVIOUS
    <3> QED
      BY <2>1, <3>1, SubSeqIn
  <2> HIDE DEF n, b
  <2>3. (IF k + 1 <= n THEN n - (k + 1) + 1 ELSE 0) = n - k
    BY <2>1
  <2>4. Len(b) = n - k
    BY <2>2, <2>3
  <2> QED
    BY <2>2, <2>4 DEF n
<1> HIDE DEF a, b
<1>4. <<v>> \in Seq(V) /\ Len(<<v>>) = 1
  OBVIOUS
<1>5. a \o <<v>> \in Seq(V) /\ Len(a \o <<v>>) = k + 1
  <2> DEFINE t == <<v>>
  <2>1. t \in Seq(V) /\ Len(t) = 1
    BY <1>4
  <2> HIDE DEF t
  <2>2. a \o t \in Seq(V) /\ Len(a \o t) = Len(a) + Len(t)
    BY <1>2, <2>1, ConcatIn, Zenon
  <2>3. Len(a \o t) = k + 1
    BY <1>2, <2>1, <2>2, Zenon
  <2> QED
    BY <2>2, <2>3 DEF t
<1> DEFINE d == a \o <<v>>
<1>6. d \in Seq(V) /\ Len(d) = k + 1
  BY <1>5
<1> HIDE DEF d
<1>7. d \o b \in Seq(V) /\ Len(d \o b) = k + 1 + (Len(s) - k)
  <2>1. d \o b \in Seq(V) /\ Len(d \o b) = Len(d) + Len(b)
    BY <1>3, <1>6, ConcatIn, Zenon
  <2> QED
    BY <1>3, <1>6, <2>1, Zenon
<1>8. k + 1 + (Len(s) - k) = Len(s) + 1
  OBVIOUS
<1> QED
  BY <1>1, <1>7, <1>8 DEF d

\* All parameters have their arguments, but set may have none.
LEMMA CollectedIn ==
  ASSUME StackInv, NEW V, Typed(V), AppliesBuiltin, Complete
  PROVE  /\ Collected \in Seq(V)
         /\ Callee.name # "set" => Len(Collected) = Len(ParamNames[Callee.name])
<1> DEFINE p == Len(ParamNames[Callee.name])
           c == Len(Callee.items)
           s == Gathered
<1>1. /\ ValueIn(V, Len(functions), Callee) /\ Callee.kind \in {"builtin", "method"}
      /\ s \in Seq(V) /\ Len(s) = c + Count /\ Len(s) <= p /\ c \in Nat /\ Count \in Nat /\ p \in Nat
      /\ Callee.items \in Seq(V)
  BY BuiltinCall
<1>2. Captured(Callee) + Count >= MinArity(Callee)
  BY DEF Complete
<1> HIDE DEF s
<1>3. CASE Callee.kind = "builtin"
  <2>1. Collected = s
    BY <1>3 DEF Collected, s
  <2>2. ASSUME Callee.name # "set" PROVE Len(s) = p
    <3>1. Captured(Callee) = c /\ MinArity(Callee) = p
      BY <1>3, <2>2 DEF Captured, MinArity, Arity
    <3> HIDE DEF p, c
    <3> QED
      BY <1>1, <1>2, <3>1
  <2> QED
    BY <1>1, <2>1, <2>2
<1>4. CASE Callee.kind = "method"
  <2>1. Captured(Callee) = c - 1 /\ MinArity(Callee) = p - 1
    BY <1>4 DEF Captured, MinArity, Arity
  <2>2. /\ Callee.name \in DOMAIN CollectionMethods /\ Callee.n = CollectionMethods[Callee.name]
        /\ Callee.items # <<>>
    BY <1>1, <1>4 DEF ValueIn
  <2>3. Callee.n \in Nat /\ Callee.n < p
    BY <2>2, MethodPlaces
  <2>4. Callee.items[1] \in V
    BY <1>1, <2>2
  <2> DEFINE k == Callee.n
             t == Tail(s)
             v == Callee.items[1]
  <2> HIDE DEF p, c
  <2>5. Len(s) = p /\ p > 0
    BY <1>1, <1>2, <2>1, <2>3
  <2>6. t \in Seq(V) /\ Len(t) = Len(s) - 1
    BY <1>1, <2>5, TailIn
  <2>7. Collected = InsertAt(t, k + 1, v)
    BY <1>4 DEF Collected, s
  <2>8. k \in Nat /\ k < p /\ v \in V
    BY <2>3, <2>4
  <2> HIDE DEF t, k, v
  <2>9. k <= Len(t)
    BY <1>1, <2>5, <2>6, <2>8
  <2>10. InsertAt(t, k + 1, v) \in Seq(V) /\ Len(InsertAt(t, k + 1, v)) = Len(t) + 1
    BY <2>6, <2>8, <2>9, InsertedIn
  <2>11. Len(t) + 1 = p
    BY <1>1, <2>5, <2>6
  <2> QED
    BY <2>7, <2>10, <2>11 DEF p
<1> QED
  BY <1>1, <1>3, <1>4

\* More values at once, one of which is returned.
LEMMA ReturnMade ==
  ASSUME StackInv, Depth > 0, NEW V, Typed(V), UNCHANGED <<envs, functions>>,
         NEW S, \A v \in S : ValueIn(V, Len(functions), v),
         NEW v, ValueIn(V \cup S, Len(functions), v), Return(v)
  PROVE  SomeTyped'
<1> DEFINE W == V \cup S
<1>1. V \subseteq W
  OBVIOUS
<1>2. StoreIn(W, envs, functions)
  BY WiderStore DEF Typed
<1> HIDE DEF W
<1>3. Typed(W)
  BY <1>1, <1>2, WiderFrames DEF Typed
<1>4. ValueIn(W, Len(functions), v)
  BY DEF W
<1> QED
  BY <1>3, <1>4, ReturnValue

LEMMA NarrowInt ==
  ASSUME NEW n \in Int, Narrow(n).err = "OK"
  PROVE  Narrow(n).n \in Ints
<1>1. MinInt \in Int /\ MaxInt \in Int
  BY ArithmeticAssumption DEF MinInt
<1>2. ~(n < MinInt \/ n > MaxInt)
  BY DEF Narrow, Error
<1>3. Narrow(n) = [err |-> "OK", n |-> n]
  BY <1>2 DEF Narrow, Number
<1> QED
  BY <1>1, <1>2, <1>3 DEF Ints

LEMMA DistinctIn ==
  ASSUME NEW V, NEW s \in Seq(V)
  PROVE  DistinctItems(s) \in Seq(V)
<1> DEFINE I == {i \in DOMAIN s : CountFrom(s, i + 1, s[i]) = 0}
<1>1. I \in SUBSET DOMAIN s
  OBVIOUS
<1>2. DistinctItems(s) = Pick(s, I)
  BY DEF DistinctItems
<1> HIDE DEF I
<1> QED
  BY <1>1, <1>2, Picked

\* The members of an argument.
LEMMA ArgumentIn ==
  ASSUME NEW V, NEW n, \A v \in V : ValueIn(V, n, v), NEW s \in Seq(V), NEW k \in 1..Len(s)
  PROVE  s[k] \in V /\ ValueIn(V, n, s[k]) /\ s[k].items \in Seq(V)
<1>1. s[k] \in V
  OBVIOUS
<1> DEFINE v == s[k]
<1>2. v \in V
  BY <1>1
<1> HIDE DEF v
<1>3. ValueIn(V, n, v) /\ v.items \in Seq(V)
  BY <1>2 DEF ValueIn
<1> QED
  BY <1>1, <1>3 DEF v

LEMMA ConstructTyped ==
  ASSUME StackInv, Depth > 0, NEW V, Typed(V), UNCHANGED <<envs, functions>>,
         NEW arguments \in Seq(V), Construct(arguments)
  PROVE  SomeTyped'
<1> DEFINE class == Lookup(Env, "Set")
           new == Object(class)
           items == arguments[1].items
           v == [new EXCEPT !.items = DistinctItems(items)]
<1>1. \/ \E diag : Fail(diag)
      \/ Return(new)
      \/ arguments # <<>> /\ Return(v)
  BY DEF Construct
<1>2. CASE \E diag : Fail(diag)
  BY <1>2, FailTyped
<1>3. ValueIn(V, Len(functions), new) /\ new.kind = "object"
  <2> HIDE DEF class
  <2> QED
    BY ObjectIn
<1>4. CASE Return(new)
  <2> HIDE DEF new
  <2> QED
    BY <1>3, <1>4, ReturnValue
<1>5. CASE arguments # <<>> /\ Return(v)
  <2>1. 1 \in 1..Len(arguments)
    BY <1>5
  <2>2. items \in Seq(V)
    BY <2>1, ArgumentIn, TypedTop
  <2> HIDE DEF items, new
  <2>3. DistinctItems(items) \in Seq(V)
    BY <2>2, DistinctIn
  <2>4. new.kind \notin {"int", "function", "builtin", "method"}
    BY <1>3
  <2>5. ValueIn(V, Len(functions), v)
    BY <1>3, <2>3, <2>4, ItemsReplaced
  <2> HIDE DEF v
  <2> QED
    BY <1>5, <2>5, ReturnValue
<1> QED
  BY <1>1, <1>2, <1>4, <1>5

\* A callable's counts of parameters.
LEMMA CallableCounts ==
  ASSUME NEW V, StoreIn(V, envs, functions), NEW v, ValueIn(V, Len(functions), v), Callable(v)
  PROVE  /\ Arity(v) \in Nat /\ Captured(v) \in Nat /\ Captured(v) <= Arity(v)
         /\ MinArity(v) \in Nat
         /\ v.kind = "function" => IsSequence(functions[v.n].params)
         /\ v.kind \in {"builtin", "method"} =>
              IsSequence(ParamNames[v.name]) /\ Arity(v) <= Len(ParamNames[v.name])
<1>1. v.kind \in {"function", "builtin", "method"}
  BY DEF Callable
<1> DEFINE c == Len(v.items)
<1>2. c \in Nat
  BY DEF ValueIn
<1>3. CASE v.kind = "function"
  <2>1. v.n \in 1..Len(functions) /\ c = 0
    BY <1>3 DEF ValueIn
  <2>2. IsSequence(functions[v.n].params)
    BY <2>1 DEF StoreIn, FunctionIn
  <2>3. Len(functions[v.n].params) \in Nat
    BY <2>2, SequenceLength
  <2>4. Arity(v) = Len(functions[v.n].params) /\ Captured(v) = c /\ MinArity(v) = Arity(v)
    BY <1>3 DEF Arity, Captured, MinArity
  <2> HIDE DEF c
  <2>5. Arity(v) \in Nat /\ Captured(v) \in Nat /\ Captured(v) <= Arity(v) /\ MinArity(v) \in Nat
    BY <2>1, <2>3, <2>4
  <2> QED
    BY <1>3, <2>2, <2>5
<1> DEFINE p == Len(ParamNames[v.name])
<1>4. CASE v.kind = "builtin"
  <2>1. v.name \in BuiltinNames /\ c <= p
    BY <1>4, Builtins DEF ValueIn
  <2>2. IsSequence(ParamNames[v.name]) /\ p \in Nat
    BY <2>1, ParamCounts, SequenceLength
  <2>3. Arity(v) = p /\ Captured(v) = c /\ MinArity(v) \in {0, p}
    BY <1>4 DEF Arity, Captured, MinArity
  <2> HIDE DEF c
  <2>4. /\ Arity(v) \in Nat /\ Captured(v) \in Nat /\ Captured(v) <= Arity(v) /\ MinArity(v) \in Nat
        /\ Arity(v) <= p
    <3> HIDE DEF p
    <3> QED
      BY <1>2, <2>1, <2>2, <2>3
  <2> QED
    BY <1>4, <2>2, <2>4
<1>5. CASE v.kind = "method"
  <2>1. v.name \in BuiltinNames /\ c <= p /\ v.items # <<>> /\ v.items \in Seq(V)
    BY <1>5, MethodPlaces DEF ValueIn
  <2>2. IsSequence(ParamNames[v.name]) /\ p \in Nat
    BY <2>1, ParamCounts, SequenceLength
  <2>3. Arity(v) = p - 1 /\ Captured(v) = c - 1 /\ MinArity(v) = Arity(v)
    BY <1>5 DEF Arity, Captured, MinArity
  <2>4. c > 0
    BY <2>1
  <2> HIDE DEF c
  <2>5. /\ Arity(v) \in Nat /\ Captured(v) \in Nat /\ Captured(v) <= Arity(v) /\ MinArity(v) \in Nat
        /\ Arity(v) <= p
    <3> HIDE DEF p
    <3> QED
      BY <1>2, <2>1, <2>2, <2>3, <2>4
  <2> QED
    BY <1>5, <2>2, <2>5
<1> QED
  BY <1>1, <1>3, <1>4, <1>5

LEMMA ParamsSequence ==
  ASSUME NEW V, StoreIn(V, envs, functions), NEW v, ValueIn(V, Len(functions), v), Callable(v)
  PROVE  IsSequence(CallableParams(v))
<1>1. /\ Arity(v) \in Nat /\ Captured(v) \in Nat
      /\ v.kind = "function" => IsSequence(functions[v.n].params)
      /\ v.kind \in {"builtin", "method"} =>
           IsSequence(ParamNames[v.name]) /\ Arity(v) <= Len(ParamNames[v.name])
  BY CallableCounts
<1>2. CASE v.kind = "function"
  BY <1>1, <1>2 DEF CallableParams
<1> DEFINE names == ParamNames[v.name]
<1>3. CASE v.kind = "builtin"
  <2>1. PICK S : names \in Seq(S)
    BY <1>1, <1>3 DEF IsSequence
  <2>2. CallableParams(v) = SubSeq(names, Captured(v) + 1, Arity(v)) /\ Arity(v) <= Len(names)
    BY <1>1, <1>3 DEF CallableParams
  <2>3. Captured(v) + 1 \in Nat \ {0}
    BY <1>1
  <2> HIDE DEF names
  <2>4. SubSeq(names, Captured(v) + 1, Arity(v)) \in Seq(S)
    BY <1>1, <2>1, <2>2, <2>3, SubSeqIn
  <2> QED
    BY <2>2, <2>4 DEF IsSequence
<1>4. CASE v.kind = "method"
  <2>1. PICK S : names \in Seq(S)
    BY <1>1, <1>4 DEF IsSequence
  <2>2. \E I \in SUBSET DOMAIN names : CallableParams(v) = Pick(names, I)
    BY <1>4 DEF CallableParams, MethodParams
  <2> HIDE DEF names
  <2>3. CallableParams(v) \in Seq(S)
    BY <2>1, <2>2, Picked
  <2> QED
    BY <2>3 DEF IsSequence
<1> QED
  BY <1>2, <1>3, <1>4 DEF Callable

\* The names of a callable's parameters, as a list of atoms.
LEMMA ParamsTyped ==
  ASSUME StackInv, Depth > 0, NEW V, Typed(V), UNCHANGED <<envs, functions>>,
         NEW names, IsSequence(names),
         Return(ListValue([k \in DOMAIN names |-> Atom(names[k])]))
  PROVE  SomeTyped'
<1> DEFINE n == Len(names)
           S == {Atom(names[k]) : k \in 1..n}
           s == [k \in DOMAIN names |-> Atom(names[k])]
           W == V \cup S
<1>1. n \in Nat /\ DOMAIN names = 1..n
  BY SequenceLength
<1>2. \A v \in S : ValueIn(V, Len(functions), v)
  <2>1. ASSUME NEW k \in 1..n PROVE ValueIn(V, Len(functions), Atom(names[k]))
    <3> DEFINE x == names[k]
    <3>1. <<>> \in Seq(V)
      OBVIOUS
    <3> HIDE DEF x
    <3>2. ValueIn(V, Len(functions), Atom(x))
      BY <3>1, PlainValue DEF Atom
    <3> QED
      BY <3>2 DEF x
  <2> QED
    BY <2>1
<1>3. s \in [1..n -> W]
  BY <1>1
<1> HIDE DEF W
<1>4. s \in Seq(W)
  <2> HIDE DEF s, n
  <2> QED
    BY <1>1, <1>3
<1> HIDE DEF S, s
<1>5. ValueIn(W, Len(functions), ListValue(s))
  BY <1>4, ListIn
<1>6. ValueIn(V \cup S, Len(functions), ListValue(s))
  BY <1>5 DEF W
<1>7. Return(ListValue(s))
  BY DEF s
<1> QED
  BY <1>2, <1>6, <1>7, ReturnMade

\* How many arguments a callable takes at least and at most.
LEMMA ArityTyped ==
  ASSUME StackInv, Depth > 0, NEW V, Typed(V), UNCHANGED <<envs, functions>>,
         NEW v, ValueIn(V, Len(functions), v), Callable(v),
         \A k \in DOMAIN Remaining(v) : Remaining(v)[k] <= MaxInt,
         Return(ListValue([k \in DOMAIN Remaining(v) |-> IntValue(Remaining(v)[k])]))
  PROVE  SomeTyped'
<1> DEFINE a == IF MinArity(v) > Captured(v) THEN MinArity(v) - Captured(v) ELSE 0
           b == Arity(v) - Captured(v)
           r == Remaining(v)
           s == [k \in DOMAIN r |-> IntValue(r[k])]
<1>1. a \in Nat /\ b \in Nat
  <2>1. Arity(v) \in Nat /\ Captured(v) \in Nat /\ Captured(v) <= Arity(v) /\ MinArity(v) \in Nat
    BY CallableCounts DEF Typed
  <2> QED
    BY <2>1
<1>2. r = <<a, b>>
  BY DEF Remaining
<1>3. (\A k \in DOMAIN r : r[k] <= MaxInt) /\ Return(ListValue(s))
  OBVIOUS
<1> HIDE DEF a, b, r
<1>4. DOMAIN r = 1..2 /\ r[1] = a /\ r[2] = b
  BY <1>2
<1>5. a \in Ints /\ b \in Ints
  <2>1. a <= MaxInt /\ b <= MaxInt
    BY <1>3, <1>4, OneAndTwo
  <2> QED
    BY <1>1, <2>1, ArithmeticAssumption DEF Ints, MinInt
<1>6. \A k \in 1..2 : r[k] \in Ints
  BY <1>4, <1>5
<1>7. \A i \in Ints : IntValue(i) \in V
  BY DEF Typed, StoreIn, Closed
<1>8. s \in [1..2 -> V]
  BY <1>4, <1>6, <1>7
<1> HIDE DEF s
<1>9. s \in Seq(V)
  <2> DEFINE m == 2
  <2>1. m \in Nat /\ s \in [1..m -> V]
    BY <1>8
  <2> HIDE DEF m
  <2> QED
    BY <2>1
<1>10. ValueIn(V, Len(functions), ListValue(s))
  BY <1>9, ListIn
<1> QED
  BY <1>3, <1>10, ReturnValue

LEMMA ApplyBuiltinTyped ==
  ASSUME StackInv, NEW V, Typed(V), ApplyBuiltin
  PROVE  SomeTyped'
<1> DEFINE s == Collected
           n == Len(functions)
           x == Callee.name
<1>1. AppliesBuiltin /\ Complete /\ UNCHANGED <<envs, functions>>
  BY DEF ApplyBuiltin, Only, store
<1>2. Depth > 0 /\ s \in Seq(V) /\ (x # "set" => Len(s) = Len(ParamNames[x]))
  BY <1>1, BuiltinCall, CollectedIn
<1>3. \A v \in V : ValueIn(V, n, v)
  BY <1>2, TypedTop
<1>4. \/ x = "set" /\ Construct(s)
      \/ \E diag : Fail(diag)
      \/ x = "size" /\ ReturnOrFail(Narrow(Len(s[1].items)))
      \/ x = "hd" /\ s[1].items # <<>> /\ Return(s[1].items[1])
      \/ x = "subset" /\ Return(BoolValue(Contained(s[1], s[2])))
      \/ /\ x = "callableParams" /\ Callable(s[1])
         /\ Return(ListValue([k \in DOMAIN CallableParams(s[1]) |-> Atom(CallableParams(s[1])[k])]))
      \/ /\ x = "callableArityRange" /\ Callable(s[1])
         /\ \A k \in DOMAIN Remaining(s[1]) : ~(Remaining(s[1])[k] > MaxInt)
         /\ Return(ListValue([k \in DOMAIN Remaining(s[1]) |-> IntValue(Remaining(s[1])[k])]))
  BY DEF ApplyBuiltin
<1> HIDE DEF s
<1>5. ASSUME x \in {"size", "hd", "callableParams", "callableArityRange"}
      PROVE  ValueIn(V, n, s[1]) /\ s[1].items \in Seq(V)
  <2>1. Len(s) = 1
    BY <1>2, <1>5, ParamCounts
  <2>2. 1 \in 1..Len(s)
    BY <2>1
  <2> QED
    BY <1>2, <1>3, <2>2, ArgumentIn
<1> DEFINE v == s[1]
<1>6. CASE \E diag : Fail(diag)
  BY <1>1, <1>6, FailTyped
<1>7. CASE x = "set" /\ Construct(s)
  BY <1>1, <1>2, <1>7, ConstructTyped
<1>8. CASE x = "size" /\ ReturnOrFail(Narrow(Len(v.items)))
  <2>1. Len(v.items) \in Int
    BY <1>5, <1>8
  <2> DEFINE c == Narrow(Len(v.items))
  <2>2. c.err = "OK" => c.n \in Ints
    BY <2>1, NarrowInt
  <2>3. ReturnOrFail(c)
    BY <1>8
  <2> HIDE DEF c
  <2> QED
    BY <1>1, <1>2, <2>2, <2>3, NumberOrFail
<1>9. CASE x = "hd" /\ v.items # <<>> /\ Return(v.items[1])
  <2>1. v.items[1] \in V
    BY <1>5, <1>9
  <2> QED
    BY <1>1, <1>2, <1>9, <2>1, ReturnMember
<1>10. CASE x = "subset" /\ Return(BoolValue(Contained(s[1], s[2])))
  <2>1. ValueIn(V, n, BoolValue(Contained(s[1], s[2])))
    BY BooleanValue
  <2> QED
    BY <1>1, <1>2, <1>10, <2>1, ReturnValue
<1>11. CASE /\ x = "callableParams" /\ Callable(v)
            /\ Return(ListValue([k \in DOMAIN CallableParams(v) |-> Atom(CallableParams(v)[k])]))
  <2> DEFINE names == CallableParams(v)
  <2>1. IsSequence(names)
    BY <1>5, <1>11, ParamsSequence DEF Typed
  <2>2. Return(ListValue([k \in DOMAIN names |-> Atom(names[k])]))
    BY <1>11
  <2> HIDE DEF names
  <2> QED
    BY <1>1, <1>2, <2>1, <2>2, ParamsTyped
<1>12. CASE /\ x = "callableArityRange" /\ Callable(v)
            /\ \A k \in DOMAIN Remaining(v) : ~(Remaining(v)[k] > MaxInt)
            /\ Return(ListValue([k \in DOMAIN Remaining(v) |-> IntValue(Remaining(v)[k])]))
  <2>1. ValueIn(V, n, v) /\ Callable(v)
    BY <1>5, <1>12
  <2>2. Arity(v) \in Nat /\ Captured(v) \in Nat /\ Captured(v) <= Arity(v) /\ MinArity(v) \in Nat
    BY <2>1, CallableCounts DEF Typed
  <2>3. \A k \in DOMAIN Remaining(v) : Remaining(v)[k] <= MaxInt
    <3> DEFINE a == IF MinArity(v) > Captured(v) THEN MinArity(v) - Captured(v) ELSE 0
               b == Arity(v) - Captured(v)
               r == Remaining(v)
    <3>1. r = <<a, b>> /\ a \in Int /\ b \in Int
      BY <2>2 DEF Remaining
    <3>2. \A k \in DOMAIN r : ~(r[k] > MaxInt)
      BY <1>12
    <3> HIDE DEF a, b, r
    <3>3. \A k \in DOMAIN r : r[k] \in Int
      BY <3>1
    <3>4. \A k \in DOMAIN r : r[k] <= MaxInt
      BY <3>2, <3>3, ArithmeticAssumption
    <3> QED
      BY <3>4 DEF r
  <2> HIDE DEF v
  <2>4. Return(ListValue([k \in DOMAIN Remaining(v) |-> IntValue(Remaining(v)[k])]))
    BY <1>12
  <2> QED
    BY <1>1, <1>2, <2>1, <2>3, <2>4, ArityTyped
<1> QED
  BY <1>4, <1>6, <1>7, <1>8, <1>9, <1>10, <1>11, <1>12

LEMMA AskTyped ==
  ASSUME StackInv, NEW V, Typed(V), ApplyAsk
  PROVE  SomeTyped'
<1>1. /\ AppliesBuiltin /\ UNCHANGED <<envs, functions>>
      /\ (\E diag : Fail(diag)) \/ Return(StringValue(answers + 1))
  BY DEF ApplyAsk, Only
<1>2. Depth > 0
  BY <1>1, BuiltinCall
<1>3. ValueIn(V, Len(functions), StringValue(answers + 1))
  <2>1. <<>> \in Seq(V)
    OBVIOUS
  <2> QED
    BY <2>1, PlainValue DEF StringValue
<1> QED
  BY <1>1, <1>2, <1>3, ReturnValue, FailTyped

-----------------------------------------------------------------------------
(***************************************************************************)
(* Walks.                                                                  *)
(***************************************************************************)
LEMMA WalksTakeTwo ==
  ASSUME NEW x \in Walks
  PROVE  Len(ParamNames[x]) \in {2, 3} /\ x # "set"
<1>1. x \in {"map", "collect", "filter", "all", "exists", "locate", "forEachDo", "reduce"}
  BY DEF Walks, Predicates
<1>2. CASE x = "reduce"
  BY <1>2, ParamCounts
<1>3. CASE x \in {"map", "collect", "filter", "all", "exists", "locate", "forEachDo"}
  BY <1>3, ParamCounts
<1> QED
  BY <1>1, <1>2, <1>3

LEMMA FrameHolds ==
  ASSUME NEW tree, NEW env, NEW h
  PROVE  LET f == [Frame(tree, env) EXCEPT !.held = h]
             g == [Frame(tree, env) EXCEPT !.done = h]
         IN f.tree = tree /\ f.done = <<>> /\ f.held = h /\ g.tree = tree /\ g.done = h
<1> DEFINE f == [Frame(tree, env) EXCEPT !.held = h]
           g == [Frame(tree, env) EXCEPT !.done = h]
<1> DEFINE a == Frame(tree, env)
<1>1. a = [tree |-> a.tree, env |-> a.env, local |-> a.local, held |-> a.held, done |-> a.done]
  BY DEF Frame
<1>2. a.tree = tree /\ a.done = <<>>
  BY FrameFields
<1>3. f = [a EXCEPT !.held = h] /\ g = [a EXCEPT !.done = h]
  OBVIOUS
<1> HIDE DEF a, f, g
<1>4. f = [tree |-> a.tree, env |-> a.env, local |-> a.local, held |-> h, done |-> a.done]
  BY <1>1, <1>3
<1>5. g = [tree |-> a.tree, env |-> a.env, local |-> a.local, held |-> a.held, done |-> h]
  BY <1>1, <1>3
<1>6. f.tree = a.tree /\ f.done = a.done /\ f.held = h
  BY <1>4
<1>7. g.tree = a.tree /\ g.done = h
  BY <1>5
<1> QED
  BY <1>2, <1>6, <1>7 DEF f, g

LEMMA BeginWalkTyped ==
  ASSUME StackInv, NEW V, Typed(V), BeginWalk
  PROVE  SomeTyped'
<1> DEFINE s == Collected
           h == <<Callee>> \o s
           g == Frame(WalkTree, Top.env)
           f == [g EXCEPT !.held = h]
           p == Len(ParamNames[Callee.name])
           last == Last(s)
<1>1. AppliesBuiltin /\ Complete /\ Callee.name \in Walks /\ UNCHANGED <<envs, functions>>
  BY DEF BeginWalk, Only, store
<1>2. /\ Depth > 0 /\ Callee \in V /\ s \in Seq(V) /\ Len(s) = p /\ p \in {2, 3}
      /\ \A v \in V : ValueIn(V, Len(functions), v)
  BY <1>1, BuiltinCall, CollectedIn, WalksTakeTwo, TypedTop
<1>3. (\E diag : Fail(diag)) \/ (Walkable(Callee.name, last) /\ SetTop(f))
  BY DEF BeginWalk
<1>4. CASE \E diag : Fail(diag)
  BY <1>1, <1>4, FailTyped
<1>5. CASE Walkable(Callee.name, last) /\ SetTop(f)
  <2>1. last.kind \in {"list", "object"}
    BY <1>5 DEF Walkable, IsWalked, IsCollection
  <2> HIDE DEF s, p
  <2>2. Len(s) \in Nat /\ Len(s) >= 2 /\ Len(s) \in 1..Len(s)
    BY <1>2
  <2>3. last.items \in Seq(V)
    BY <1>2, <2>2, ArgumentIn DEF Last
  <2> DEFINE c == <<Callee>>
  <2>4. c \in Seq(V) /\ Len(c) = 1 /\ c[1] = Callee
    BY <1>2
  <2>5. 1 \in 1..Len(c)
    BY <2>4
  <2>6. h = c \o s
    OBVIOUS
  <2> HIDE DEF c, h
  <2>7. /\ h \in Seq(V) /\ Len(h) = Len(c) + Len(s) /\ h[1] = c[1]
        /\ h[Len(c) + Len(s)] = s[Len(s)]
    <3>1. c \in Seq(V) /\ s \in Seq(V)
      BY <1>2, <2>4
    <3>2. c \o s \in Seq(V) /\ Len(c \o s) = Len(c) + Len(s)
      BY <3>1, ConcatIn
    <3>3. \A i \in 1..Len(c) : (c \o s)[i] = c[i]
      BY <3>1, ConcatIn
    <3>4. \A i \in 1..Len(s) : (c \o s)[Len(c) + i] = s[i]
      BY <3>1, ConcatIn
    <3> QED
      BY <2>2, <2>5, <2>6, <3>2, <3>3, <3>4, Zenon
  <2>8. Len(h) >= 3
    BY <2>2, <2>4, <2>7
  <2>9. h[1].name \in Walks /\ Last(h) = last
    BY <1>1, <2>4, <2>7 DEF Last
  <2>10. g.tree = WalkTree /\ g.done = <<>>
    BY FrameFields
  <2>11. f.tree = WalkTree /\ f.done = <<>> /\ f.held = h
    BY FrameHolds
  <2>12. WalkTree.op = "walk" /\ "walk" \notin Operations /\ <<>> \in Seq(V) /\ Len(<<>>) = 0
    BY DEF WalkTree, Tree, Operations, Divisions
  <2> HIDE DEF f, last, g
  <2>13. WalkIn(V, f)
    <3>1. Len(f.done) <= Len(last.items)
      BY <2>3, <2>11, <2>12
    <3> QED
      BY <2>1, <2>3, <2>7, <2>8, <2>9, <2>11, <3>1 DEF WalkIn
  <2>14. FrameIn(V, f)
    BY <2>11, <2>12, <2>13 DEF FrameIn
  <2> QED
    BY <1>1, <1>2, <1>5, <2>14, SetTopTyped
<1> QED
  BY <1>3, <1>4, <1>5

\* The frame of a walk.
LEMMA WalkTop ==
  ASSUME StackInv, NEW V, Typed(V), Depth > 0, Op = "walk"
  PROVE  /\ Top.held \in Seq(V) /\ Len(Top.held) >= 3 /\ Walk \in Walks
         /\ Items \in Seq(V) /\ Len(Items) \in Nat /\ Done <= Len(Items)
         /\ Callback \in V /\ Initial \in V
         /\ Last(Top.held) \in V /\ Last(Top.held).kind \in {"list", "object"}
         /\ ValueIn(V, Len(functions), Last(Top.held))
         /\ Accumulator \in V
<1>1. WalkIn(V, Top)
  BY TypedTop DEF FrameIn, Op
<1> DEFINE h == Top.held
<1>2. /\ h \in Seq(V) /\ Len(h) >= 3 /\ h[1].name \in Walks /\ Last(h).kind \in {"list", "object"}
      /\ Last(h).items \in Seq(V) /\ Len(Top.done) <= Len(Last(h).items)
  BY <1>1 DEF WalkIn
<1> HIDE DEF h
<1>3. Len(h) \in 1..Len(h) /\ 2 \in 1..Len(h) /\ 3 \in 1..Len(h)
  BY <1>2
<1>4. h[2] \in V /\ h[3] \in V /\ h[Len(h)] \in V
  BY <1>2, <1>3
<1>5. Last(h) \in V
  BY <1>4 DEF Last
<1>6. ValueIn(V, Len(functions), Last(h))
  BY <1>5, TypedTop
<1>7. Len(Last(h).items) \in Nat
  BY <1>2
<1>8. Accumulator \in V
  <2>1. Initial \in V
    BY <1>4 DEF Initial, h
  <2>2. Done \in Nat /\ \A k \in 1..Done : Result(k) \in V
    BY TypedTop
  <2>3. CASE Done = 0
    BY <2>1, <2>3 DEF Accumulator
  <2>4. CASE Done # 0
    <3>1. Done \in 1..Done
      BY <2>2, <2>4
    <3>2. Result(Done) \in V
      BY <2>2, <3>1
    <3> QED
      BY <2>4, <3>2 DEF Accumulator
  <2> QED
    BY <2>3, <2>4
<1> QED
  BY <1>2, <1>4, <1>5, <1>6, <1>7, <1>8 DEF h, Walk, Items, Callback, Initial, Done

LEMMA VisitTyped ==
  ASSUME StackInv, NEW V, Typed(V), Visit
  PROVE  SomeTyped'
<1> DEFINE item == Items[Done + 1]
           arguments == IF Walk = "reduce" THEN <<Accumulator, item>> ELSE <<item>>
           d == <<Callback>> \o arguments
           tree == ApplyTree(Len(arguments))
           f == [Frame(tree, 0) EXCEPT !.done = d]
<1>1. Depth > 0 /\ Op = "walk" /\ ~WalkOver /\ Push(f) /\ UNCHANGED <<envs, functions>>
  BY DEF Visit, Evaluating, Only, store
<1>2. /\ Items \in Seq(V) /\ Len(Items) \in Nat /\ Done <= Len(Items) /\ Callback \in V
      /\ Accumulator \in V /\ Done \in Nat
  BY <1>1, WalkTop, TypedTop
<1>3. Done < Len(Items)
  <2>1. Done # Len(Items)
    BY <1>1 DEF WalkOver
  <2> QED
    BY <1>2, <2>1
<1>4. WaitingIn(Top)
  <2>1. Top.tree.op = "walk" /\ Len(Top.done) < Len(Last(Top.held).items)
    BY <1>1, <1>3 DEF Op, Done, Items
  <2> QED
    BY <2>1 DEF WaitingIn, Operations, Divisions
<1>5. item \in V
  <2>1. Done + 1 \in 1..Len(Items)
    BY <1>2, <1>3
  <2> QED
    BY <1>2, <2>1
<1> HIDE DEF item
<1>6. arguments \in Seq(V) /\ Len(arguments) \in Nat
  <2>1. <<Accumulator, item>> \in Seq(V) /\ <<item>> \in Seq(V)
    BY <1>2, <1>5
  <2>2. arguments \in Seq(V)
    BY <2>1
  <2> HIDE DEF arguments
  <2> QED
    BY <2>2
<1> HIDE DEF arguments
<1>7. d \in Seq(V)
  <2> DEFINE c == <<Callback>>
  <2>1. c \in Seq(V)
    BY <1>2
  <2> HIDE DEF c
  <2>2. c \o arguments \in Seq(V)
    BY <1>6, <2>1, ConcatIn
  <2> QED
    BY <2>2 DEF c
<1>8. tree.op = "apply" /\ tree.n \in Nat
  BY <1>6 DEF ApplyTree, Tree
<1> HIDE DEF d, tree
<1>9. f.tree = tree /\ f.done = d
  BY FrameHolds
<1>10. "apply" \notin Operations
  BY DEF Operations, Divisions
<1> HIDE DEF f
<1>11. FrameIn(V, f)
  BY <1>7, <1>8, <1>9, <1>10 DEF FrameIn
<1>12. StoreIn(V, envs', functions')
  BY <1>1 DEF Typed
<1> QED
  BY <1>1, <1>4, <1>11, <1>12, PushTyped

LEMMA EndWalkTyped ==
  ASSUME StackInv, NEW V, Typed(V), EndWalk
  PROVE  SomeTyped'
<1> DEFINE n == Len(functions)
           c == Last(Top.held)
           d == Top.done
           v == WalkResult
<1>1. Depth > 0 /\ Op = "walk" /\ UNCHANGED <<envs, functions>>
  BY DEF EndWalk, Evaluating, Only, store
<1>2. /\ Walk \in Walks /\ Items \in Seq(V) /\ Len(Items) \in Nat /\ Done <= Len(Items)
      /\ c.kind \in {"list", "object"} /\ ValueIn(V, n, c) /\ Accumulator \in V
      /\ d \in Seq(V) /\ Done \in Nat /\ \A u \in V : ValueIn(V, n, u)
  BY <1>1, WalkTop, TypedTop
<1>3. Fail("TYPE_EXPECTED_BOOL") \/ Return(v)
  BY DEF EndWalk
<1>4. v = CASE Walk = "map" -> ListValue(d)
            [] Walk = "collect" -> [c EXCEPT !.items = IF IsSet(c) THEN DistinctItems(d) ELSE d]
            [] Walk = "filter" -> [c EXCEPT !.items = Pick(Items, Kept)]
            [] Walk = "all" -> BoolValue(~Stopped)
            [] Walk = "exists" -> BoolValue(Stopped)
            [] Walk = "locate" -> IF Stopped THEN Items[Done] ELSE ListValue(<<>>)
            [] Walk = "forEachDo" -> ListValue(<<>>)
            [] Walk = "reduce" -> Accumulator
  BY DEF WalkResult
<1>5. Walk \in {"map", "collect", "filter", "all", "exists", "locate", "forEachDo", "reduce"}
  BY <1>2 DEF Walks, Predicates
<1>6. c.kind \notin {"int", "function", "builtin", "method"}
  BY <1>2
<1>7. <<>> \in Seq(V)
  OBVIOUS
<1> DEFINE w == Walk
           items == Items
<1> HIDE DEF c, d, v, n, w
<1>8. ValueIn(V, n, v)
  <2>1. CASE w = "map"
    <3>1. v = ListValue(d)
      BY <1>4, <2>1 DEF w
    <3> QED
      BY <1>2, <3>1, ListIn
  <2>2. CASE w = "collect"
    <3> DEFINE s == IF IsSet(c) THEN DistinctItems(d) ELSE d
    <3>1. v = [c EXCEPT !.items = s]
      BY <1>4, <2>2 DEF w
    <3>2. s \in Seq(V)
      BY <1>2, DistinctIn
    <3> HIDE DEF s
    <3> QED
      BY <1>2, <1>6, <3>1, <3>2, ItemsReplaced
  <2>3. CASE w = "filter"
    <3> DEFINE I == Kept
               s == Pick(items, I)
    <3>1. v = [c EXCEPT !.items = s]
      BY <1>4, <2>3 DEF w
    <3>2. \A i \in Kept : i \in 1..Done
      BY Zenon DEF Kept
    <3> HIDE DEF I, items
    <3>3. items \in Seq(V) /\ Len(items) \in Nat /\ Done <= Len(items) /\ Done \in Nat
      BY <1>2 DEF items
    <3>4. I \in SUBSET DOMAIN items
      BY <3>2, <3>3 DEF I
    <3>5. s \in Seq(V)
      BY <3>3, <3>4, Picked
    <3> HIDE DEF s
    <3> QED
      BY <1>2, <1>6, <3>1, <3>5, ItemsReplaced
  <2>4. CASE w \in {"all", "exists"}
    <3>1. \E b : v = BoolValue(b)
      BY <1>4, <2>4 DEF w
    <3> QED
      BY <3>1, BooleanValue
  <2>5. CASE w = "locate"
    <3>1. v = IF Stopped THEN Items[Done] ELSE ListValue(<<>>)
      BY <1>4, <2>5 DEF w
    <3>2. CASE Stopped
      <4>1. Done > 0
        BY <3>2 DEF Stopped, Found
      <4>2. Done \in 1..Len(Items)
        BY <1>2, <4>1
      <4>3. Items[Done] \in V
        BY <1>2, <4>2
      <4> QED
        BY <1>2, <3>1, <3>2, <4>3
    <3>3. CASE ~Stopped
      <4>1. v = ListValue(<<>>)
        BY <3>1, <3>3
      <4> QED
        BY <1>7, <4>1, ListIn
    <3> QED
      BY <3>2, <3>3
  <2>6. CASE w = "forEachDo"
    <3>1. v = ListValue(<<>>)
      BY <1>4, <2>6 DEF w
    <3> QED
      BY <1>7, <3>1, ListIn
  <2>7. CASE w = "reduce"
    <3>1. v = Accumulator
      BY <1>4, <2>7 DEF w
    <3> QED
      BY <1>2, <3>1
  <2> QED
    BY <1>5, <2>1, <2>2, <2>3, <2>4, <2>5, <2>6, <2>7 DEF w
<1> QED
  BY <1>1, <1>3, <1>8, FailTyped, ReturnValue DEF n

-----------------------------------------------------------------------------
(***************************************************************************)
(* Statements, and the unwinding after a failure.                          *)
(***************************************************************************)
LEMMA UnwindTyped ==
  ASSUME StackInv, NEW V, Typed(V), Unwind
  PROVE  SomeTyped'
<1>1. error # NoError /\ frames' = Front(frames) /\ UNCHANGED functions
  BY DEF Unwind, Only
<1>2. Depth > 0 /\ IsSequence(frames) /\ IsSequence(envs) /\ WellOpened(frames, envs)
  BY <1>1 DEF StackInv, ErrorInv, Depth, WellOpened
<1>3. FramesIn(V, frames')
  BY <1>1, <1>2, FramesPopped DEF Typed, Depth
<1>4. Len(envs) > 0
  <2>1. OpenedIn(frames, Len(frames)) \in Nat
    BY <1>2, SequenceLength, OpenedCounts
  <2>2. Len(envs) = 1 + OpenedIn(frames, Len(frames))
    BY <1>2 DEF WellOpened
  <2> QED
    BY <2>1, <2>2
<1>5. StoreIn(V, envs', functions')
  <2>1. envs' = Front(envs) \/ UNCHANGED envs
    BY DEF Unwind, CloseEnv
  <2>2. StoreIn(V, envs, functions)
    BY DEF Typed
  <2>3. StoreIn(V, Front(envs), functions)
    BY <1>2, <1>4, <2>2, EnvClosed
  <2> QED
    BY <1>1, <2>1, <2>2, <2>3
<1>6. Typed(V)'
  BY <1>3, <1>5 DEF Typed
<1> QED
  BY <1>6 DEF SomeTyped

LEMMA EnterTyped ==
  ASSUME StackInv, NEW V, Typed(V), program \in Seq(Trees), next \in Nat \ {0}, Enter
  PROVE  SomeTyped'
<1> DEFINE tree == program[next]
           fs == <<Frame(tree, 1)>>
<1>1. frames' = fs /\ next <= Len(program) /\ UNCHANGED <<envs, functions>>
  BY DEF Enter
<1>2. tree \in Parts
  <2>1. next \in 1..Len(program)
    BY <1>1
  <2>2. tree \in Trees
    BY <2>1
  <2> QED
    BY <2>2, TreesAreTrees
<1> HIDE DEF tree
<1>3. FrameIn(V, Frame(tree, 1))
  BY <1>2, NewFrameIn
<1>4. Len(fs) = 1 /\ fs[1] = Frame(tree, 1)
  OBVIOUS
<1> HIDE DEF fs
<1>5. FramesIn(V, fs)
  <2>1. \A k \in 1..Len(fs) : k = 1
    BY <1>4
  <2>2. \A k \in 1..(Len(fs) - 1) : FALSE
    BY <1>4
  <2> QED
    BY <1>3, <1>4, <2>1, <2>2 DEF FramesIn
<1>6. Typed(V)'
  BY <1>1, <1>5 DEF Typed
<1> QED
  BY <1>6 DEF SomeTyped

LEMMA NextTyped ==
  StackInv /\ TypeInv /\ [Next]_vars => TypeInv'
<1> SUFFICES ASSUME StackInv, TypeInv, [Next]_vars PROVE TypeInv'
  OBVIOUS
<1>1. program \in Seq(Trees) /\ next \in Nat \ {0}
  BY DEF TypeInv
<1>2. PICK V : Typed(V)
  BY DEF TypeInv
<1>3. UNCHANGED program /\ next' \in {next, next + 1}
  BY DEF Next, vars, Only, Enter, EvalOperand, EvalOperator, EvalDecided, EvalLeastInt, EvalConditional,
    EvalLeaf, EvalGroup, EvalSequence, EvalFunctionLiteral, EvalAssignment, EvalRecursiveAssignment,
    CollectFix, EvalFix, EvalWhere, EvalClassDefinition, EvalAttribute, EvalCallee, Refuse,
    ApplyPartially, ApplyFunction, EndFunction, ExtendBuiltin, ApplyBuiltin, ApplyAsk, BeginWalk,
    Visit, EndWalk, Unwind
<1>4. SomeTyped'
  <2>1. CASE UNCHANGED vars
    <3>1. Typed(V)'
      BY <1>2, <2>1 DEF vars, Typed
    <3> QED
      BY <3>1 DEF SomeTyped
  <2>2. CASE Enter \/ Unwind
    BY <1>1, <1>2, <2>2, EnterTyped, UnwindTyped
  <2>3. CASE EvalOperand \/ EvalOperator \/ EvalDecided \/ EvalLeastInt \/ EvalConditional
    BY <1>2, <2>3, OperandTyped, OperatorTyped, DecidedTyped, LeastIntTyped, ConditionalTyped
  <2>4. CASE EvalLeaf \/ EvalGroup \/ EvalSequence \/ EvalFunctionLiteral \/ EvalAssignment
    BY <1>2, <2>4, LeafTyped, GroupTyped, SequenceTyped, FunctionLiteralTyped, AssignmentTyped
  <2>5. CASE EvalRecursiveAssignment \/ CollectFix \/ EvalFix \/ EvalWhere \/ EvalClassDefinition \/ EvalAttribute
    BY <1>2, <2>5, RecursiveAssignmentTyped, CollectFixTyped, FixTyped, WhereTyped, ClassDefinitionTyped,
      AttributeTyped
  <2>6. CASE EvalCallee \/ Refuse \/ ApplyPartially \/ ApplyFunction \/ EndFunction
    BY <1>2, <2>6, CalleeTyped, RefuseTyped, ApplyPartiallyTyped, ApplyFunctionTyped, EndFunctionTyped
  <2>7. CASE ExtendBuiltin \/ ApplyBuiltin \/ ApplyAsk \/ BeginWalk \/ Visit \/ EndWalk
    BY <1>2, <2>7, ExtendTyped, ApplyBuiltinTyped, AskTyped, BeginWalkTyped, VisitTyped, EndWalkTyped
  <2> QED
    BY <2>1, <2>2, <2>3, <2>4, <2>5, <2>6, <2>7 DEF Next
<1>5. next' \in Nat \ {0}
  BY <1>1, <1>3
<1> QED
  BY <1>1, <1>3, <1>4, <1>5 DEF TypeInv, SomeTyped

LEMMA InstalledNames ==
  /\ DOMAIN Installed = BuiltinNames \cup {"Object", "Set", "Bag"}
  /\ \A x \in BuiltinNames : Installed[x] = Builtin(x, <<>>)
  /\ Installed["Object"] = Class("Object", <<>>)
  /\ \A x \in {"Set", "Bag"} : Installed[x] = Class(x, <<Class("Object", <<>>)>>)
<1> DEFINE N == DOMAIN ParamNames
<1>1. Installed = [x \in N \cup {"Object", "Set", "Bag"} |->
                     IF x \in N THEN Builtin(x, <<>>)
                     ELSE Class(x, IF x = "Object" THEN <<>> ELSE <<Class("Object", <<>>)>>)]
  BY DEF Installed
<1>2. N = BuiltinNames
  BY Builtins
<1> HIDE DEF N
<1>3. "Object" \notin BuiltinNames /\ "Set" \notin BuiltinNames /\ "Bag" \notin BuiltinNames
  BY DEF BuiltinNames
<1>4. "Set" # "Object" /\ "Bag" # "Object"
  OBVIOUS
<1> QED
  BY <1>1, <1>2, <1>3, <1>4

LEMMA InitTyped ==
  Init => TypeInv
<1> SUFFICES ASSUME Init PROVE TypeInv
  OBVIOUS
<1> DEFINE V == {IntValue(i) : i \in Ints} \cup {Installed[x] : x \in DOMAIN Installed}
           base == Class("Object", <<>>)
<1>1. \A x \in DOMAIN Installed : Installed[x] \in V
  OBVIOUS
<1>2. \A i \in Ints : IntValue(i) \in V
  OBVIOUS
<1>3. \A v \in V : (\E i \in Ints : v = IntValue(i)) \/ \E x \in DOMAIN Installed : v = Installed[x]
  OBVIOUS
<1> HIDE DEF V
<1>4. base \in V
  BY <1>1, InstalledNames
<1>5. \A x : \A s \in Seq(V) : ValueIn(V, 0, Class(x, s))
  <2> TAKE x
  <2> TAKE s \in Seq(V)
  <2> DEFINE k == CollectionKind(x, s)
  <2>1. Class(x, s) = Value("class", k, x, s)
    BY DEF Class
  <2> HIDE DEF k
  <2> QED
    BY <2>1, PlainValue
<1>6. \A x \in BuiltinNames : ValueIn(V, 0, Builtin(x, <<>>))
  <2> TAKE x \in BuiltinNames
  <2> DEFINE v == Builtin(x, <<>>)
  <2>1. v = [kind |-> "builtin", n |-> 0, name |-> x, items |-> <<>>]
    BY DEF Builtin, Value
  <2> HIDE DEF v
  <2>2. v.kind = "builtin" /\ v.n = 0 /\ v.name = x /\ v.items = <<>>
    BY <2>1
  <2>3. Len(ParamNames[x]) \in Nat /\ Len(<<>>) = 0 /\ <<>> \in Seq(V) /\ x \in DOMAIN ParamNames
    BY ParamCounts, SequenceLength, Builtins
  <2>4. Len(<<>>) <= Len(ParamNames[x])
    BY <2>3
  <2>5. ValueIn(V, 0, v)
    BY <2>1, <2>2, <2>3, <2>4 DEF ValueIn
  <2> QED
    BY <2>5 DEF v
<1>7. ASSUME NEW x \in DOMAIN Installed PROVE ValueIn(V, 0, Installed[x])
  <2>1. <<>> \in Seq(V) /\ <<base>> \in Seq(V)
    <3> HIDE DEF base
    <3> QED
      BY <1>4
  <2> HIDE DEF base
  <2>2. CASE x \in BuiltinNames
    BY <1>6, <2>2, InstalledNames
  <2>3. CASE x = "Object"
    BY <1>5, <2>1, <2>3, InstalledNames
  <2>4. CASE x \in {"Set", "Bag"}
    <3>1. Installed[x] = Class(x, <<base>>)
      BY <2>4, InstalledNames DEF base
    <3> QED
      BY <1>5, <2>1, <3>1
  <2>5. x \in BuiltinNames \/ x = "Object" \/ x \in {"Set", "Bag"}
    BY InstalledNames
  <2> QED
    BY <2>2, <2>3, <2>4, <2>5
<1>8. \A v \in V : ValueIn(V, 0, v)
  BY <1>3, <1>7, NumberValue
<1>9. Closed(V, 0)
  <2>1. \A i \in 1..0 : Function(i) \in V
    OBVIOUS
  <2>2. EnvIn(V, Installed)
    BY <1>1 DEF EnvIn
  <2> QED
    BY <1>2, <1>8, <2>1, <2>2 DEF Closed
<1> DEFINE empty == [x \in {} |-> IntValue(0)]
<1>10. frames = <<>> /\ envs = <<empty>> /\ functions = <<>> /\ program \in Programs /\ next = 1
  BY DEF Init
<1>11. EnvIn(V, empty)
  BY DEF EnvIn
<1> HIDE DEF empty
<1>12. StoreIn(V, envs, functions)
  <2>1. IsSequence(functions) /\ Len(functions) = 0
    BY <1>10, ShortSequences
  <2>2. \A k \in 1..Len(envs) : envs[k] = empty
    BY <1>10
  <2>3. \A k \in 1..Len(functions) : FALSE
    BY <2>1
  <2> QED
    BY <1>9, <1>11, <2>1, <2>2, <2>3 DEF StoreIn
<1>13. FramesIn(V, frames)
  <2>1. (\A k \in 1..Len(frames) : FALSE) /\ \A k \in 1..(Len(frames) - 1) : FALSE
    BY <1>10
  <2> QED
    BY <2>1 DEF FramesIn
<1> QED
  BY <1>10, <1>12, <1>13, SyntaxAssumption DEF TypeInv, Typed

LEMMA TypedOperands ==
  StackInv /\ TypeInv => ArithmeticExact
<1> SUFFICES ASSUME StackInv, TypeInv, Evaluating(Operations), Done = 2, Accepted
             PROVE  ExactOrRefused(Op, Result(1).n, Result(2).n)
  BY DEF ArithmeticExact
<1>1. Depth > 0 /\ Op \in Operations
  BY DEF Evaluating
<1>2. PICK V : Typed(V)
  BY DEF TypeInv
<1>3. FrameIn(V, Top) /\ (\A k \in 1..Done : Result(k) \in V) /\ \A v \in V : ValueIn(V, Len(functions), v)
  BY <1>1, <1>2, TypedTop
<1>4. Result(1).kind = "int"
  BY <1>1, <1>3 DEF FrameIn, Op, Done, Result
<1>5. Result(1) \in V
  BY <1>3, OneAndTwo
<1>6. Result(1).n \in Ints
  BY <1>3, <1>4, <1>5 DEF ValueIn
<1>7. Result(2).n \in Ints
  BY <1>1, <1>2, AcceptedInt
<1> QED
  BY <1>1, <1>6, <1>7, OperationsExact

(***************************************************************************)
(* The arithmetic is exact or refuses in every evaluation: an operator is  *)
(* given two integers that are values, whatever statements have been       *)
(* entered (enact_require_int, enact_eval_checked_binary).                 *)
(***************************************************************************)
THEOREM ArithmeticStaysExact == Spec => []ArithmeticExact
<1>1. Init => StackInv /\ TypeInv
  BY StackInit, InitTyped
<1>2. (StackInv /\ TypeInv) /\ [Next]_vars => (StackInv /\ TypeInv)'
  BY NextKeepsStack, NextTyped
<1>3. StackInv /\ TypeInv => ArithmeticExact
  BY TypedOperands
<1> QED
  BY <1>1, <1>2, <1>3, PTL DEF Spec

=============================================================================
