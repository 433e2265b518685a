-------------------------- MODULE EnactArithmetic ---------------------------
(***************************************************************************)
(* Integers of the interpreter (eval.c): values of a word, computed in one *)
(* of twice its width, and the literal that only a negation may have.      *)
(***************************************************************************)
EXTENDS Integers

CONSTANT MaxInt    \* INT32_MAX: any word size has the same corner cases

ASSUME ArithmeticAssumption == MaxInt \in Nat \ {0}

MinInt == -MaxInt - 1
Ints == MinInt..MaxInt

\* int64_t: a word twice as wide holds this many values on each side of zero.
Half == 2 * (MaxInt + 1) * (MaxInt + 1)
MutWide(x) == ((x + MaxInt + 1) % (2 * (MaxInt + 1))) - MaxInt - 1

Wide(x) == ((x + Half) % (2 * Half)) - Half

Magnitude(x) == IF x < 0 THEN -x ELSE x

\* / and % of C truncate towards zero.
Quotient(l, r) ==
  LET q == Magnitude(l) \div Magnitude(r)
  IN IF (l < 0) = (r < 0) THEN q ELSE -q

Remainder(l, r) ==
  LET m == Magnitude(l) % Magnitude(r)
  IN IF l < 0 THEN -m ELSE m

Divisions == {"/", "mod"}
Operations == {"+", "-", "*"} \cup Divisions

Intermediate(op, l, r) ==
  CASE op = "+" -> Wide(l + r)
    [] op = "-" -> Wide(l - r)
    [] op = "*" -> Wide(l * r)
    [] op = "/" -> Quotient(l, r)
    [] op = "mod" -> Remainder(l, r)

Number(n) == [err |-> "OK", n |-> n]
Error(diag) == [err |-> diag, n |-> 0]

Narrow(n) == IF n < MinInt \/ n > MaxInt THEN Error("INT_OVERFLOW") ELSE Number(n)

CheckedBinary(op, l, r) ==
  IF op \in Divisions /\ r = 0 THEN Error("DIVIDE_BY_ZERO")
  ELSE IF op \in Divisions /\ l = MinInt /\ r = -1 THEN Error("INT_OVERFLOW")
  ELSE Narrow(Intermediate(op, l, r))

\* The literal MinInt has no positive counterpart.
Negated(n) == IF n = MinInt THEN Error("INT_OVERFLOW") ELSE Number(-n)

Literal(magnitude) == IF magnitude > MaxInt THEN Error("INT_OVERFLOW") ELSE Number(magnitude)

IsMinInt(magnitude) == magnitude = MaxInt + 1

Compare(op, l, r) ==
  CASE op = "<" -> l < r
    [] op = ">" -> l > r
    [] op = "<=" -> l <= r
    [] op = ">=" -> l >= r

-----------------------------------------------------------------------------
(***************************************************************************)
(* Properties.                                                             *)
(***************************************************************************)

\* What an operation means for integers without a width; a division is a
\* quotient and a remainder with the sign of the dividend.
Exact(op, l, r, n) ==
  CASE op = "+" -> n = l + r
    [] op = "-" -> n = l - r
    [] op = "*" -> n = l * r
    [] op = "/" -> LET m == l - n * r IN Magnitude(m) < Magnitude(r) /\ (m = 0 \/ (m < 0) = (l < 0))
    [] op = "mod" -> /\ Magnitude(n) < Magnitude(r) /\ (n = 0 \/ (n < 0) = (l < 0))
                     /\ \E q \in -MaxInt - 1..MaxInt + 1 : l = q * r + n

\* An operation gives the exact result, or the diagnostic for which there is a
\* reason: a division by zero, the least integer divided by -1, or no result that
\* is a value (docs/slices/006-strings-mod-requirements.md).
ExactOrRefused(op, l, r) ==
  LET c == CheckedBinary(op, l, r)
  IN /\ c.err = "OK" => c.n \in Ints /\ Exact(op, l, r, c.n)
     /\ c.err = "DIVIDE_BY_ZERO" => op \in Divisions /\ r = 0
     /\ c.err = "INT_OVERFLOW" =>
          IF op \in Divisions THEN l = MinInt /\ r = -1
          ELSE \A n \in Ints : ~Exact(op, l, r, n)

=============================================================================
