----------------------------- MODULE EnactMerge ------------------------------
(***************************************************************************)
(* The loop of enact_class_merge_linearizations as a state machine, one    *)
(* step per iteration, for every input it may be called with: what the     *)
(* linearization of a class promises to method lookup, super and the       *)
(* introspection builtins rests on this loop.                              *)
(***************************************************************************)
EXTENDS EnactLinearization, FiniteSets

CONSTANT Class   \* classes, as addresses

ASSUME MergeAssumption == IsFiniteSet(Class)

NoRepetition(s) == \A i, j \in 1..Len(s) : s[i] = s[j] => i = j

\* What the loop is called with: sequences of distinct classes.
Mergeable(s) ==
  /\ s \in Seq(Seq(Class))
  /\ \A i \in DOMAIN s : NoRepetition(s[i])

VARIABLES
  seqs,        \* the sequences to merge
  index,       \* how much of each is consumed
  out,         \* the classes placed so far
  consistent   \* no iteration has failed to find a candidate

vars == <<seqs, index, out, consistent>>

Init ==
  /\ Mergeable(seqs)
  /\ index = FirstIndex(seqs)
  /\ out = <<>>
  /\ consistent = TRUE

\* The loop is left.
Ended == ~consistent \/ ~HasRemaining(seqs, index)

\* The next call, with the sequences s.
BeginMerge(s) ==
  /\ Ended
  /\ seqs' = s
  /\ index' = FirstIndex(s)
  /\ out' = <<>>
  /\ consistent' = TRUE

Place ==
  /\ consistent
  /\ HasCandidate(seqs, index)
  /\ out' = AppendUnique(out, NextCandidate(seqs, index))
  /\ index' = DropCandidate(seqs, index, NextCandidate(seqs, index))
  /\ UNCHANGED <<seqs, consistent>>

GiveUp ==
  /\ consistent
  /\ HasRemaining(seqs, index)
  /\ ~HasCandidate(seqs, index)
  /\ consistent' = FALSE
  /\ UNCHANGED <<seqs, index, out>>

Iterate == Place \/ GiveUp

Next == Iterate \/ \E s \in Seq(Seq(Class)) : Mergeable(s) /\ BeginMerge(s)

Spec == Init /\ [][Next]_vars

-----------------------------------------------------------------------------
TypeOK ==
  /\ Mergeable(seqs)
  /\ index \in [DOMAIN seqs -> Nat]
  /\ \A i \in DOMAIN seqs : index[i] <= Len(seqs[i])
  /\ out \in Seq(Class)
  /\ consistent \in BOOLEAN

(***************************************************************************)
(* What is consumed of a sequence is exactly what is placed: a class that  *)
(* several sequences share is consumed in all of them at once.             *)
(***************************************************************************)
ConsumedIsPlaced ==
  \A i \in DOMAIN seqs : \A j \in 1..Len(seqs[i]) :
    j <= index[i] <=> seqs[i][j] \in ClassesOf(out)

\* No class is placed twice.
PlacedOnce == NoRepetition(out)

(***************************************************************************)
(* The order of every sequence is kept: local precedence of the direct     *)
(* superclasses and the linearization of each of them (monotonicity).      *)
(***************************************************************************)
OrderKept ==
  \A i \in DOMAIN seqs : \A j, k \in 1..Len(seqs[i]) :
    \A m \in 1..Len(out) :
      j < k /\ out[m] = seqs[i][k] =>
        \E l \in 1..Len(out) : l < m /\ out[l] = seqs[i][j]

\* Only classes of the sequences are placed.
OnlyInputsPlaced ==
  \A m \in 1..Len(out) : \E i \in DOMAIN seqs : out[m] \in ClassesOf(seqs[i])

MergeInv ==
  TypeOK /\ ConsumedIsPlaced /\ PlacedOnce /\ OrderKept /\ OnlyInputsPlaced

\* r ranks every class before the ones that some sequence puts behind it.
Respects(r) ==
  \A i \in DOMAIN seqs : \A j, k \in 1..Len(seqs[i]) :
    j < k => r[seqs[i][j]] < r[seqs[i][k]]

(***************************************************************************)
(* OK() is false and INCONSISTENT_LINEARIZATION is reported only when no   *)
(* order of the classes respects all sequences, whatever candidates the    *)
(* earlier iterations picked.                                              *)
(***************************************************************************)
GiveUpJustified ==
  ~consistent => \A r \in [Class -> 1..Cardinality(Class)] : ~Respects(r)

\* A merge that ends without giving up has placed every class.
AllPlaced ==
  consistent /\ ~HasRemaining(seqs, index) =>
    ClassesOf(out) = UNION {ClassesOf(seqs[i]) : i \in DOMAIN seqs}

=============================================================================
