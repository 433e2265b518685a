-------------------------- MODULE EnactLinearization -------------------------
(***************************************************************************)
(* The steps of the C3 merge that orders a class and its ancestors         *)
(* (object.c, enact_class_merge_linearizations).  seqs is the tuple of the *)
(* sequences to merge: the linearizations of the direct superclasses and,  *)
(* last, the direct superclasses themselves.  index[i] counts the classes  *)
(* of seqs[i] that are already placed.  No sequence repeats a class.       *)
(***************************************************************************)
EXTENDS Naturals, Sequences

ClassesOf(s) == {s[i] : i \in 1..Len(s)}

\* enact_class_sequence_has_remaining
HasRemaining(seqs, index) == \E i \in DOMAIN seqs : index[i] < Len(seqs[i])

MutTailContains(seqs, index, c) ==
  \E i \in DOMAIN seqs : \E j \in (index[i] + 3)..Len(seqs[i]) : seqs[i][j] = c

\* enact_class_sequence_tail_contains: c stands behind the head of a sequence.
TailContains(seqs, index, c) ==
  \E i \in DOMAIN seqs : \E j \in (index[i] + 2)..Len(seqs[i]) : seqs[i][j] = c

\* The head of sequence i may be placed next.
Placeable(seqs, index, i) ==
  /\ index[i] < Len(seqs[i])
  /\ ~TailContains(seqs, index, seqs[i][index[i] + 1])

MutHasCandidate(seqs, index) ==
  \E i \in DOMAIN seqs : /\ Placeable(seqs, index, i)
                         /\ \A j \in 1..(i - 1) : index[j] = Len(seqs[j])

HasCandidate(seqs, index) == \E i \in DOMAIN seqs : Placeable(seqs, index, i)

MutNextCandidate(seqs, index) ==
  LET i == CHOOSE i \in DOMAIN seqs :
             /\ index[i] < Len(seqs[i])
             /\ \A j \in 1..(i - 1) : index[j] >= Len(seqs[j])
  IN seqs[i][index[i] + 1]

\* enact_class_sequence_next_candidate: the head of the first such sequence.
NextCandidate(seqs, index) ==
  LET i == CHOOSE i \in DOMAIN seqs :
             /\ Placeable(seqs, index, i)
             /\ \A j \in 1..(i - 1) : ~Placeable(seqs, index, j)
  IN seqs[i][index[i] + 1]

MutDropCandidate(seqs, index, c) ==
  LET heads == {i \in DOMAIN seqs : index[i] < Len(seqs[i]) /\ seqs[i][index[i] + 1] = c}
  IN [i \in DOMAIN seqs |->
       IF i \in heads /\ \A j \in heads : i <= j THEN index[i] + 1 ELSE index[i]]

MutDropEverywhere(seqs, index, c) ==
  [i \in DOMAIN seqs |-> IF index[i] < Len(seqs[i]) THEN index[i] + 1 ELSE index[i]]

\* enact_class_sequence_drop_candidate: c is dropped wherever it is the head.
DropCandidate(seqs, index, c) ==
  [i \in DOMAIN seqs |->
     IF index[i] < Len(seqs[i]) /\ seqs[i][index[i] + 1] = c
       THEN index[i] + 1
       ELSE index[i]]

\* enact_class_vector_append_unique
AppendUnique(s, c) == IF c \in ClassesOf(s) THEN s ELSE Append(s, c)

\* Nothing is placed yet.
FirstIndex(seqs) == [i \in DOMAIN seqs |-> 0]

-----------------------------------------------------------------------------
\* enact_class_direct_superclasses: a superclass list without repetitions.
Direct(list) ==
  LET Upto[i \in 0..Len(list)] ==
        IF i = 0 THEN <<>> ELSE AppendUnique(Upto[i - 1], list[i])
  IN Upto[Len(list)]

Inconsistent == [order |-> <<>>, consistent |-> FALSE]

\* An iteration of the merge places one class or, for good, none.
Iteration(seqs, m) ==
  IF HasCandidate(seqs, m.index)
    THEN [out   |-> AppendUnique(m.out, NextCandidate(seqs, m.index)),
          index |-> DropCandidate(seqs, m.index, NextCandidate(seqs, m.index))]
    ELSE m

Iterations(first, seqs, most) ==
  LET Loop[n \in 0..most] ==
        IF n = 0 THEN [out |-> first, index |-> FirstIndex(seqs)]
        ELSE Iteration(seqs, Loop[n - 1])
  IN Loop[most]

(***************************************************************************)
(* enact_class_merge_linearizations without allow_inconsistent, as every   *)
(* caller calls it, of sequences that have so many classes at most.        *)
(***************************************************************************)
Merge(first, seqs, most) ==
  LET end == Iterations(first, seqs, most)
  IN IF HasRemaining(seqs, end.index)
       THEN Inconsistent
       ELSE [order |-> end.out, consistent |-> TRUE]

\* What is merged for a class: the linearizations of its direct superclasses
\* and, last, these themselves.
SequencesToMerge(direct, above) ==
  Append([i \in 1..Len(direct) |-> above[i].order], direct)

\* enact_class_linearization_vector, in a hierarchy of superclass lists.
LinearizationIn(hierarchy) ==
  LET L[c \in 1..Len(hierarchy)] ==
        LET direct == Direct(hierarchy[c])
            above == [i \in 1..Len(direct) |-> L[direct[i]]]
        IN IF \E i \in 1..Len(direct) : ~above[i].consistent
             THEN Inconsistent
             ELSE Merge(<<c>>, SequencesToMerge(direct, above), Len(hierarchy))
  IN L

\* enact_class_inherits_name, for the names of the class and those above it.
AncestorsIn(hierarchy) ==
  LET A[c \in 1..Len(hierarchy)] == {c} \cup UNION {A[s] : s \in ClassesOf(hierarchy[c])}
  IN A

=============================================================================
