---------------------------- MODULE MCCollections ----------------------------
(***************************************************************************)
(* Instances of EnactCollections for TLC.                                  *)
(***************************************************************************)
EXTENDS EnactCollections

\* Values are only compared for equality.
Symmetry == Permutations(Elem)

=============================================================================
