------------------------------ MODULE MCDispatch ------------------------------
(***************************************************************************)
(* Instances of EnactDispatch for TLC.                                     *)
(***************************************************************************)
EXTENDS EnactDispatch

\* Class 3 extends classes 1 and 2, which have nothing to do with each other:
\* the method of class 2 is reached from that of class 1 by super, on an
\* object of class 3 only.
Siblings == <<<<>>, <<>>, <<1, 2>>>>

\* Class 3 names the root before its subclass: it has no linearization.
Unorderable == <<<<>>, <<1>>, <<1, 2>>>>

SmallHierarchies == {Siblings, Unorderable}

SupersOfThree == <<0, 1, 2>>

TwoParameters == [n \in Name |-> 2]

=============================================================================
