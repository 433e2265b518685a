------------------------------ MODULE MCClasses ------------------------------
(***************************************************************************)
(* Instances of EnactHierarchy for TLC.                                    *)
(***************************************************************************)
EXTENDS EnactHierarchy

\* A class may name every class before it, and three at most.
SupersOfFive == <<0, 1, 2, 3, 2>>

=============================================================================
