------------------------------ MODULE MCChunker ------------------------------
(***************************************************************************)
(* Instances of EnactChunker for TLC.                                      *)
(***************************************************************************)
EXTENDS EnactChunker

TextsOfFive == UNION {[1..n -> Char] : n \in 0..5}

=============================================================================
