---------------------------- MODULE MCPromotion ----------------------------
(* One task that covers one of two directories, an operator, and files that
   hold one of two contents.                                                *)
EXTENDS Promotion, TLC

CONSTANTS a, b

MCDirs == {"src", "doc"}

MCScope == [t \in Tasks |-> {"src"}]

\* Contents are only compared with each other.
Symmetric == Permutations(Contents)
=============================================================================
