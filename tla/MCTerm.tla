------------------------------- MODULE MCTerm --------------------------------
(***************************************************************************)
(* SealerTerm for TLC: nodes are interchangeable, and so are committees.   *)
(***************************************************************************)
EXTENDS SealerTerm, TLC

TermSymmetry == Permutations(Node) \cup Permutations(Committee)
=============================================================================
