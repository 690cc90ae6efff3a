------------------------- MODULE MCCompanionStream -------------------------
(***************************************************************************)
(* CompanionStream with two requests of either kind.  Which is which makes *)
(* no difference to the safety properties, so permutations of each kind    *)
(* are symmetries of the run that checks those.                            *)
(***************************************************************************)
EXTENDS CompanionStream, TLC

Symmetry == Permutations(Ordinary) \union Permutations(Pairings)
=============================================================================
