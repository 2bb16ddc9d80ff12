----------------------------- MODULE MCRecovery -----------------------------
(***************************************************************************)
(* Recovery for model checking: the validator proposes in the second round *)
(* of the last height.                                                     *)
(***************************************************************************)
EXTENDS Recovery, TLC

MCTurns == {<<MaxHeight + 1, 1>>}
Symmetry == Permutations(Blocks)

=============================================================================
