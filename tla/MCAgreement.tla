---------------------------- MODULE MCAgreement ----------------------------
EXTENDS Agreement, FiniteSets, TLC

\* Equal voting power: more than two thirds of the validators.
MCQuorums == {Q \in SUBSET Validators : 3 * Cardinality(Q) > 2 * Cardinality(Validators)}
Symmetry == Permutations(Correct) \cup Permutations(Blocks)
=============================================================================
