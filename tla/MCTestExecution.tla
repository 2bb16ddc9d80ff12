--------------------------- MODULE MCTestExecution ---------------------------
(***************************************************************************)
(* TestExecution with the symmetries used by the runs of safety            *)
(* properties: neither the replicas nor the test cases are ordered.        *)
(***************************************************************************)
EXTENDS TestExecution, TLC

Symmetry == Permutations(Replicas) \cup Permutations(TestCases)

=============================================================================
