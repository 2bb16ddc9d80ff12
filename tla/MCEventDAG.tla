------------------------------ MODULE MCEventDAG ------------------------------
(* EventDAG for TLC: replicas and messages are interchangeable. *)
EXTENDS EventDAG, TLC

Symmetry == Permutations(Replicas) \cup Permutations(Keys)

=============================================================================
