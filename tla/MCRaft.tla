------------------------------- MODULE MCRaft -------------------------------
(* Model checking of Raft. *)
EXTENDS Raft, TLC

Symmetry == Permutations(Node)
=============================================================================
