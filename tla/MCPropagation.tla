--------------------------- MODULE MCPropagation ---------------------------
(* Model checking of Propagation. Transactions, removers and peers are
   interchangeable; of the inserters one is the coordinator. *)
EXTENDS Propagation, TLC

Symmetry == Permutations(Txs) \cup Permutations(Removers) \cup Permutations(Peer)
=============================================================================
