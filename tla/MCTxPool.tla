------------------------------ MODULE MCTxPool ------------------------------
(* Model checking of TxPool. Transactions and threads are interchangeable. *)
EXTENDS TxPool, TLC

Symmetry == Permutations(Txs) \cup Permutations(Inserters) \cup Permutations(Removers)
=============================================================================
