----------------------------- MODULE MCPoaNode -----------------------------
(* Model checking of PoaNode. *)
EXTENDS PoaNode

CONSTANT t1

\* t1 is valid up to block 2, the others stay valid
MCUntil == [tx \in Txs |-> IF tx = t1 THEN 2 ELSE 4]
=============================================================================
