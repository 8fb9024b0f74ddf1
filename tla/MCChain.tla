------------------------------ MODULE MCChain ------------------------------
(* Model checking of Chain: the bounds are in the configurations. *)
EXTENDS ChainLedger
=============================================================================
