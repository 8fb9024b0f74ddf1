----------------------------- MODULE MCExecutor -----------------------------
(* Two users and two contracts; one of the contracts is there from the start *)
EXTENDS Executor, TLC
CONSTANTS alice, bob, bank, shop
Endowment == (alice :> 1) @@ (bob :> 2) @@ (bank :> 2) @@ (shop :> 0)
=============================================================================
