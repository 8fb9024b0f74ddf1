---------------------------- MODULE MCGovernance ----------------------------
(* Weights of two bits, so that a sum wraps; parameters with a repeated
   address, with a weight of 0 and with a threshold that one member reaches.
   The items are interchangeable. *)
EXTENDS Governance, TLC
CONSTANTS ann, ben, cat
Pairs ==
  {[threshold |-> 2, members |-> <<<<ann, 1>>, <<ben, 1>>, <<cat, 1>>>>],
   [threshold |-> 3, members |-> <<<<ann, 3>>, <<ann, 2>>, <<ben, 2>>, <<cat, 0>>>>]}
Items == Permutations(Item)
=============================================================================
