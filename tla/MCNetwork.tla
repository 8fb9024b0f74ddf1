------------------------------ MODULE MCNetwork ------------------------------
(* Two peers, of which one is known at the start, and one slot of each kind. *)
EXTENDS Network

CONSTANTS p1, p2

Known == <<p1>>
Floor == -3
Limit == -2
=============================================================================
