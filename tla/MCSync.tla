------------------------------- MODULE MCSync -------------------------------
(* Model checking of Sync. *)
EXTENDS Sync, TLC

CONSTANTS p1, p2
StartAt == p1 :> 3 @@ p2 :> 4
StartLow == p1 :> 2 @@ p2 :> 3
StartAlone == p1 :> 2
=============================================================================
