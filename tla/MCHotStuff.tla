----------------------------- MODULE MCHotStuff -----------------------------
EXTENDS HotStuff

CONSTANTS n1, n2, n3
Members3 == <<n1, n2, n3>>
Weight3 == [n \in Range(Members3) |-> IF n = n1 THEN 2 ELSE 1]
=============================================================================
