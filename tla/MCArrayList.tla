----------------------------- MODULE MCArrayList ----------------------------
(* Four objects, two of them equal to each other.                          *)
EXTENDS ArrayList, TLC

CONSTANTS o1, o2, o3, o4

MCEqualTo == [x \in Objects |-> IF x \in {o1, o3} THEN {o1, o3} ELSE {x}]
=============================================================================
