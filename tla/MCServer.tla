------------------------------ MODULE MCServer ------------------------------
(* Small instances of Server for TLC.                                       *)
EXTENDS Server, TLC

CONSTANTS s1, s2, w1, w2

MCUniqueKey == [m \in Msg |-> Nil]
OneServer == [w \in Worker |-> s1]
Symmetry == Permutations(Worker)
TwoServers == [w \in Worker |-> IF w = w1 THEN s1 ELSE s2]
=============================================================================
