------------------------------- MODULE MCRdb -------------------------------
(* Small instances of Rdb for TLC.                                          *)
EXTENDS RdbQueries, TLC

CONSTANTS plain, unique, k1

MCUniqueKey == [m \in Msg |-> IF m = unique THEN k1 ELSE Nil]

\* Task IDs and set IDs are interchangeable.
Symmetry == Permutations(Task) \cup Permutations(SetID)
=============================================================================
