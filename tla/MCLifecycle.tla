---------------------------- MODULE MCLifecycle ----------------------------
(* Small instances of Lifecycle for TLC.                                    *)
EXTENDS Lifecycle, TLC

Symmetry == Permutations(Caller) \cup Permutations(Token)
=============================================================================
