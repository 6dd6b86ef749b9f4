-------------------------- MODULE MCReceiverTarget --------------------------
(* Small instances of ReceiverTarget for TLC. *)
EXTENDS ReceiverTarget, TLC

\* The servers are interchangeable.
ServerSymmetry == Permutations(Server)

=============================================================================
