---------------------------- MODULE MCAggregator ----------------------------
(* Small instances of Aggregator for TLC.                                   *)
EXTENDS Aggregator

MCMsg == {s : s \in SUBSET ClientTask}
MCUniqueKey == [m \in MCMsg |-> Nil]
=============================================================================
