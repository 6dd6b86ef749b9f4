---------------------------- MODULE MCSemaphore ----------------------------
(* A small instance of Semaphore for TLC.                                   *)
EXTENDS Semaphore

CONSTANTS t1, t2, t3, a1, b1, a2, a3

\* The first task is executed twice.
MCTaskOf == [e \in Exec |-> CASE e = a2 -> t2 [] e = a3 -> t3 [] OTHER -> t1]
=============================================================================
