----------------------------- MODULE FifoQueue -----------------------------
(***************************************************************************)
(* What the pending and active keys of a queue promise to the users of     *)
(* asynq: first in, first out.  New tasks go to the back, only the task at *)
(* the front is started, and a task that a shutting-down server gives back *)
(* is next in line.  Tasks may be taken out of the line anywhere.          *)
(***************************************************************************)
EXTENDS Integers, Sequences, SequencesExt

CONSTANT Task

VARIABLES
    line,       \* the tasks that wait, front first
    running     \* the tasks handed to a worker

Init == line = <<>> /\ running = {}

\* One or more tasks, in an order that depends on where they come from, join.
Join ==
    \E new \in UNION {SetToSeqs(ts) : ts \in SUBSET (Task \ (ToSet(line) \cup running))} :
        line' = line \o new /\ UNCHANGED running

Start ==
    /\ line # <<>>
    /\ line' = Tail(line)
    /\ running' = running \cup {Head(line)}

GiveBack ==
    \E t \in running : line' = <<t>> \o line /\ running' = running \ {t}

Finish ==
    \E t \in running : running' = running \ {t} /\ UNCHANGED line

\* The tasks at the places kept[1], kept[2], ... stay, in their order.
Withdraw ==
    \E n \in 0 .. Len(line) : \E kept \in [1 .. n -> 1 .. Len(line)] :
        /\ \A i, j \in 1 .. n : i < j => kept[i] < kept[j]
        /\ line' = [i \in 1 .. n |-> line[kept[i]]]
        /\ UNCHANGED running

Next == Join \/ Start \/ GiveBack \/ Finish \/ Withdraw

Spec == Init /\ [][Next]_<<line, running>>
=============================================================================
