------------------------------ MODULE MCQueues ------------------------------
(***************************************************************************)
(* Small instances of Queues: half seconds, two goroutines that enqueue    *)
(* one *Task through one client, an inspector with a client of its own.    *)
(***************************************************************************)
EXTENDS Queues

CONSTANTS c1, c2, r1, r2, t1, t2, g1

MCRdbOf == [c \in Caller |-> r1]

\* Priorities whose smallest is not their gcd, and queues that are dropped.
MCConfigs == {[low |-> 4, high |-> 6], "low" :> 1 @@ "high" :> 0 @@ Blank :> 2}
MCOneConfig == {[low |-> 2, high |-> 1]}

\* Both goroutines use one ID, in one queue or in two.
MCTaskOpts == <<Opt("queue", "high"), Opt("taskID", t1)>>

\* Options that override others, a start inside a second, neither limit and both.
\* Those of c1 fit the spare capacity, those of c2 do not.
MCCallOpts ==
    c1 :> { <<Opt("unique", 2)>> } @@
    c2 :> { <<Opt("queue", "low"), Opt("processIn", 2), Opt("timeout", 4), Opt("timeout", 6),
              Opt("deadline", 7), Opt("retention", 2)>> }

\* One option each, and all of them fit the spare capacity.
MCSharedOpts == c1 :> { <<Opt("queue", "low")>> } @@ c2 :> { <<Opt("queue", "high")>> }

\* Less than a second, and none.
MCShortOpts == [c \in Caller |-> { <<Opt("timeout", 1)>>, <<Opt("timeout", 0)>> }]

\* Type names and patterns over a small alphabet.
MCPatterns == {<<1>>, <<1, 2>>, <<1, 2, 1>>}
MCTypeNames == {<<1, 1>>, <<1, 2>>, <<1, 2, 1, 1>>, <<2>>}
=============================================================================
