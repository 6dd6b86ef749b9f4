----------------------------- MODULE Aggregator -----------------------------
(***************************************************************************)
(* The aggregator (aggregator.go) of one or several servers on one queue,  *)
(* composed with the scripts on groups and aggregation sets, with clients  *)
(* that add tasks to groups and with the recoverer that reclaims sets.     *)
(*                                                                         *)
(* A check is a goroutine of aggregate; each of its calls is a step of its *)
(* own, and a call may fail, lose its reply or arrive after its caller     *)
(* gave up.  Times are relative to the clock, which Tick lowers them by,   *)
(* as in Server.  The message of an aggregated task is the set of tasks it *)
(* was made from; the message of a task of a client is {}.                 *)
(***************************************************************************)
EXTENDS RdbTasks, RdbGroups

CONSTANTS
    ClientTask,         \* IDs that clients add to groups, each once
    Check,              \* tokens of aggregator.sema, of all servers
    GroupMaxSize, GroupMaxDelay, GroupGracePeriod,  \* as in Config
    AggregationTimeout, \* aggregationTimeout
    MaxCheckAge,        \* bound: ticks from the start of a check to its calls
    MaxFaults           \* bound: crashes, failed calls and stalls

ASSUME AggregatorAssumption ==
    /\ ClientTask \subseteq Task
    /\ Msg = SUBSET ClientTask
    /\ \A m \in Msg : UniqueKey[m] = Nil
    /\ GroupMaxSize \in Nat /\ GroupMaxDelay \in Nat /\ GroupGracePeriod \in Nat
    /\ AggregationTimeout \in Nat \ {0}
    /\ MaxCheckAge \in Nat /\ MaxFaults \in Nat

VARIABLES
    added,              \* tasks that clients have added
    chk,                \* what each check knows
    inflight,           \* commands whose caller has given up on them
    faults              \* faults so far

aggVars == <<vars, added, chk, inflight, faults>>

\* Ages from which the criteria of the check no longer tell scores apart.
Oldest == -(GroupMaxDelay + GroupGracePeriod + MaxCheckAge)
Stages == {"idle", "list", "check", "read", "score", "enqueue", "delete"}
WithSet == {"read", "score", "enqueue", "delete"}
Idle == [stage |-> "idle", t |-> 0, todo |-> {}, g |-> Nil, set |-> Nil,
         tasks |-> {}, deadline |-> 0, slow |-> FALSE]
Commands == [op: {"enqueue", "delete"}, set: AggKey, tasks: SUBSET ClientTask]

\* A check knows its group and set from AggregationCheck on, its tasks and
\* the deadline of its context once it has read them.
AggregatorTypeOK ==
    /\ TypeOK
    /\ added \subseteq ClientTask
    /\ chk \in [Check -> [stage: Stages, t: (-MaxCheckAge) .. 0, todo: SUBSET Group,
                          g: Group \cup {Nil}, set: AggKey \cup {Nil}, tasks: SUBSET ClientTask,
                          deadline: 0 .. AggregationTimeout, slow: BOOLEAN]]
    /\ \A c \in Check : chk[c].stage \in WithSet => chk[c].set # Nil /\ chk[c].set[1] = chk[c].g
    /\ inflight \subseteq Commands
    /\ faults \in 0 .. MaxFaults

AggregatorInit ==
    /\ Init
    /\ added = {}
    /\ chk = [c \in Check |-> Idle]
    /\ inflight = {}
    /\ faults = 0

Fault == faults < MaxFaults /\ faults' = faults + 1
Set(c, r) == chk' = [chk EXCEPT ![c] = r]

\* The check is over with group g: on to the next one, or the token is released.
Continued(c, g) ==
    LET todo == chk[c].todo \ {g} IN
    IF todo = {} THEN Idle ELSE [Idle EXCEPT !.stage = "check", !.t = chk[c].t, !.todo = todo]

-----------------------------------------------------------------------------
(* Clients, and the ticker.                                                 *)

Add(t, g) ==
    /\ t \in ClientTask \ added
    /\ AddToGroup(t, {}, g, 0)
    /\ added' = added \cup {t}
    /\ UNCHANGED <<chk, inflight, faults>>

\* exec: a token is free.  Without one the round is skipped.
Exec(c) ==
    /\ chk[c].stage = "idle"
    /\ Set(c, [Idle EXCEPT !.stage = "list"])
    /\ UNCHANGED <<vars, added, inflight, faults>>

-----------------------------------------------------------------------------
(* aggregate: the calls of one check.                                       *)

ListGroups(c) ==
    /\ chk[c].stage = "list"
    /\ Set(c, IF groups = {} THEN Idle ELSE [chk[c] EXCEPT !.stage = "check", !.todo = groups])
    /\ UNCHANGED <<vars, added, inflight, faults>>

\* A UUID that was never used: unknown to Redis, to checks and to commands.
Fresh(k) ==
    /\ Members(aggset[k]) = {} /\ aggsets[k] = Nil
    /\ \A c \in Check : chk[c].set # k
    /\ \A m \in inflight : m.set # k

RunCheck(c, g) ==
    /\ \E s \in SetID : Fresh(<<g, s>>)
    /\ AggregationCheck(g, CHOOSE s \in SetID : Fresh(<<g, s>>), chk[c].t,
                        GroupMaxSize, GroupMaxDelay, GroupGracePeriod, AggregationTimeout)

\* The set that the step of RunCheck makes.
Made(g) == CHOOSE k \in AggKey : k[1] = g /\ aggsets[k] = Nil /\ aggsets'[k] # Nil

AggregationChecked(c, g) ==
    /\ chk[c].stage = "check" /\ g \in chk[c].todo
    /\ RunCheck(c, g)
    /\ Set(c, [chk[c] EXCEPT !.stage = "read", !.g = g, !.set = Made(g)])
    /\ UNCHANGED <<added, inflight, faults>>

\* No criterion is met.
NoAggregation(c, g) ==
    /\ chk[c].stage = "check" /\ g \in chk[c].todo
    /\ \/ Members(group[g]) = {}
       \/ ~(\/ SizeReached(g, GroupMaxSize) \/ DelayReached(g, chk[c].t, GroupMaxDelay)
            \/ GraceReached(g, chk[c].t, GroupGracePeriod))
    /\ Set(c, Continued(c, g))
    /\ UNCHANGED <<vars, added, inflight, faults>>

\* ReadAggregationSet is a script for the messages and a ZSCORE for the deadline.
ReadMessages(c) ==
    /\ chk[c].stage = "read"
    /\ Set(c, [chk[c] EXCEPT !.stage = "score", !.tasks = Members(aggset[chk[c].set])])
    /\ UNCHANGED <<vars, added, inflight, faults>>

\* Mutant: the context outlives the set.
ReadDeadlineLate(c) ==
    /\ chk[c].stage = "score"
    /\ LET d == aggsets[chk[c].set] IN
       Set(c, IF d = Nil THEN Continued(c, chk[c].g)
              ELSE [chk[c] EXCEPT !.stage = "enqueue", !.deadline = AggregationTimeout])
    /\ UNCHANGED <<vars, added, inflight, faults>>

ReadDeadline(c) ==
    /\ chk[c].stage = "score"
    /\ LET d == aggsets[chk[c].set] IN
       Set(c, IF d = Nil THEN Continued(c, chk[c].g)
              ELSE [chk[c] EXCEPT !.stage = "enqueue", !.deadline = IF d < 0 THEN 0 ELSE d])
    /\ UNCHANGED <<vars, added, inflight, faults>>

CtxDone(c) == chk[c].deadline = 0

\* The aggregate of ts, under an ID that is free, as EnqueueContext makes it.
EnqueueAggregate(ts) ==
    /\ \E a \in Task \ ClientTask : ~Exists(a)
    /\ Enqueue(CHOOSE a \in Task \ ClientTask : ~Exists(a), ts)

EnqueueContext(c) ==
    /\ chk[c].stage = "enqueue" /\ ~CtxDone(c)
    /\ EnqueueAggregate(chk[c].tasks)
    /\ Set(c, [chk[c] EXCEPT !.stage = "delete"])
    /\ UNCHANGED <<added, inflight, faults>>

\* Mutant: after a failed enqueue the set is deleted all the same.
EnqueueFailedOn(c) ==
    /\ chk[c].stage = "enqueue"
    /\ \/ CtxDone(c) /\ UNCHANGED faults
       \/ ~CtxDone(c) /\ Fault
    /\ Set(c, [chk[c] EXCEPT !.stage = "delete"])
    /\ UNCHANGED <<vars, added, inflight>>

\* The context is done, or the call fails or is refused.  The set stays.
EnqueueFailed(c) ==
    /\ chk[c].stage = "enqueue"
    /\ \/ CtxDone(c) /\ UNCHANGED faults
       \/ ~CtxDone(c) /\ Fault
    /\ Set(c, Continued(c, chk[c].g))
    /\ UNCHANGED <<vars, added, inflight>>

Delete(c) ==
    /\ chk[c].stage = "delete" /\ ~CtxDone(c)
    /\ DeleteAggregationSet(chk[c].set)
    /\ Set(c, Continued(c, chk[c].g))
    /\ UNCHANGED <<added, inflight, faults>>

\* Only logged.
DeleteFailed(c) ==
    /\ chk[c].stage = "delete"
    /\ \/ CtxDone(c) /\ UNCHANGED faults
       \/ ~CtxDone(c) /\ Fault
    /\ Set(c, Continued(c, chk[c].g))
    /\ UNCHANGED <<vars, added, inflight>>

-----------------------------------------------------------------------------
(* Faults.                                                                  *)

\* A call before the enqueue fails; AggregationCheck may have been run.
CallFailed(c) ==
    /\ Fault
    /\ \/ /\ chk[c].stage = "list"
          /\ Set(c, Idle)
          /\ UNCHANGED vars
       \/ \E g \in chk[c].todo :
            /\ chk[c].stage = "check"
            /\ UNCHANGED vars \/ RunCheck(c, g)
            /\ Set(c, Continued(c, g))
       \/ /\ chk[c].stage \in {"read", "score"}
          /\ Set(c, Continued(c, chk[c].g))
          /\ UNCHANGED vars
    /\ UNCHANGED <<added, inflight>>

\* The enqueue was run or the delete sent, and its caller saw an error.
ReplyLost(c) ==
    /\ chk[c].stage \in {"enqueue", "delete"} /\ ~CtxDone(c)
    /\ Fault
    /\ inflight' = inflight \cup {[op |-> chk[c].stage, set |-> chk[c].set, tasks |-> chk[c].tasks]}
    /\ Set(c, Continued(c, chk[c].g))
    /\ UNCHANGED <<vars, added>>

\* The server of the check dies.
Crash(c) ==
    /\ chk[c].stage # "idle"
    /\ Fault
    /\ Set(c, Idle)
    /\ UNCHANGED <<vars, added, inflight>>

\* The check, a call or the function of the user takes longer than the timeout.
Stall(c) ==
    /\ chk[c].stage \in WithSet /\ ~chk[c].slow
    /\ Fault
    /\ Set(c, [chk[c] EXCEPT !.slow = TRUE])
    /\ UNCHANGED <<vars, added, inflight>>

\* A command arrives after its caller gave up, however late.
Arrive(m) ==
    /\ m \in inflight
    /\ inflight' = inflight \ {m}
    /\ IF m.op = "enqueue" THEN EnqueueAggregate(m.tasks) ELSE DeleteAggregationSet(m.set)
    /\ UNCHANGED <<added, chk, faults>>

-----------------------------------------------------------------------------
(* The recoverer, and the clock.                                            *)

\* Mutant: the recoverer leaves aggregation sets alone.
ReclaimSkipped == UNCHANGED aggVars

Reclaim == ReclaimStaleAggregationSets(0) /\ UNCHANGED <<added, chk, inflight, faults>>

\* Without a fault a check ends before the deadline of its set.
Prompt(c) ==
    /\ chk[c].stage \in {"list", "check"} => chk[c].t > -MaxCheckAge
    /\ chk[c].stage \in WithSet /\ ~chk[c].slow => aggsets[chk[c].set] # 1
Lowered(x, least) == IF x = Nil THEN Nil ELSE IF x > least THEN x - 1 ELSE least
LoweredZ(z) == [t \in Task |-> Lowered(z[t], Oldest)]
Tick ==
    /\ \A c \in Check : Prompt(c)
    /\ group' = [g \in Group |-> LoweredZ(group[g])]
    /\ aggset' = [k \in AggKey |-> LoweredZ(aggset[k])]
    /\ aggsets' = [k \in AggKey |-> Lowered(aggsets[k], 0)]
    /\ chk' = [c \in Check |-> [chk[c] EXCEPT
                 !.t = IF chk[c].stage \in {"list", "check"} THEN chk[c].t - 1 ELSE chk[c].t,
                 !.deadline = Lowered(chk[c].deadline, 0)]]
    /\ UNCHANGED <<hash, pending, active, lease, zsetVars, groups, lock, paused, statVars,
                   added, inflight, faults>>

Steps(c) ==
    \/ ListGroups(c) \/ ReadMessages(c) \/ ReadDeadline(c)
    \/ \E g \in Group : AggregationChecked(c, g) \/ NoAggregation(c, g)
    \/ EnqueueContext(c) \/ EnqueueFailed(c) \/ Delete(c) \/ DeleteFailed(c)

AggregatorNext ==
    \/ \E t \in Task, g \in Group : Add(t, g)
    \/ \E c \in Check : Exec(c) \/ Steps(c)
    \/ \E c \in Check : CallFailed(c) \/ ReplyLost(c) \/ Crash(c) \/ Stall(c)
    \/ \E m \in Commands : Arrive(m)
    \/ Reclaim
    \/ Tick

AggregatorSpec == AggregatorInit /\ [][AggregatorNext]_aggVars

\* The goroutine of a check runs, the ticker and the recoverer's timer fire,
\* time passes.  Nothing obliges a client to add a task.
AggregatorFairSpec ==
    /\ AggregatorSpec
    /\ \A c \in Check : WF_aggVars(Steps(c)) /\ WF_aggVars(Exec(c))
    /\ WF_aggVars(Reclaim)
    /\ WF_aggVars(Tick)

-----------------------------------------------------------------------------
Aggregates == {a \in Task \ ClientTask : Exists(a)}
AggregatesOf(t) == {a \in Aggregates : t \in hash[a].msg}

\* A check whose context is not done owns its set: Redis holds exactly the tasks
\* that it has read, and no recoverer has put them back.  The two reads of
\* ReadAggregationSet and the reclaim are separate steps of two servers, and the
\* context ends when the set becomes stale.
OwnsSet ==
    \A c \in Check :
        chk[c].stage \in {"enqueue", "delete"} /\ ~CtxDone(c) =>
            /\ Members(aggset[chk[c].set]) = chk[c].tasks
            /\ chk[c].tasks # {}

\* A task of a client leaves Redis only after an aggregate with it was enqueued,
\* whichever calls fail, get lost or come late, and whoever dies.
NoneDropped == \A t \in added : ~Exists(t) => AggregatesOf(t) # {}

\* Every task that is added to a group is aggregated, unless it was reclaimed to
\* a group that is not listed (GroupsListed of Rdb).
Stranded(t) == \E g \in Group \ groups : group[g][t] # Nil
EveryAggregated == \A t \in ClientTask : t \in added ~> AggregatesOf(t) # {} \/ Stranded(t)
=============================================================================
