--------------------------------- MODULE Rdb ---------------------------------
(***************************************************************************)
(* The Redis state of one asynq queue under every script of internal/rdb,  *)
(* run by any number of clients, servers and inspectors in any order, with *)
(* any clock reading.                                                      *)
(***************************************************************************)
EXTENDS RdbInspect, RdbGroups

CONSTANTS
    GroupMaxSize,       \* Config.GroupMaxSize, 0 for none
    GroupMaxDelay,      \* Config.GroupMaxDelay, 0 for none
    GroupGracePeriod,   \* Config.GroupGracePeriod
    BatchSize           \* janitor.batchSize

ASSUME GroupConfigAssumption ==
    /\ GroupMaxSize \in Nat
    /\ GroupMaxDelay \in Nat
    /\ GroupGracePeriod \in Nat \ {0}
    /\ BatchSize \in Nat \ {0}

\* client.Client: Enqueue and its variants, by the options of the call.
ClientNext ==
    \E t \in Task, m \in Msg :
        \/ UniqueKey[m] = Nil /\ Enqueue(t, m)
        \/ EnqueueUnique(t, m)
        \/ \E at \in Time : UniqueKey[m] = Nil /\ Schedule(t, m, at)
        \/ \E at \in Time : ScheduleUnique(t, m, at)
        \/ \E g \in Group, now \in Time : UniqueKey[m] = Nil /\ AddToGroup(t, m, g, now)
        \/ \E g \in Group, now \in Time : AddToGroupUnique(t, m, g, now)

\* processor, syncer, heartbeater and recoverer.  A call may come late, for a
\* task that another server has since settled or taken.
ExecutionNext ==
    \/ \E until \in Time : Dequeue(until)
    \/ \E t \in Task :
        \/ \E m \in Msg : Done(t, m)
        \/ \E m \in Msg, until \in Time : MarkAsComplete(t, m, until)
        \/ Requeue(t)
        \/ \E m \in Msg, at \in Time, isFailure \in BOOLEAN : Retry(t, m, at, isFailure)
        \/ \E m \in Msg, now \in Time : Archive(t, m, now)
        \/ WriteResult(t)
    \/ \E ts \in SUBSET Task, until \in Time : ExtendLease(ts, until)

\* forwarder, janitor, aggregator, recoverer, and Redis itself.
BackgroundNext ==
    \/ \E now \in Time : ForwardScheduled(now)
    \/ \E now \in Time : ForwardRetry(now)
    \/ \E now \in Time : DeleteExpiredCompletedTasks(now, BatchSize)
    \/ \E g \in Group, s \in SetID, now, deadline \in Time :
         AggregationCheck(g, s, now, GroupMaxSize, GroupMaxDelay, GroupGracePeriod, deadline)
    \/ \E k \in AggKey : DeleteAggregationSet(k)
    \/ \E now \in Time : ReclaimStaleAggregationSets(now)
    \/ \E k \in Key : LockExpire(k)

InspectorNext ==
    \/ \E t \in Task : RunTask(t)
    \/ \E t \in Task : DeleteTask(t)
    \/ \E t \in Task, now \in Time : ArchiveTask(t, now)
    \/ \E t \in Task, m \in Msg : UpdateTaskPayload(t, m)
    \/ RunAllScheduledTasks
    \/ RunAllRetryTasks
    \/ RunAllArchivedTasks
    \/ \E g \in Group : RunAllAggregatingTasks(g)
    \/ \E now \in Time : ArchiveAllScheduledTasks(now)
    \/ \E now \in Time : ArchiveAllRetryTasks(now)
    \/ \E now \in Time : ArchiveAllPendingTasks(now)
    \/ \E g \in Group, now \in Time : ArchiveAllAggregatingTasks(g, now)
    \/ DeleteAllScheduledTasks
    \/ DeleteAllRetryTasks
    \/ DeleteAllArchivedTasks
    \/ DeleteAllCompletedTasks
    \/ DeleteAllPendingTasks
    \/ \E g \in Group : DeleteAllAggregatingTasks(g)
    \/ RemoveQueueForce
    \/ Pause
    \/ Unpause

Next == ClientNext \/ ExecutionNext \/ BackgroundNext \/ InspectorNext

Spec == Init /\ [][Next]_vars

-----------------------------------------------------------------------------
(* Invariants.                                                              *)

\* Every ID filed in a list or set has a hash with the state of that list or
\* set, a message, and the group it waits in: the keys that each script updates
\* one by one agree after every script.  No task is filed under two states, so
\* none is run from pending while it also waits in retry.
HasState(t, s) == Exists(t) /\ hash[t].state = s /\ hash[t].msg # Nil

QueueIndex ==
    /\ \A e \in pending : HasState(e.id, "pending")
    /\ \A t \in active : HasState(t, "active")
    /\ \A t \in Task :
        /\ scheduled[t] # Nil => HasState(t, "scheduled")
        /\ retry[t] # Nil => HasState(t, "retry")
        /\ archived[t] # Nil => HasState(t, "archived")
        /\ completed[t] # Nil => HasState(t, "completed")
GroupIndex ==
    \A t \in Task :
        /\ \A g \in Group : group[g][t] # Nil =>
             HasState(t, "aggregating") /\ hash[t].group = g
        /\ \A k \in AggKey : aggset[k][t] # Nil =>
             HasState(t, "aggregating") /\ hash[t].group = k[1]
IndexMatchesState == QueueIndex /\ GroupIndex

\* A list may hold an ID twice, a queue must not: it would be run twice.
NoDuplicatePending ==
    \A e, f \in pending : e.id = f.id => e = f

\* A queue with tasks has a first one and a last one: the scripts of the default
\* queue never meet two members of the same score, which they would refuse
\* (QUEUE SCORE INVALID) for ever.
QueueServable == pending # {} => Heads(pending) # {} /\ Tails(pending) # {}

\* A task is active exactly while it has a lease: an active task without one
\* would never be recovered, and Done on it would lose it half-way.
LeaseMatchesActive == \A t \in Task : lease[t] # Nil <=> t \in active

\* A task in an aggregation set is in no other set and not in its group, and
\* the set has a deadline: it is aggregated once, and reclaimed if that fails.
AggregatedOnce ==
    \A k \in AggKey, t \in Task : aggset[k][t] # Nil =>
        /\ aggsets[k] # Nil
        /\ group[k[1]][t] = Nil
        /\ \A l \in AggKey : l # k => aggset[l][t] = Nil

\* No task is lost: one whose hash says that it waits or runs is filed where
\* the scripts look for it.  (Not so for archived: see ArchivedIsListed.)
Filed(t) ==
    /\ hash[t].state = "pending"     => t \in Ids(pending)
    /\ hash[t].state = "active"      => t \in active
    /\ hash[t].state = "scheduled"   => scheduled[t] # Nil
    /\ hash[t].state = "retry"       => retry[t] # Nil
    /\ hash[t].state = "completed"   => completed[t] # Nil
    /\ hash[t].state = "aggregating" => \/ \E g \in Group : group[g][t] # Nil
                                        \/ \E k \in AggKey : aggset[k][t] # Nil
NoTaskLost == \A t \in Task : Exists(t) => Filed(t)

\* Every add to archived trims it below the maximum size.
ArchiveBounded == Cardinality(Members(archived)) < MaxArchiveSize

-----------------------------------------------------------------------------
(* Action properties.                                                       *)

\* A uniqueness lock is never handed over, and is given up only by its TTL or
\* when its holder is completed or gone: a retried, requeued, archived or
\* reclaimed task keeps it.
LockGivenUp(k) ==
    /\ lock'[k] = Nil
    /\ \/ LockExpire(k)
       \/ hash'[lock[k]] = Nil
       \/ hash'[lock[k]].state = "completed"
LockStep ==
    \A k \in Key : lock[k] # Nil /\ lock'[k] # lock[k] => LockGivenUp(k)
LockDiscipline == [][LockStep]_vars

\* The totals move only when an execution ends, by one task at a time, and
\* a failure is counted as processed too: a repeated Done or Retry for a task
\* that is no longer active counts nothing.
CountedOnce ==
    [][<<processed, failed>>' # <<processed, failed>> =>
            /\ \E t \in active : active' = active \ {t}
            /\ failed' # failed =>
                 /\ processed' = Incr(processed)
                 /\ \E t \in active \ active' : StateOf(t)' \in {"retry", "archived"}]_vars

\* No inspector call touches a task that a worker is running, whatever else
\* it moves or deletes.
ActiveKept ==
    /\ active' = active /\ lease' = lease
    /\ \A t \in active : hash'[t] = hash[t]
ActiveUntouched == [][InspectorNext => ActiveKept]_vars

-----------------------------------------------------------------------------
(* What the code does not keep; see section 5 of the README.                *)

\* A task in archived state is listed there.
ArchivedIsListed == \A t \in Task : StateOf(t) = "archived" => archived[t] # Nil

\* ListGroups, from which the aggregator takes its groups, names every group
\* that has tasks.
GroupsListed == \A g \in Group : Members(group[g]) # {} => g \in groups

\* A lock, for which an enqueue is refused with ErrDuplicateTask, means that a task
\* with that key is in the queue.
LockMeansDuplicate ==
    \A k \in Key : lock[k] # Nil =>
        \E t \in Task : Exists(t) /\ hash[t].msg # Nil /\ UniqueKey[hash[t].msg] = k
=============================================================================
