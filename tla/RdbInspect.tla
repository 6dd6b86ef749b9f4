----------------------------- MODULE RdbInspect -----------------------------
(***************************************************************************)
(* The scripts that the Inspector runs (internal/rdb/inspect.go): run,     *)
(* archive, delete and update tasks, remove and pause the queue.  They run *)
(* on the same keys as the scripts of RdbTasks and RdbGroups, at any time. *)
(***************************************************************************)
EXTENDS RdbTasks

\* Mutant: state pending and the reply of ZREM are not tested.
InNamedSetUntested(t) == StateOf(t) \notin {"active", Nil}

\* The task is in the zset that its state names.  A task that is in an
\* aggregation set is in no such zset and the scripts refuse it.
InNamedSet(t) ==
    \/ StateOf(t) = "scheduled" /\ scheduled[t] # Nil
    \/ StateOf(t) = "retry" /\ retry[t] # Nil
    \/ StateOf(t) = "archived" /\ archived[t] # Nil
    \/ StateOf(t) = "completed" /\ completed[t] # Nil
    \/ StateOf(t) = "aggregating" /\ GroupOf(t) # Nil /\ group[GroupOf(t)][t] # Nil

\* Mutant: no ZREM.
WithoutNothing(z, name, t) == z

\* ZREM from the zset that the state of t names.
Without(z, name, t) == IF StateOf(t) = name THEN ZRem(z, {t}) ELSE z

\* Mutant: the group stays listed.
LeaveGroupListed(t) ==
    /\ group' = IF StateOf(t) = "aggregating"
                THEN [group EXCEPT ![GroupOf(t)] = ZRem(group[GroupOf(t)], {t})] ELSE group
    /\ UNCHANGED groups

\* ZREM from the group of t, and SREM of a group that is then empty.
LeaveGroup(t) ==
    IF StateOf(t) = "aggregating"
    THEN LET g == GroupOf(t) IN
         /\ group' = [group EXCEPT ![g] = ZRem(group[g], {t})]
         /\ groups' = IF Members(group[g]) = {t} THEN groups \ {g} ELSE groups
    ELSE UNCHANGED <<group, groups>>

RunTask(t) ==
    /\ Exists(t) /\ InNamedSet(t)
    /\ scheduled' = Without(scheduled, "scheduled", t)
    /\ retry' = Without(retry, "retry", t)
    /\ archived' = Without(archived, "archived", t)
    /\ completed' = Without(completed, "completed", t)
    /\ LeaveGroup(t)
    /\ pending' \in PushOne(pending, t)
    /\ hash' = [hash EXCEPT ![t].state = "pending"]
    /\ UNCHANGED <<active, lease, aggset, aggsets, lock, paused, statVars>>

\* Every member of a zset is pushed to pending; the zset is deleted.
RunMoved(z) ==
    /\ pending' \in PushAll(pending, z, Members(z))
    /\ hash' = [t \in Task |-> IF z[t] # Nil THEN HSetState(t, "pending") ELSE hash[t]]
    /\ UNCHANGED <<active, lease, completed, aggset, aggsets, lock, paused, statVars>>

RunAllScheduledTasks ==
    /\ RunMoved(scheduled)
    /\ scheduled' = EmptyZ
    /\ UNCHANGED <<retry, archived, group, groups>>

RunAllRetryTasks ==
    /\ RunMoved(retry)
    /\ retry' = EmptyZ
    /\ UNCHANGED <<scheduled, archived, group, groups>>

RunAllArchivedTasks ==
    /\ RunMoved(archived)
    /\ archived' = EmptyZ
    /\ UNCHANGED <<scheduled, retry, group, groups>>

RunAllAggregatingTasks(g) ==
    /\ RunMoved(group[g])
    /\ group' = [group EXCEPT ![g] = EmptyZ]
    /\ groups' = groups \ {g}
    /\ UNCHANGED <<scheduled, retry, archived>>

-----------------------------------------------------------------------------
(* The Inspector's archive scripts trim the archived set like archiveCmd    *)
(* but leave the hashes of the trimmed tasks.                               *)

ArchiveMoved(ts, now) ==
    /\ \E gone \in Trims(ZAddAll(archived, ts, now), now) :
         archived' = ZRem(ZAddAll(archived, ts, now), gone)
    /\ hash' = [t \in Task |-> IF t \in ts THEN HSetState(t, "archived") ELSE hash[t]]
    /\ UNCHANGED <<active, lease, aggset, aggsets, lock, paused, statVars>>

ArchiveTask(t, now) ==
    /\ Exists(t)
    /\ StateOf(t) # "archived"
    /\ InNamedSet(t) \/ (StateOf(t) = "pending" /\ t \in Ids(pending))
    /\ pending' = IF StateOf(t) = "pending" THEN LRem(pending, t) ELSE pending
    /\ scheduled' = Without(scheduled, "scheduled", t)
    /\ retry' = Without(retry, "retry", t)
    /\ completed' = Without(completed, "completed", t)
    /\ LeaveGroup(t)
    /\ ArchiveMoved({t}, now)

ArchiveAllScheduledTasks(now) ==
    /\ ArchiveMoved(Members(scheduled), now)
    /\ scheduled' = EmptyZ
    /\ UNCHANGED <<pending, retry, completed, group, groups>>

ArchiveAllRetryTasks(now) ==
    /\ ArchiveMoved(Members(retry), now)
    /\ retry' = EmptyZ
    /\ UNCHANGED <<pending, scheduled, completed, group, groups>>

ArchiveAllPendingTasks(now) ==
    /\ ArchiveMoved(Ids(pending), now)
    /\ pending' = {}
    /\ UNCHANGED <<scheduled, retry, completed, group, groups>>

ArchiveAllAggregatingTasks(g, now) ==
    /\ ArchiveMoved(Members(group[g]), now)
    /\ group' = [group EXCEPT ![g] = EmptyZ]
    /\ groups' = groups \ {g}
    /\ UNCHANGED <<pending, scheduled, retry, completed>>

-----------------------------------------------------------------------------
\* Mutant: the state is not tested.
UpdateAnyTaskPayload(t, m) ==
    /\ Exists(t)
    /\ hash' = [hash EXCEPT ![t].msg = m]
    /\ UNCHANGED <<pending, active, lease, zsetVars, groupVars, lock, paused, statVars>>

\* A new payload for a scheduled task.  The message was read before, in a call
\* of its own, so m may come from an earlier task of the same ID.
UpdateTaskPayload(t, m) ==
    /\ Exists(t) /\ StateOf(t) = "scheduled"
    /\ hash' = [hash EXCEPT ![t].msg = m]
    /\ UNCHANGED <<pending, active, lease, zsetVars, groupVars, lock, paused, statVars>>

\* The locks named by the unique_key fields of ts and held by them are deleted.
ReleasedBy(ts) ==
    [k \in Key |-> IF \E t \in ts : lock[k] = t /\ Exists(t) /\ hash[t].unique_key = k
                 THEN Nil ELSE lock[k]]

DeleteTask(t) ==
    /\ Exists(t)
    /\ InNamedSet(t) \/ (StateOf(t) = "pending" /\ t \in Ids(pending))
    /\ pending' = IF StateOf(t) = "pending" THEN LRem(pending, t) ELSE pending
    /\ scheduled' = Without(scheduled, "scheduled", t)
    /\ retry' = Without(retry, "retry", t)
    /\ archived' = Without(archived, "archived", t)
    /\ completed' = Without(completed, "completed", t)
    /\ LeaveGroup(t)
    /\ lock' = ReleasedBy({t})
    /\ hash' = [hash EXCEPT ![t] = Nil]
    /\ UNCHANGED <<active, lease, aggset, aggsets, paused, statVars>>

\* Mutant: the hashes stay.
DeleteMovedOnly(ts) == UNCHANGED <<hash, active, lease, aggset, aggsets, paused, statVars>>

\* deleteAllCmd on one of the delayed, archived or completed sets.
DeleteMoved(ts) ==
    /\ hash' = [t \in Task |-> IF t \in ts THEN Nil ELSE hash[t]]
    /\ UNCHANGED <<active, lease, aggset, aggsets, paused, statVars>>

DeleteAllScheduledTasks ==
    /\ DeleteMoved(Members(scheduled))
    /\ lock' = ReleasedBy(Members(scheduled))
    /\ scheduled' = EmptyZ
    /\ UNCHANGED <<pending, retry, archived, completed, group, groups>>

DeleteAllRetryTasks ==
    /\ DeleteMoved(Members(retry))
    /\ lock' = ReleasedBy(Members(retry))
    /\ retry' = EmptyZ
    /\ UNCHANGED <<pending, scheduled, archived, completed, group, groups>>

DeleteAllArchivedTasks ==
    /\ DeleteMoved(Members(archived))
    /\ lock' = ReleasedBy(Members(archived))
    /\ archived' = EmptyZ
    /\ UNCHANGED <<pending, scheduled, retry, completed, group, groups>>

DeleteAllCompletedTasks ==
    /\ DeleteMoved(Members(completed))
    /\ lock' = ReleasedBy(Members(completed))
    /\ completed' = EmptyZ
    /\ UNCHANGED <<pending, scheduled, retry, archived, group, groups>>

\* The scripts for pending and for groups, and the removal of the queue,
\* release no lock.
DeleteAllPendingTasks ==
    /\ DeleteMoved(Ids(pending))
    /\ pending' = {}
    /\ UNCHANGED <<zsetVars, group, groups, lock>>

DeleteAllAggregatingTasks(g) ==
    /\ DeleteMoved(Members(group[g]))
    /\ group' = [group EXCEPT ![g] = EmptyZ]
    /\ groups' = groups \ {g}
    /\ UNCHANGED <<pending, zsetVars, lock>>

\* removeQueueForceCmd: refused while a task is active; completed and
\* aggregating tasks stay.
RemoveQueueForce ==
    /\ active = {}
    /\ hash' = [t \in Task |->
                  IF t \in Ids(pending) \/ scheduled[t] # Nil \/ retry[t] # Nil \/ archived[t] # Nil
                  THEN Nil ELSE hash[t]]
    /\ pending' = {}
    /\ scheduled' = EmptyZ
    /\ retry' = EmptyZ
    /\ archived' = EmptyZ
    /\ lease' = EmptyZ
    /\ UNCHANGED <<active, completed, groupVars, lock, paused, statVars>>

Pause ==
    /\ ~paused
    /\ paused' = TRUE
    /\ UNCHANGED <<hash, pending, active, lease, zsetVars, groupVars, lock, statVars>>

Unpause ==
    /\ paused
    /\ paused' = FALSE
    /\ UNCHANGED <<hash, pending, active, lease, zsetVars, groupVars, lock, statVars>>
=============================================================================
