------------------------------ MODULE RdbTasks ------------------------------
(***************************************************************************)
(* The scripts of internal/rdb that clients, servers, the forwarder, the   *)
(* recoverer and the janitor run on ordinary tasks: one action per script. *)
(* A call whose script replies with an error, a conflict or an empty       *)
(* result before its first write changes nothing and is no action here; a  *)
(* script that fails after a write keeps what it wrote, since Redis does   *)
(* not roll a script back.                                                 *)
(***************************************************************************)
EXTENDS RdbState

\* Create a hash for a task that has none and put it in pending.
Enqueue(t, m) ==
    /\ ~Exists(t)
    /\ hash' = [hash EXCEPT ![t] = NewHash(m, "pending")]
    /\ pending' \in PushOne(pending, t)
    /\ UNCHANGED <<active, lease, zsetVars, groupVars, lock, paused, statVars>>

\* SET NX of the uniqueness lock, then the task.  Outside the default queue
\* the lock is taken before the ID is tested, and stays when the ID is in use.
EnqueueUnique(t, m) ==
    LET k == UniqueKey[m] IN
    /\ k # Nil
    /\ lock[k] = Nil
    /\ Default => ~Exists(t)
    /\ lock' = [lock EXCEPT ![k] = t]
    /\ IF Exists(t)
       THEN UNCHANGED <<hash, pending>>
       ELSE /\ hash' = [hash EXCEPT ![t] =
                          [NewHash(m, "pending") EXCEPT !.unique_key = k]]
            /\ pending' \in PushOne(pending, t)
    /\ UNCHANGED <<active, lease, zsetVars, groupVars, paused, statVars>>

Schedule(t, m, at) ==
    /\ ~Exists(t)
    /\ hash' = [hash EXCEPT ![t] = NewHash(m, "scheduled")]
    /\ scheduled' = [scheduled EXCEPT ![t] = at]
    /\ UNCHANGED <<pending, active, lease, retry, archived, completed,
                   groupVars, lock, paused, statVars>>

ScheduleUnique(t, m, at) ==
    LET k == UniqueKey[m] IN
    /\ k # Nil
    /\ lock[k] = Nil
    /\ lock' = [lock EXCEPT ![k] = t]
    /\ IF Exists(t)
       THEN UNCHANGED <<hash, scheduled>>
       ELSE /\ hash' = [hash EXCEPT ![t] =
                          [NewHash(m, "scheduled") EXCEPT !.unique_key = k]]
            /\ scheduled' = [scheduled EXCEPT ![t] = at]
    /\ UNCHANGED <<pending, active, lease, retry, archived, completed,
                   groupVars, paused, statVars>>

\* The lock's TTL runs out (Redis, "EX" of the SET above).
LockExpire(k) ==
    /\ lock[k] # Nil
    /\ lock' = [lock EXCEPT ![k] = Nil]
    /\ UNCHANGED <<hash, pending, active, lease, zsetVars, groupVars, paused, statVars>>

\* Move the head of pending to active under a lease.  The script of the
\* default queue requires the message to be there.
Dequeue(leaseUntil) ==
    /\ ~paused
    /\ \E h \in Heads(pending) :
         LET t == h.id IN
         /\ Default => Exists(t) /\ hash[t].msg # Nil
         /\ pending' = pending \ {h}
         /\ active' = active \cup {t}
         /\ hash' = [hash EXCEPT ![t] = HSetState(t, "active")]
         /\ lease' = [lease EXCEPT ![t] = leaseUntil]
    /\ UNCHANGED <<zsetVars, groupVars, lock, paused, statVars>>

-----------------------------------------------------------------------------
(* The scripts that end an execution share their first two steps: remove    *)
(* the task from active, then its lease.  A task not in active is refused;  *)
(* one in active without a lease is refused after it was removed from       *)
(* active.                                                                  *)

\* Mutant: the lease stays.
LeaveActiveOnly(t) == t \in active /\ active' = active \ {t} /\ UNCHANGED lease

LeaveActive(t) ==
    /\ t \in active
    /\ active' = active \ {t}
    /\ lease' = [lease EXCEPT ![t] = Nil]

Leased(t) == lease[t] # Nil

Done(t, m) ==
    /\ LeaveActive(t)
    /\ IF Leased(t) /\ Exists(t)
       THEN /\ hash' = [hash EXCEPT ![t] = Nil]
            /\ lock' = Released(m, t)
            /\ CountProcessed
       ELSE UNCHANGED <<hash, lock, statVars>>
    /\ UNCHANGED <<pending, zsetVars, groupVars, paused>>

\* until: now + retention.  ZADD of a member that completed has already
\* updates its score and the script stops with INTERNAL.
MarkAsComplete(t, m, until) ==
    /\ LeaveActive(t)
    /\ completed' = IF Leased(t) THEN [completed EXCEPT ![t] = until] ELSE completed
    /\ IF Leased(t) /\ completed[t] = Nil
       THEN /\ hash' = [hash EXCEPT ![t] = HSetMsgState(t, m, "completed")]
            /\ lock' = Released(m, t)
            /\ CountProcessed
       ELSE UNCHANGED <<hash, lock, statVars>>
    /\ UNCHANGED <<pending, scheduled, retry, archived, groupVars, paused>>

\* Back to the head of pending.  The script of the default queue tests both
\* memberships and the score before it removes anything.
Requeue(t) ==
    /\ Default => Leased(t)
    /\ LeaveActive(t)
    /\ IF Leased(t)
       THEN /\ pending' \in PushFront(pending, t)
            /\ hash' = [hash EXCEPT ![t] = HSetState(t, "pending")]
       ELSE UNCHANGED <<pending, hash>>
    /\ UNCHANGED <<zsetVars, groupVars, lock, paused, statVars>>

Retry(t, m, at, isFailure) ==
    /\ LeaveActive(t)
    /\ IF Leased(t)
       THEN /\ retry' = [retry EXCEPT ![t] = at]
            /\ hash' = [hash EXCEPT ![t] = HSetMsgState(t, m, "retry")]
            /\ IF isFailure THEN CountFailed ELSE UNCHANGED statVars
       ELSE UNCHANGED <<retry, hash, statVars>>
    /\ UNCHANGED <<pending, scheduled, archived, completed, groupVars, lock, paused>>

\* Mutant: off by one, ZRANGE z 0 -MaxArchiveSize-1.
TrimsOneLess(z, now) ==
    LET old  == UpTo(z, now - ArchivedExpiration)
        left == Members(z) \ old
        n    == Cardinality(left) - MaxArchiveSize
    IN  IF n <= 0 THEN {old} ELSE {old \cup x : x \in LowestOf(z, left, n)}

\* The sets of archived members that a trim at time now may remove from z:
\* those no younger than the expiration, and of the rest the lowest ones down
\* to MaxArchiveSize - 1 (ZRANGE z 0 -MaxArchiveSize).
Trims(z, now) ==
    LET old  == UpTo(z, now - ArchivedExpiration)
        left == Members(z) \ old
        n    == Cardinality(left) - MaxArchiveSize + 1
    IN  IF n <= 0 THEN {old} ELSE {old \cup x : x \in LowestOf(z, left, n)}

\* The trimmed tasks are deleted, then the hash of t is written: when t itself
\* was trimmed the hash comes back with the message and the state only.
Archive(t, m, now) ==
    /\ LeaveActive(t)
    /\ IF Leased(t)
       THEN \E gone \in Trims([archived EXCEPT ![t] = now], now) :
              /\ archived' = ZRem([archived EXCEPT ![t] = now], gone)
              /\ hash' = [u \in Task |->
                    IF u = t THEN IF t \in gone THEN NewHash(m, "archived")
                                  ELSE HSetMsgState(t, m, "archived")
                    ELSE IF u \in gone THEN Nil ELSE hash[u]]
              /\ CountFailed
       ELSE UNCHANGED <<archived, hash, statVars>>
    /\ UNCHANGED <<pending, scheduled, retry, completed, groupVars, lock, paused>>

-----------------------------------------------------------------------------
(* One run of forwardCmd on a delayed set z: the due tasks of lowest score  *)
(* move to their group, if their hash names one, or to pending.  The group  *)
(* is not added to groups.                                                  *)

ForwardBatch(z, now) ==
    LET due == UpTo(z, now)
        n   == IF Default THEN 1 ELSE ForwardLimit
    IN  LowestOf(z, due, IF Cardinality(due) < n THEN Cardinality(due) ELSE n)

Grouped(ts) == {t \in ts : GroupOf(t) # Nil}

ForwardMoved(z, ts, now) ==
    /\ pending' \in PushAll(pending, z, ts \ Grouped(ts))
    /\ group' = [g \in Group |->
                    ZAddAll(group[g], {t \in ts : GroupOf(t) = g}, now)]
    /\ hash' = [t \in Task |->
                  IF t \in Grouped(ts) THEN HSetState(t, "aggregating")
                  ELSE IF t \in ts THEN HSetState(t, "pending") ELSE hash[t]]
    /\ UNCHANGED <<active, lease, archived, completed, groups, aggset, aggsets,
                   lock, paused, statVars>>

ForwardScheduled(now) ==
    \E ts \in ForwardBatch(scheduled, now) :
        /\ ts # {}
        /\ scheduled' = ZRem(scheduled, ts)
        /\ ForwardMoved(scheduled, ts, now)
        /\ UNCHANGED retry

ForwardRetry(now) ==
    \E ts \in ForwardBatch(retry, now) :
        /\ ts # {}
        /\ retry' = ZRem(retry, ts)
        /\ ForwardMoved(retry, ts, now)
        /\ UNCHANGED scheduled

\* ZADD XX: the score of a present member is replaced, whoever the lease
\* belongs to and even when the new expiry is earlier.
ExtendLease(ts, until) ==
    /\ lease' = [t \in Task |-> IF t \in ts /\ lease[t] # Nil THEN until ELSE lease[t]]
    /\ UNCHANGED <<hash, pending, active, zsetVars, groupVars, lock, paused, statVars>>

\* One batch of the janitor: expired completed tasks are deleted.
DeleteExpiredCompletedTasks(now, batchSize) ==
    LET due == UpTo(completed, now) IN
    \E ts \in LowestOf(completed, due,
                 IF Cardinality(due) < batchSize THEN Cardinality(due) ELSE batchSize) :
        /\ ts # {}
        /\ completed' = ZRem(completed, ts)
        /\ hash' = [t \in Task |-> IF t \in ts THEN Nil ELSE hash[t]]
        /\ UNCHANGED <<pending, active, lease, scheduled, retry, archived,
                       groupVars, lock, paused, statVars>>

\* HSET of the result field, whether or not the hash exists.
WriteResult(t) ==
    /\ ~Exists(t)
    /\ hash' = [hash EXCEPT ![t] = NewHash(Nil, Nil)]
    /\ UNCHANGED <<pending, active, lease, zsetVars, groupVars, lock, paused, statVars>>
=============================================================================
