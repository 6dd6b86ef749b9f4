----------------------------- MODULE RdbGroups -----------------------------
(***************************************************************************)
(* The scripts of internal/rdb behind task aggregation: tasks wait in a    *)
(* group, a check moves them to an aggregation set with a deadline, the    *)
(* aggregator deletes the set once it has enqueued the aggregate, and a    *)
(* set past its deadline is put back in its group.                         *)
(***************************************************************************)
EXTENDS RdbState

AddToGroup(t, m, g, now) ==
    /\ ~Exists(t)
    /\ hash' = [hash EXCEPT ![t] = [NewHash(m, "aggregating") EXCEPT !.group = g]]
    /\ group' = [group EXCEPT ![g][t] = now]
    /\ groups' = groups \cup {g}
    /\ UNCHANGED <<pending, active, lease, zsetVars, aggset, aggsets,
                   lock, paused, statVars>>

\* The lock is taken before the ID is tested; unique_key is not stored.
AddToGroupUnique(t, m, g, now) ==
    LET k == UniqueKey[m] IN
    /\ k # Nil
    /\ lock[k] = Nil
    /\ lock' = [lock EXCEPT ![k] = t]
    /\ IF Exists(t)
       THEN UNCHANGED <<hash, group, groups>>
       ELSE /\ hash' = [hash EXCEPT ![t] =
                          [NewHash(m, "aggregating") EXCEPT !.group = g]]
            /\ group' = [group EXCEPT ![g][t] = now]
            /\ groups' = groups \cup {g}
    /\ UNCHANGED <<pending, active, lease, zsetVars, aggset, aggsets, paused, statVars>>

\* The three criteria of aggregationCheckCmd; 0 disables size and delay.
SizeReached(g, maxSize) ==
    maxSize # 0 /\ Cardinality(Members(group[g])) >= maxSize
DelayReached(g, now, maxDelay) ==
    maxDelay # 0 /\ \E t \in Members(group[g]) : group[g][t] <= now - maxDelay
GraceReached(g, now, gracePeriod) ==
    \A t \in Members(group[g]) : group[g][t] <= now - gracePeriod

\* s is a fresh UUID: no key of that name exists.
AggregationCheck(g, s, now, maxSize, maxDelay, gracePeriod, deadline) ==
    LET k    == <<g, s>>
        size == Cardinality(Members(group[g]))
    IN
    /\ Members(aggset[k]) = {} /\ aggsets[k] = Nil
    /\ Members(group[g]) # {}
    /\ \/ SizeReached(g, maxSize)
       \/ DelayReached(g, now, maxDelay)
       \/ GraceReached(g, now, gracePeriod)
    /\ \E ts \in Lowest(group[g], IF maxSize = 0 \/ size < maxSize THEN size ELSE maxSize) :
         /\ aggset' = [aggset EXCEPT ![k] =
                          [t \in Task |-> IF t \in ts THEN group[g][t] ELSE @[t]]]
         /\ group' = [group EXCEPT ![g] = ZRem(group[g], ts)]
         /\ groups' = IF ts = Members(group[g]) THEN groups \ {g} ELSE groups
    /\ aggsets' = [aggsets EXCEPT ![k] = deadline]
    /\ UNCHANGED <<hash, pending, active, lease, zsetVars, lock, paused, statVars>>

\* Mutant: only the entry with the deadline is removed.
DeleteAggregationSetEntry(k) ==
    /\ aggsets' = [aggsets EXCEPT ![k] = Nil]
    /\ UNCHANGED <<hash, aggset, pending, active, lease, zsetVars, group, groups,
                   lock, paused, statVars>>

\* The tasks of the set are deleted with it.
DeleteAggregationSet(k) ==
    /\ hash' = [t \in Task |-> IF t \in Members(aggset[k]) THEN Nil ELSE hash[t]]
    /\ aggset' = [aggset EXCEPT ![k] = EmptyZ]
    /\ aggsets' = [aggsets EXCEPT ![k] = Nil]
    /\ UNCHANGED <<pending, active, lease, zsetVars, group, groups,
                   lock, paused, statVars>>

\* The sets past their deadline go back to their group, scores included.  The
\* group is not added to groups.
ReclaimStaleAggregationSets(now) ==
    LET stale == {k \in AggKey : aggsets[k] # Nil /\ aggsets[k] <= now}
        Sources(g, t) == {k \in stale : k[1] = g /\ aggset[k][t] # Nil}
    IN
    /\ stale # {}
    /\ group' = [g \in Group |-> [t \in Task |->
                    IF Sources(g, t) = {} THEN group[g][t]
                    ELSE aggset[CHOOSE k \in Sources(g, t) : TRUE][t]]]
    /\ aggset' = [k \in AggKey |-> IF k \in stale THEN EmptyZ ELSE aggset[k]]
    /\ aggsets' = [k \in AggKey |-> IF k \in stale THEN Nil ELSE aggsets[k]]
    /\ UNCHANGED <<hash, pending, active, lease, zsetVars, groups,
                   lock, paused, statVars>>
=============================================================================
