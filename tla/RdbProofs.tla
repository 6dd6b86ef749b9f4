----------------------------- MODULE RdbProofs -----------------------------
(***************************************************************************)
(* Proofs about Rdb, for every value of its constants.  IInv, the type     *)
(* invariant with the five invariants that agree on where a task is filed, *)
(* is inductive; none of the five is on its own: a script decides by the   *)
(* hash where to look for a task and by one list or set which hash to      *)
(* write.  There is one lemma per script.  Scripts that have the same      *)
(* effect (a new task, a set of waiting tasks moved or deleted) share a    *)
(* lemma about that effect.                                                *)
(***************************************************************************)
EXTENDS RdbQueries, FiniteSetTheorems, SequenceTheorems, WellFoundedInduction, TLAPS

-----------------------------------------------------------------------------
(* Facts about the Redis commands.                                          *)

\* What the properties need to know of a push: q is pending with the tasks ts,
\* which were not in it, added once each.
Pushed(q, l, ts) ==
    /\ q \subseteq Entry
    /\ l \subseteq q
    /\ \A e \in q : e \in l \/ e.id \in ts
    /\ \A t \in ts : \E e \in q : e.id = t
    /\ \A e, f \in q : e.id = f.id /\ e.id \in ts => e = f

\* The scores that pending may hold are integers.
LEMMA ScoresInt == Scores \subseteq Int
    BY BoundsAssumption DEF Scores

\* Clock readings are integers, so they can be scores.
LEMMA TimeInt == Time \subseteq Int
    BY BoundsAssumption DEF Time

\* One task that pending does not hold, added with any score.
LEMMA PushedOne ==
    ASSUME NEW l \in SUBSET Entry, NEW t \in Task, t \notin Ids(l), NEW s \in Int
    PROVE  Pushed(Cleared(l, {t}) \cup {[id |-> t, score |-> s]}, l, {t})
  <1>1. Cleared(l, {t}) = l
    BY DEF Cleared, Ids
  <1>2. \A e \in l : e.id # t
    BY DEF Ids
  <1>3. ASSUME NEW n \in Entry, n.id = t
        PROVE  Pushed(l \cup {n}, l, {t})
    BY <1>2, <1>3 DEF Pushed
  <1>4. [id |-> t, score |-> s] \in Entry
    BY DEF Entry
  <1> QED BY <1>1, <1>3, <1>4

\* LPUSH, or ZADD behind the tail, adds a task that pending does not hold once
\* and disturbs no other.
LEMMA PushOneFacts ==
    ASSUME NEW l \in SUBSET Entry, NEW t \in Task, t \notin Ids(l), NEW q \in PushOne(l, t)
    PROVE  Pushed(q, l, {t})
    BY ScoresInt, PushedOne DEF PushOne

\* The same for RPUSH, or ZADD in front of the head (Requeue).
LEMMA PushFrontFacts ==
    ASSUME NEW l \in SUBSET Entry, NEW t \in Task, t \notin Ids(l), NEW q \in PushFront(l, t)
    PROVE  Pushed(q, l, {t})
    BY ScoresInt, PushedOne DEF PushFront

\* The same for the scripts that push a whole set of tasks.
LEMMA PushAllFacts ==
    ASSUME NEW l \in SUBSET Entry, NEW z, NEW ts \in SUBSET Task, ts \cap Ids(l) = {},
           NEW q \in PushAll(l, z, ts)
    PROVE  Pushed(q, l, ts)
  <1>1. ASSUME NEW p \in [ts -> Scores]
        PROVE  Pushed(Cleared(l, ts) \cup {[id |-> u, score |-> p[u]] : u \in ts}, l, ts)
    <2> DEFINE New(u) == [id |-> u, score |-> p[u]]
    <2>1. Cleared(l, ts) = l
      BY DEF Cleared, Ids
    <2>2. \A u \in ts : New(u) \in Entry /\ New(u).id = u
      BY ScoresInt DEF Entry
    <2>3. \A e \in l : e.id \notin ts
      BY DEF Ids
    <2>4. {[id |-> u, score |-> p[u]] : u \in ts} = {New(u) : u \in ts}
      OBVIOUS
    <2> HIDE DEF New
    <2> QED BY <2>1, <2>2, <2>3, <2>4 DEF Pushed
  <1> QED BY <1>1 DEF PushAll, Positions

\* The zset commands return zsets.
LEMMA ZTypes ==
    ASSUME NEW z \in ZSet, NEW ts
    PROVE  /\ ZRem(z, ts) \in ZSet
           /\ \A s \in Int : ZAddAll(z, ts, s) \in ZSet
           /\ \A t \in Task : \A s \in Int \cup {Nil} : [z EXCEPT ![t] = s] \in ZSet
           /\ EmptyZ \in ZSet
    BY DEF ZRem, ZAddAll, EmptyZ, ZSet

\* HSET of the state keeps the message and the group of an existing hash.
LEMMA HSetFacts ==
    ASSUME TypeOK, NEW t \in Task, Exists(t), NEW s \in States
    PROVE  LET n == HSetState(t, s) IN
           n \in Hash /\ n.state = s /\ n.msg = hash[t].msg /\ n.group = hash[t].group
    BY DEF TypeOK, Exists, HSetState, Hash

\* HSET of message and state keeps the group of an existing hash.
LEMMA HSetMsgFacts ==
    ASSUME TypeOK, NEW t \in Task, Exists(t), NEW m \in Msg, NEW s \in States
    PROVE  LET n == HSetMsgState(t, m, s) IN
           n \in Hash /\ n.state = s /\ n.msg = m /\ n.group = hash[t].group
  <1>1. hash[t] \in Hash
    BY DEF TypeOK, Exists
  <1>2. ASSUME NEW h \in Hash
        PROVE  LET n == [h EXCEPT !.state = s, !.msg = m] IN
               n \in Hash /\ n.state = s /\ n.msg = m /\ n.group = h.group
    BY DEF Hash
  <1> QED BY <1>1, <1>2 DEF HSetMsgState

\* A new hash is well formed.
LEMMA NewHashFacts ==
    ASSUME NEW m \in Msg, NEW s \in States
    PROVE  LET n == NewHash(m, s) IN n \in Hash /\ n.state = s /\ n.msg = m
    BY DEF Hash, NewHash

\* The totals stay within an int64, whichever way a script advances them.
LEMMA CountTypes ==
    ASSUME TypeOK, CountProcessed \/ CountFailed \/ UNCHANGED statVars
    PROVE  processed' \in 0 .. MaxCount /\ failed' \in 0 .. MaxCount
    BY BoundsAssumption DEF TypeOK, CountProcessed, CountFailed, FailedAfter, Incr, statVars

\* Releasing locks leaves a table of locks.
LEMMA ReleasedTypes ==
    ASSUME TypeOK
    PROVE  /\ \A m, t : Released(m, t) \in [Key -> Task \cup {Nil}]
           /\ \A ts : ReleasedBy(ts) \in [Key -> Task \cup {Nil}]
    BY DEF TypeOK, Released, ReleasedBy

-----------------------------------------------------------------------------
(* The inductive invariant.                                                 *)

Consistent ==
    /\ IndexMatchesState
    /\ NoDuplicatePending
    /\ LeaseMatchesActive
    /\ AggregatedOnce
    /\ NoTaskLost
IInv == TypeOK /\ Consistent

\* A step that changes nothing but locks (LockExpire, or a unique enqueue that
\* meets an ID in use) keeps the invariant.
LEMMA LockOnlyInv ==
    ASSUME IInv, lock' \in [Key -> Task \cup {Nil}],
           UNCHANGED <<hash, pending, active, lease, scheduled, retry, archived, completed,
                        group, groups, aggset, aggsets, paused, processed, failed>>
    PROVE  IInv'
  <1> USE NilAssumption DEF IInv, Consistent, IndexMatchesState, zsetVars, groupVars, statVars,
          Exists, HasState, Members
  <1>t. TypeOK'
    BY DEF TypeOK
  <1>q. QueueIndex'
    BY DEF TypeOK, QueueIndex, Entry
  <1>g. GroupIndex'
    BY DEF TypeOK, QueueIndex, GroupIndex, Entry
  <1>d. NoDuplicatePending'
    BY DEF NoDuplicatePending
  <1>l. LeaseMatchesActive'
    BY DEF TypeOK, LeaseMatchesActive
  <1>a. AggregatedOnce'
    BY DEF TypeOK, AggregatedOnce, GroupIndex
  <1>n. NoTaskLost'
    BY DEF TypeOK, NoTaskLost, Filed, QueueIndex, GroupIndex, Ids
  <1> QED BY <1>t, <1>q, <1>g, <1>d, <1>l, <1>a, <1>n

\* A new task in pending keeps the invariant.
LEMMA NewPendingInv ==
    ASSUME IInv, NEW t \in Task, NEW n \in Hash, ~Exists(t),
           n.state = "pending", n.msg # Nil,
           hash' = [hash EXCEPT ![t] = n],
           lock' \in [Key -> Task \cup {Nil}],
           pending' \in PushOne(pending, t),
           UNCHANGED <<active, lease, scheduled, retry, archived, completed,
                        group, groups, aggset, aggsets, paused, processed, failed>>
    PROVE  IInv'
  <1> USE NilAssumption DEF IInv, Consistent, IndexMatchesState, zsetVars, groupVars, statVars,
          Exists, HasState, Members
  <1>1. t \notin Ids(pending)
    BY DEF QueueIndex, Ids
  <1>2. Pushed(pending', pending, {t})
    BY <1>1, PushOneFacts DEF TypeOK
  <1>t. TypeOK'
    BY <1>2 DEF TypeOK, Pushed
  <1>q. QueueIndex'
    BY <1>2 DEF TypeOK, QueueIndex, Pushed, Entry
  <1>g. GroupIndex'
    BY <1>2 DEF TypeOK, QueueIndex, GroupIndex, Pushed, Entry
  <1>d. NoDuplicatePending'
    BY <1>2 DEF NoDuplicatePending, Pushed
  <1>l. LeaseMatchesActive'
    BY <1>2 DEF TypeOK, LeaseMatchesActive
  <1>a. AggregatedOnce'
    BY <1>2 DEF TypeOK, AggregatedOnce, GroupIndex
  <1>n. NoTaskLost'
    BY <1>2 DEF TypeOK, NoTaskLost, Filed, QueueIndex, GroupIndex, Pushed, Ids
  <1> QED BY <1>t, <1>q, <1>g, <1>d, <1>l, <1>a, <1>n

\* A new task in scheduled keeps the invariant.
LEMMA NewScheduledInv ==
    ASSUME IInv, NEW t \in Task, NEW n \in Hash, ~Exists(t),
           n.state = "scheduled", n.msg # Nil,
           hash' = [hash EXCEPT ![t] = n],
           lock' \in [Key -> Task \cup {Nil}],
           NEW at \in Int, scheduled' = [scheduled EXCEPT ![t] = at],
           UNCHANGED <<pending, active, lease, retry, archived, completed,
                        group, groups, aggset, aggsets, paused, processed, failed>>
    PROVE  IInv'
  <1> USE NilAssumption DEF IInv, Consistent, IndexMatchesState, zsetVars, groupVars, statVars,
          Exists, HasState, Members, ZSet
  <1>t. TypeOK'
    BY DEF TypeOK
  <1>q. QueueIndex'
    BY DEF TypeOK, QueueIndex, Entry
  <1>g. GroupIndex'
    BY DEF TypeOK, QueueIndex, GroupIndex, Entry
  <1>d. NoDuplicatePending'
    BY DEF NoDuplicatePending
  <1>l. LeaseMatchesActive'
    BY DEF TypeOK, LeaseMatchesActive
  <1>a. AggregatedOnce'
    BY DEF TypeOK, AggregatedOnce, GroupIndex
  <1>n. NoTaskLost'
    BY DEF TypeOK, NoTaskLost, Filed, QueueIndex, GroupIndex, Ids
  <1> QED BY <1>t, <1>q, <1>g, <1>d, <1>l, <1>a, <1>n

\* A new task in a group keeps the invariant.
LEMMA NewGroupedInv ==
    ASSUME IInv, NEW t \in Task, NEW n \in Hash, ~Exists(t),
           n.state = "aggregating", n.msg # Nil,
           hash' = [hash EXCEPT ![t] = n],
           lock' \in [Key -> Task \cup {Nil}],
           NEW g \in Group, n.group = g, NEW at \in Int,
           group' = [group EXCEPT ![g] = [@ EXCEPT ![t] = at]], groups' \in SUBSET Group,
           UNCHANGED <<pending, active, lease, scheduled, retry, archived, completed,
                        aggset, aggsets, paused, processed, failed>>
    PROVE  IInv'
  <1> USE NilAssumption DEF IInv, Consistent, IndexMatchesState, zsetVars, groupVars, statVars,
          Exists, HasState, Members, ZSet
  <1>1. \A h \in Group, u \in Task :
          group'[h][u] = IF h = g /\ u = t THEN at ELSE group[h][u]
    BY DEF TypeOK
  <1>t. TypeOK'
    BY DEF TypeOK
  <1>q. QueueIndex'
    BY DEF TypeOK, QueueIndex, Entry
  <1>g. GroupIndex'
    BY DEF TypeOK, QueueIndex, GroupIndex, Entry
  <1>d. NoDuplicatePending'
    BY DEF NoDuplicatePending
  <1>l. LeaseMatchesActive'
    BY DEF TypeOK, LeaseMatchesActive
  <1>a. AggregatedOnce'
    BY DEF TypeOK, AggregatedOnce, GroupIndex
  <1>n. NoTaskLost'
    BY <1>1 DEF TypeOK, NoTaskLost, Filed, QueueIndex, GroupIndex, Ids
  <1> QED BY <1>t, <1>q, <1>g, <1>d, <1>l, <1>a, <1>n

\* enqueueCmd keeps the invariant.
LEMMA EnqueueInv ==
    ASSUME IInv, NEW t \in Task, NEW m \in Msg, Enqueue(t, m)
    PROVE  IInv'
  <1>1. NewHash(m, "pending") \in Hash
    BY NewHashFacts DEF States
  <1>2. lock' \in [Key -> Task \cup {Nil}]
    BY DEF Enqueue, IInv, TypeOK
  <1> QED
    BY <1>1, <1>2, NilAssumption, NewPendingInv
       DEF Enqueue, NewHash, zsetVars, groupVars, statVars

\* enqueueUniqueCmd keeps the invariant, also when it stops after the lock.
LEMMA EnqueueUniqueInv ==
    ASSUME IInv, NEW t \in Task, NEW m \in Msg, EnqueueUnique(t, m)
    PROVE  IInv'
  <1> DEFINE n == [NewHash(m, "pending") EXCEPT !.unique_key = UniqueKey[m]]
  <1>1. UniqueKey[m] \in Key
    BY UniqueKeyAssumption DEF EnqueueUnique
  <1>2. n \in Hash /\ n.state = "pending" /\ n.msg # Nil
    BY <1>1, NilAssumption DEF NewHash, Hash, States
  <1>3. lock' \in [Key -> Task \cup {Nil}]
    BY <1>1 DEF EnqueueUnique, IInv, TypeOK
  <1>4. CASE Exists(t)
    BY <1>3, <1>4, LockOnlyInv DEF EnqueueUnique, zsetVars, groupVars, statVars
  <1>5. CASE ~Exists(t)
    <2>1. hash' = [hash EXCEPT ![t] = n]
      BY <1>5 DEF EnqueueUnique
    <2> HIDE DEF n
    <2> QED BY <1>2, <1>3, <1>5, <2>1, NewPendingInv, TimeInt
            DEF EnqueueUnique, zsetVars, groupVars, statVars, IInv, TypeOK
  <1> QED BY <1>4, <1>5

\* scheduleCmd keeps the invariant.
LEMMA ScheduleInv ==
    ASSUME IInv, NEW t \in Task, NEW m \in Msg, NEW at \in Time, Schedule(t, m, at)
    PROVE  IInv'
  <1>1. NewHash(m, "scheduled") \in Hash
    BY NewHashFacts DEF States
  <1>2. lock' \in [Key -> Task \cup {Nil}]
    BY DEF Schedule, IInv, TypeOK
  <1> QED
    BY <1>1, <1>2, NilAssumption, NewScheduledInv, TimeInt
       DEF Schedule, NewHash, groupVars, statVars

\* scheduleUniqueCmd keeps the invariant, also when it stops after the lock.
LEMMA ScheduleUniqueInv ==
    ASSUME IInv, NEW t \in Task, NEW m \in Msg, NEW at \in Time, ScheduleUnique(t, m, at)
    PROVE  IInv'
  <1> DEFINE n == [NewHash(m, "scheduled") EXCEPT !.unique_key = UniqueKey[m]]
  <1>1. UniqueKey[m] \in Key
    BY UniqueKeyAssumption DEF ScheduleUnique
  <1>2. n \in Hash /\ n.state = "scheduled" /\ n.msg # Nil
    BY <1>1, NilAssumption DEF NewHash, Hash, States
  <1>3. lock' \in [Key -> Task \cup {Nil}]
    BY <1>1 DEF ScheduleUnique, IInv, TypeOK
  <1>4. CASE Exists(t)
    BY <1>3, <1>4, LockOnlyInv DEF ScheduleUnique, zsetVars, groupVars, statVars
  <1>5. CASE ~Exists(t)
    <2>1. hash' = [hash EXCEPT ![t] = n]
      BY <1>5 DEF ScheduleUnique
    <2> HIDE DEF n
    <2> QED BY <1>2, <1>3, <1>5, <2>1, NewScheduledInv, TimeInt
            DEF ScheduleUnique, zsetVars, groupVars, statVars, IInv, TypeOK
  <1> QED BY <1>4, <1>5

\* addToGroupCmd keeps the invariant.
LEMMA AddToGroupInv ==
    ASSUME IInv, NEW t \in Task, NEW m \in Msg, NEW g \in Group, NEW now \in Time,
           AddToGroup(t, m, g, now)
    PROVE  IInv'
  <1> DEFINE n == [NewHash(m, "aggregating") EXCEPT !.group = g]
  <1>1. n \in Hash /\ n.state = "aggregating" /\ n.msg # Nil /\ n.group = g
    BY NilAssumption DEF NewHash, Hash, States
  <1>2. lock' \in [Key -> Task \cup {Nil}]
    BY DEF AddToGroup, IInv, TypeOK
  <1>3. hash' = [hash EXCEPT ![t] = n]
    BY DEF AddToGroup
  <1> HIDE DEF n
  <1> QED BY <1>1, <1>2, <1>3, NewGroupedInv, TimeInt
          DEF AddToGroup, zsetVars, statVars, IInv, TypeOK

\* addToGroupUniqueCmd keeps the invariant, also when it stops after the lock.
LEMMA AddToGroupUniqueInv ==
    ASSUME IInv, NEW t \in Task, NEW m \in Msg, NEW g \in Group, NEW now \in Time,
           AddToGroupUnique(t, m, g, now)
    PROVE  IInv'
  <1> DEFINE n == [NewHash(m, "aggregating") EXCEPT !.group = g]
  <1>1. UniqueKey[m] \in Key
    BY UniqueKeyAssumption DEF AddToGroupUnique
  <1>2. n \in Hash /\ n.state = "aggregating" /\ n.msg # Nil /\ n.group = g
    BY <1>1, NilAssumption DEF NewHash, Hash, States
  <1>3. lock' \in [Key -> Task \cup {Nil}]
    BY <1>1 DEF AddToGroupUnique, IInv, TypeOK
  <1>4. CASE Exists(t)
    BY <1>3, <1>4, LockOnlyInv DEF AddToGroupUnique, zsetVars, groupVars, statVars
  <1>5. CASE ~Exists(t)
    <2>1. hash' = [hash EXCEPT ![t] = n]
      BY <1>5 DEF AddToGroupUnique
    <2>2. /\ group' = [group EXCEPT ![g] = [@ EXCEPT ![t] = now]]
          /\ groups' \in SUBSET Group
          /\ UNCHANGED <<pending, active, lease, scheduled, retry, archived, completed,
                         aggset, aggsets, paused, processed, failed>>
      BY <1>5 DEF AddToGroupUnique, zsetVars, statVars, IInv, TypeOK
    <2> HIDE DEF n
    <2> QED BY <1>2, <1>3, <1>5, <2>1, <2>2, NewGroupedInv, TimeInt
  <1> QED BY <1>4, <1>5

\* The expiry of a lock keeps the invariant.
LEMMA LockExpireInv ==
    ASSUME IInv, NEW k \in Key, LockExpire(k)
    PROVE  IInv'
    BY LockOnlyInv DEF LockExpire, zsetVars, groupVars, statVars, IInv, TypeOK

\* A task whose hash names a state is in no list or set of another state.
LEMMA FiledOnce ==
    ASSUME IInv, NEW t \in Task, NEW s, HasState(t, s)
    PROVE  /\ s # "pending" => \A e \in pending : e.id # t
           /\ s # "active" => t \notin active /\ lease[t] = Nil
           /\ s # "scheduled" => scheduled[t] = Nil
           /\ s # "retry" => retry[t] = Nil
           /\ s # "archived" => archived[t] = Nil
           /\ s # "completed" => completed[t] = Nil
           /\ s # "aggregating" => /\ \A g \in Group : group[g][t] = Nil
                                   /\ \A k \in AggKey : aggset[k][t] = Nil
    BY DEF IInv, TypeOK, Consistent, IndexMatchesState, QueueIndex, GroupIndex,
           LeaseMatchesActive, HasState, Members

\* dequeueCmd keeps the invariant: the head of pending is an existing task in
\* state pending, filed once.
LEMMA DequeueInv ==
    ASSUME IInv, NEW until \in Int, Dequeue(until)
    PROVE  IInv'
  <1> USE NilAssumption DEF IInv, Consistent, IndexMatchesState, zsetVars, groupVars, statVars,
          Exists, HasState, Members, ZSet
  <1>1. PICK h \in Heads(pending) :
           /\ pending' = pending \ {h}
           /\ active' = active \cup {h.id}
           /\ hash' = [hash EXCEPT ![h.id] = HSetState(h.id, "active")]
           /\ lease' = [lease EXCEPT ![h.id] = until]
    BY DEF Dequeue
  <1>2. h \in pending /\ h.id \in Task
    BY DEF Heads, TypeOK, Entry
  <1>3. HasState(h.id, "pending")
    BY <1>2 DEF QueueIndex
  <1>4. /\ hash'[h.id] \in Hash /\ hash'[h.id].state = "active"
        /\ hash'[h.id].msg = hash[h.id].msg
        /\ \A u \in Task \ {h.id} : hash'[u] = hash[u]
        /\ hash' \in [Task -> Hash \cup {Nil}]
    BY <1>1, <1>2, <1>3, HSetFacts DEF States, TypeOK
  <1>5. UNCHANGED <<zsetVars, groupVars, lock, paused, statVars>>
    BY DEF Dequeue
  <1>6. \A e \in pending \ {h} : e.id # h.id
    BY <1>2 DEF NoDuplicatePending
  <1>t. TypeOK'
    BY <1>1, <1>2, <1>3, <1>4, <1>5, <1>6, TimeInt DEF TypeOK
  <1>q. QueueIndex'
    BY <1>1, <1>2, <1>3, <1>4, <1>5, <1>6, TimeInt DEF TypeOK, QueueIndex, Entry
  <1>g. GroupIndex'
    BY <1>1, <1>2, <1>3, <1>4, <1>5, <1>6, TimeInt DEF TypeOK, QueueIndex, GroupIndex, Entry
  <1>d. NoDuplicatePending'
    BY <1>1, <1>2, <1>3, <1>4, <1>5, <1>6, TimeInt DEF NoDuplicatePending
  <1>l. LeaseMatchesActive'
    BY <1>1, <1>2, <1>3, <1>4, <1>5, <1>6, TimeInt DEF TypeOK, LeaseMatchesActive
  <1>a. AggregatedOnce'
    BY <1>1, <1>2, <1>3, <1>4, <1>5, <1>6, TimeInt DEF TypeOK, AggregatedOnce, GroupIndex
  <1>n. NoTaskLost'
    BY <1>1, <1>2, <1>3, <1>4, <1>5, <1>6, TimeInt
       DEF TypeOK, NoTaskLost, Filed, QueueIndex, GroupIndex, Ids
  <1> QED BY <1>t, <1>q, <1>g, <1>d, <1>l, <1>a, <1>n

\* doneCmd and doneUniqueCmd keep the invariant: an active task has a lease, so
\* the script never stops half-way.
LEMMA DoneInv ==
    ASSUME IInv, NEW t \in Task, NEW m \in Msg, Done(t, m)
    PROVE  IInv'
  <1> USE NilAssumption DEF IInv, Consistent, IndexMatchesState, zsetVars, groupVars, statVars,
          Exists, HasState, Members, ZSet
  <1>1. /\ t \in active /\ t \in Task /\ HasState(t, "active") /\ Leased(t)
        /\ active' = active \ {t}
        /\ lease' = [lease EXCEPT ![t] = Nil]
    BY DEF Done, LeaveActive, QueueIndex, LeaseMatchesActive, TypeOK, Leased
  <1>o. /\ \A e \in pending : e.id # t
        /\ scheduled[t] = Nil /\ retry[t] = Nil /\ archived[t] = Nil /\ completed[t] = Nil
        /\ \A g \in Group : group[g][t] = Nil
        /\ \A k \in AggKey : aggset[k][t] = Nil
    BY <1>1, FiledOnce
  <1>2. hash' = [hash EXCEPT ![t] = Nil]
    BY <1>1 DEF Done
  <1>3. lock' \in [Key -> Task \cup {Nil}] /\ UNCHANGED <<pending, zsetVars, groupVars, paused>>
    BY <1>1, ReleasedTypes DEF Done
  <1>4. processed' \in 0 .. MaxCount /\ failed' \in 0 .. MaxCount
    BY <1>1, CountTypes DEF Done
  <1>t. TypeOK'
    BY <1>1, <1>o, <1>2, <1>3, <1>4, TimeInt DEF TypeOK
  <1>q. QueueIndex'
    BY <1>1, <1>o, <1>2, <1>3, <1>4, TimeInt DEF TypeOK, QueueIndex, Entry
  <1>g. GroupIndex'
    BY <1>1, <1>o, <1>2, <1>3, <1>4, TimeInt DEF TypeOK, QueueIndex, GroupIndex, Entry
  <1>d. NoDuplicatePending'
    BY <1>1, <1>o, <1>2, <1>3, <1>4, TimeInt DEF NoDuplicatePending
  <1>l. LeaseMatchesActive'
    BY <1>1, <1>o, <1>2, <1>3, <1>4, TimeInt DEF TypeOK, LeaseMatchesActive
  <1>a. AggregatedOnce'
    BY <1>1, <1>o, <1>2, <1>3, <1>4, TimeInt DEF TypeOK, AggregatedOnce, GroupIndex
  <1>n. NoTaskLost'
    BY <1>1, <1>o, <1>2, <1>3, <1>4, TimeInt
       DEF TypeOK, NoTaskLost, Filed, QueueIndex, GroupIndex, Ids
  <1> QED BY <1>t, <1>q, <1>g, <1>d, <1>l, <1>a, <1>n

\* markAsCompleteCmd keeps the invariant: an active task is not in completed, so
\* the ZADD never updates.
LEMMA MarkAsCompleteInv ==
    ASSUME IInv, NEW t \in Task, NEW m \in Msg, NEW until \in Int, MarkAsComplete(t, m, until)
    PROVE  IInv'
  <1> USE NilAssumption DEF IInv, Consistent, IndexMatchesState, zsetVars, groupVars, statVars,
          Exists, HasState, Members, ZSet
  <1>1. /\ t \in active /\ t \in Task /\ HasState(t, "active") /\ Leased(t)
        /\ active' = active \ {t}
        /\ lease' = [lease EXCEPT ![t] = Nil]
    BY DEF MarkAsComplete, LeaveActive, QueueIndex, LeaseMatchesActive, TypeOK, Leased
  <1>o. /\ \A e \in pending : e.id # t
        /\ scheduled[t] = Nil /\ retry[t] = Nil /\ archived[t] = Nil /\ completed[t] = Nil
        /\ \A g \in Group : group[g][t] = Nil
        /\ \A k \in AggKey : aggset[k][t] = Nil
    BY <1>1, FiledOnce
  <1>2. /\ completed' = [completed EXCEPT ![t] = until]
        /\ hash' \in [Task -> Hash \cup {Nil}]
        /\ HasState(t, "completed")'
        /\ \A u \in Task \ {t} : hash'[u] = hash[u]
    <2>1. completed[t] = Nil
      BY <1>1 DEF QueueIndex
    <2>2. hash' = [hash EXCEPT ![t] = HSetMsgState(t, m, "completed")]
      BY <1>1, <2>1 DEF MarkAsComplete
    <2> QED BY <1>1, <2>2, HSetMsgFacts DEF MarkAsComplete, TypeOK, States
  <1>3. /\ lock' \in [Key -> Task \cup {Nil}]
        /\ UNCHANGED <<pending, scheduled, retry, archived, groupVars, paused>>
    BY <1>1, ReleasedTypes DEF MarkAsComplete, TypeOK
  <1>4. processed' \in 0 .. MaxCount /\ failed' \in 0 .. MaxCount
    BY CountTypes DEF MarkAsComplete
  <1>t. TypeOK'
    BY <1>1, <1>o, <1>2, <1>3, <1>4, TimeInt DEF TypeOK
  <1>q. QueueIndex'
    BY <1>1, <1>o, <1>2, <1>3, <1>4, TimeInt DEF TypeOK, QueueIndex, Entry
  <1>g. GroupIndex'
    BY <1>1, <1>o, <1>2, <1>3, <1>4, TimeInt DEF TypeOK, QueueIndex, GroupIndex, Entry
  <1>d. NoDuplicatePending'
    BY <1>1, <1>o, <1>2, <1>3, <1>4, TimeInt DEF NoDuplicatePending
  <1>l. LeaseMatchesActive'
    BY <1>1, <1>o, <1>2, <1>3, <1>4, TimeInt DEF TypeOK, LeaseMatchesActive
  <1>a. AggregatedOnce'
    BY <1>1, <1>o, <1>2, <1>3, <1>4, TimeInt DEF TypeOK, AggregatedOnce, GroupIndex
  <1>n. NoTaskLost'
    BY <1>1, <1>o, <1>2, <1>3, <1>4, TimeInt
       DEF TypeOK, NoTaskLost, Filed, QueueIndex, GroupIndex, Ids
  <1> QED BY <1>t, <1>q, <1>g, <1>d, <1>l, <1>a, <1>n

\* requeueCmd keeps the invariant: an active task is not in pending, so the push
\* adds no second copy.
LEMMA RequeueInv ==
    ASSUME IInv, NEW t \in Task, Requeue(t)
    PROVE  IInv'
  <1> USE NilAssumption DEF IInv, Consistent, IndexMatchesState, zsetVars, groupVars, statVars,
          Exists, HasState, Members, ZSet
  <1>1. /\ t \in active /\ t \in Task /\ HasState(t, "active") /\ Leased(t)
        /\ active' = active \ {t}
        /\ lease' = [lease EXCEPT ![t] = Nil]
    BY DEF Requeue, LeaveActive, QueueIndex, LeaseMatchesActive, TypeOK, Leased
  <1>o. /\ \A e \in pending : e.id # t
        /\ scheduled[t] = Nil /\ retry[t] = Nil /\ archived[t] = Nil /\ completed[t] = Nil
        /\ \A g \in Group : group[g][t] = Nil
        /\ \A k \in AggKey : aggset[k][t] = Nil
    BY <1>1, FiledOnce
  <1>2. /\ hash' \in [Task -> Hash \cup {Nil}]
        /\ HasState(t, "pending")'
        /\ \A u \in Task \ {t} : hash'[u] = hash[u]
    BY <1>1, HSetFacts DEF Requeue, TypeOK, States
  <1>3. Pushed(pending', pending, {t})
    <2>1. t \notin Ids(pending)
      BY <1>1 DEF QueueIndex, Ids
    <2> QED BY <1>1, <2>1, PushFrontFacts DEF Requeue, TypeOK
  <1>4. UNCHANGED <<zsetVars, groupVars, lock, paused, statVars>>
    BY DEF Requeue
  <1>t. TypeOK'
    BY <1>1, <1>o, <1>2, <1>3, <1>4, TimeInt DEF TypeOK, Pushed
  <1>h. \A u \in Task : \A s \in States \ {"active"} : HasState(u, s) => HasState(u, s)'
    BY <1>1, <1>2 DEF States
  <1>q. QueueIndex'
    <2>1. \A e \in pending' : HasState(e.id, "pending")'
      BY <1>2, <1>3, <1>h DEF TypeOK, QueueIndex, Pushed, Entry, States
    <2>2. \A u \in active' : HasState(u, "active")'
      BY <1>1, <1>2 DEF TypeOK, QueueIndex
    <2>3. \A u \in Task :
            /\ scheduled'[u] # Nil => HasState(u, "scheduled")'
            /\ retry'[u] # Nil => HasState(u, "retry")'
            /\ archived'[u] # Nil => HasState(u, "archived")'
            /\ completed'[u] # Nil => HasState(u, "completed")'
      BY <1>4, <1>h DEF QueueIndex, States
    <2> QED BY <2>1, <2>2, <2>3 DEF QueueIndex
  <1>g. GroupIndex'
    <2>1. \A u \in Task \ {t} : /\ HasState(u, "aggregating") => HasState(u, "aggregating")'
                              /\ hash'[u] = hash[u]
      BY <1>2
    <2>2. UNCHANGED <<group, aggset>>
      BY <1>4
    <2> QED BY <1>1, <1>o, <2>1, <2>2 DEF GroupIndex
  <1>d. NoDuplicatePending'
    BY <1>1, <1>o, <1>2, <1>3, <1>4, TimeInt DEF NoDuplicatePending, Pushed
  <1>l. LeaseMatchesActive'
    BY <1>1, <1>o, <1>2, <1>3, <1>4, TimeInt DEF TypeOK, LeaseMatchesActive
  <1>a. AggregatedOnce'
    BY <1>1, <1>o, <1>2, <1>3, <1>4, TimeInt DEF TypeOK, AggregatedOnce, GroupIndex
  <1>n. NoTaskLost'
    <2> SUFFICES ASSUME NEW u \in Task, Exists(u)' PROVE Filed(u)'
      BY DEF NoTaskLost
    <2>1. /\ t \in Ids(pending')
          /\ u \in Ids(pending) => u \in Ids(pending')
      BY <1>3 DEF Pushed, Ids
    <2>2. CASE u = t
      BY <2>1, <2>2, <1>2 DEF Filed
    <2>3. CASE u # t
      <3>1. hash'[u] = hash[u] /\ Filed(u)
        BY <2>3, <1>2 DEF NoTaskLost
      <3> QED BY <2>1, <2>3, <3>1, <1>1, <1>4 DEF Filed
    <2> QED BY <2>2, <2>3
  <1> QED BY <1>t, <1>q, <1>g, <1>d, <1>l, <1>a, <1>n

\* retryCmd keeps the invariant.
LEMMA RetryInv ==
    ASSUME IInv, NEW t \in Task, NEW m \in Msg, NEW at \in Int, NEW isFailure \in BOOLEAN,
           Retry(t, m, at, isFailure)
    PROVE  IInv'
  <1> USE NilAssumption DEF IInv, Consistent, IndexMatchesState, zsetVars, groupVars, statVars,
          Exists, HasState, Members, ZSet
  <1>1. /\ t \in active /\ t \in Task /\ HasState(t, "active") /\ Leased(t)
        /\ active' = active \ {t}
        /\ lease' = [lease EXCEPT ![t] = Nil]
    BY DEF Retry, LeaveActive, QueueIndex, LeaseMatchesActive, TypeOK, Leased
  <1>o. /\ \A e \in pending : e.id # t
        /\ scheduled[t] = Nil /\ retry[t] = Nil /\ archived[t] = Nil /\ completed[t] = Nil
        /\ \A g \in Group : group[g][t] = Nil
        /\ \A k \in AggKey : aggset[k][t] = Nil
    BY <1>1, FiledOnce
  <1>2. /\ retry' = [retry EXCEPT ![t] = at]
        /\ hash' \in [Task -> Hash \cup {Nil}]
        /\ HasState(t, "retry")'
        /\ \A u \in Task \ {t} : hash'[u] = hash[u]
    BY <1>1, HSetMsgFacts DEF Retry, TypeOK, States
  <1>3. UNCHANGED <<pending, scheduled, archived, completed, groupVars, lock, paused>>
    BY DEF Retry
  <1>4. processed' \in 0 .. MaxCount /\ failed' \in 0 .. MaxCount
    BY CountTypes DEF Retry
  <1>t. TypeOK'
    BY <1>1, <1>o, <1>2, <1>3, <1>4, TimeInt DEF TypeOK
  <1>q. QueueIndex'
    BY <1>1, <1>o, <1>2, <1>3, <1>4, TimeInt DEF TypeOK, QueueIndex, Entry
  <1>g. GroupIndex'
    BY <1>1, <1>o, <1>2, <1>3, <1>4, TimeInt DEF TypeOK, QueueIndex, GroupIndex, Entry
  <1>d. NoDuplicatePending'
    BY <1>1, <1>o, <1>2, <1>3, <1>4, TimeInt DEF NoDuplicatePending
  <1>l. LeaseMatchesActive'
    BY <1>1, <1>o, <1>2, <1>3, <1>4, TimeInt DEF TypeOK, LeaseMatchesActive
  <1>a. AggregatedOnce'
    BY <1>1, <1>o, <1>2, <1>3, <1>4, TimeInt DEF TypeOK, AggregatedOnce, GroupIndex
  <1>n. NoTaskLost'
    BY <1>1, <1>o, <1>2, <1>3, <1>4, TimeInt
       DEF TypeOK, NoTaskLost, Filed, QueueIndex, GroupIndex, Ids
  <1> QED BY <1>t, <1>q, <1>g, <1>d, <1>l, <1>a, <1>n

\* archiveCmd keeps the invariant, also when it trims the task it adds.
LEMMA ArchiveInv ==
    ASSUME IInv, NEW t \in Task, NEW m \in Msg, NEW now \in Int, Archive(t, m, now)
    PROVE  IInv'
  <1> USE NilAssumption DEF IInv, Consistent, IndexMatchesState, zsetVars, groupVars, statVars,
          Exists, HasState, Members, ZSet
  <1>1. /\ t \in active /\ t \in Task /\ HasState(t, "active") /\ Leased(t)
        /\ active' = active \ {t}
        /\ lease' = [lease EXCEPT ![t] = Nil]
    BY DEF Archive, LeaveActive, QueueIndex, LeaseMatchesActive, TypeOK, Leased
  <1>o. /\ \A e \in pending : e.id # t
        /\ scheduled[t] = Nil /\ retry[t] = Nil /\ archived[t] = Nil /\ completed[t] = Nil
        /\ \A g \in Group : group[g][t] = Nil
        /\ \A k \in AggKey : aggset[k][t] = Nil
    BY <1>1, FiledOnce
  <1>2. PICK gone \in Trims([archived EXCEPT ![t] = now], now) :
           /\ archived' = ZRem([archived EXCEPT ![t] = now], gone)
           /\ hash' = [u \in Task |->
                 IF u = t THEN IF t \in gone THEN NewHash(m, "archived")
                               ELSE HSetMsgState(t, m, "archived")
                 ELSE IF u \in gone THEN Nil ELSE hash[u]]
           /\ CountFailed
    BY <1>1 DEF Archive
  <1>3. /\ hash' \in [Task -> Hash \cup {Nil}]
        /\ HasState(t, "archived")'
        /\ \A u \in Task \ {t} : hash'[u] = IF u \in gone THEN Nil ELSE hash[u]
    BY <1>1, <1>2, HSetMsgFacts, NewHashFacts DEF TypeOK, States
  <1>4. /\ \A u \in gone \ {t} : archived[u] # Nil
        /\ archived' \in ZSet
        /\ \A u \in Task \ {t} : archived'[u] = IF u \in gone THEN Nil ELSE archived[u]
    <2>1. gone \subseteq Members([archived EXCEPT ![t] = now])
      BY DEF Trims, LowestOf, UpTo
    <2> QED BY <1>1, <1>2, <2>1, TimeInt DEF TypeOK, ZRem
  <1>5. /\ processed' \in 0 .. MaxCount /\ failed' \in 0 .. MaxCount
        /\ UNCHANGED <<pending, scheduled, retry, completed, groupVars, lock, paused>>
    BY <1>2, CountTypes DEF Archive
  <1>6. \A u \in Task \ {t} :
           /\ hash'[u] # hash[u] => HasState(u, "archived") /\ archived'[u] = Nil
           /\ archived'[u] # Nil => archived[u] # Nil /\ hash'[u] = hash[u]
    BY <1>3, <1>4 DEF TypeOK, QueueIndex
  <1>7. \A u \in Task \ {t} : \A s \in States \ {"archived"} :
           HasState(u, s) => HasState(u, s)'
    BY <1>6
  <1>t. TypeOK'
    BY <1>1, <1>o, <1>3, <1>4, <1>5 DEF TypeOK
  <1>q. QueueIndex'
    <2>1. \A e \in pending' : HasState(e.id, "pending")'
      BY <1>o, <1>5, <1>7 DEF TypeOK, QueueIndex, Entry, States
    <2>2. \A u \in active' : HasState(u, "active")'
      BY <1>1, <1>7 DEF TypeOK, QueueIndex, States
    <2>3. \A u \in Task \ {t} :
            /\ scheduled'[u] # Nil => HasState(u, "scheduled")'
            /\ retry'[u] # Nil => HasState(u, "retry")'
            /\ completed'[u] # Nil => HasState(u, "completed")'
      BY <1>5, <1>7 DEF QueueIndex, States
    <2>4. \A u \in Task \ {t} : archived'[u] # Nil => HasState(u, "archived")'
      BY <1>6 DEF QueueIndex
    <2>5. /\ scheduled'[t] = Nil /\ retry'[t] = Nil /\ completed'[t] = Nil
          /\ HasState(t, "archived")'
      BY <1>o, <1>3, <1>5
    <2> QED BY <2>1, <2>2, <2>3, <2>4, <2>5 DEF QueueIndex
  <1>g. GroupIndex'
    <2>1. \A u \in Task \ {t} : HasState(u, "aggregating") =>
             HasState(u, "aggregating")' /\ hash'[u].group = hash[u].group
      BY <1>6
    <2> QED BY <2>1, <1>o, <1>5 DEF GroupIndex
  <1>d. NoDuplicatePending'
    BY <1>1, <1>o, <1>3, <1>4, <1>5 DEF NoDuplicatePending
  <1>l. LeaseMatchesActive'
    BY <1>1, <1>o, <1>3, <1>4, <1>5 DEF TypeOK, LeaseMatchesActive
  <1>a. AggregatedOnce'
    BY <1>1, <1>o, <1>3, <1>4, <1>5 DEF TypeOK, AggregatedOnce, GroupIndex
  <1>n. NoTaskLost'
    BY <1>1, <1>o, <1>3, <1>4, <1>5
       DEF TypeOK, NoTaskLost, Filed, QueueIndex, GroupIndex, Ids
  <1> QED BY <1>t, <1>q, <1>g, <1>d, <1>l, <1>a, <1>n

-----------------------------------------------------------------------------
(* Moves of a set of waiting tasks.                                         *)

\* The tasks ts leave every delayed set and group they are in.
LeftSets(ts) ==
    /\ scheduled' \in ZSet /\ retry' \in ZSet /\ completed' \in ZSet
    /\ group' \in [Group -> ZSet] /\ groups' \subseteq Group
    /\ \A t \in Task :
        /\ scheduled'[t] = IF t \in ts THEN Nil ELSE scheduled[t]
        /\ retry'[t] = IF t \in ts THEN Nil ELSE retry[t]
        /\ completed'[t] = IF t \in ts THEN Nil ELSE completed[t]
        /\ \A g \in Group : group'[g][t] = IF t \in ts THEN Nil ELSE group[g][t]

\* None of the tasks ts is run by a worker or held by an aggregator.
Waiting(ts) ==
    \A t \in ts : /\ HasState(t, hash[t].state)
                  /\ hash[t].state # "active"
                  /\ \A k \in AggKey : aggset[k][t] = Nil

\* Moving waiting tasks that are not pending to pending keeps the invariant.
LEMMA MovedToPendingInv ==
    ASSUME IInv, NEW ts \in SUBSET Task, Waiting(ts), LeftSets(ts), TypeOK',
           UNCHANGED <<active, lease, aggset, aggsets>>,
           Pushed(pending', pending, ts), \A t \in ts : \A e \in pending : e.id # t,
           \A t \in Task : archived'[t] = IF t \in ts THEN Nil ELSE archived[t],
           \A t \in ts : HasState(t, "pending")',
           \A t \in Task \ ts : hash'[t] = hash[t]
    PROVE  IInv'
  <1>a. AggregatedOnce'
    BY DEF IInv, Consistent, TypeOK, AggregatedOnce, LeftSets, AggKey
  <1>s. \A t \in Task \ ts : /\ t \in Ids(pending) => t \in Ids(pending')
                          /\ \A g \in Group : group[g][t] # Nil => group'[g][t] # Nil
    BY DEF LeftSets, Ids, Pushed
  <1> USE NilAssumption DEF IInv, Consistent, IndexMatchesState, zsetVars, groupVars, statVars,
          Exists, HasState, Members, ZSet, LeftSets, Waiting
  <1>o. \A t \in ts : t \notin active
    BY DEF Waiting, QueueIndex
  <1>q. QueueIndex'
    BY <1>o DEF TypeOK, QueueIndex, Pushed, Entry
  <1>g. GroupIndex'
    BY <1>o DEF TypeOK, QueueIndex, GroupIndex, Pushed, Entry
  <1>d. NoDuplicatePending'
    BY <1>o DEF NoDuplicatePending, Pushed
  <1>l. LeaseMatchesActive'
    BY <1>o DEF TypeOK, LeaseMatchesActive
  <1>n. NoTaskLost'
    <2> SUFFICES ASSUME NEW t \in Task, Exists(t)' PROVE Filed(t)'
      BY DEF NoTaskLost
    <2>1. CASE t \in ts
      BY <2>1 DEF Filed, Pushed, Ids
    <2>2. CASE t \notin ts
      BY <2>2, <1>s DEF Filed, NoTaskLost
    <2> QED BY <2>1, <2>2
  <1> QED BY <1>q, <1>g, <1>d, <1>l, <1>a, <1>n

\* Moving waiting tasks to archived, where any of them may be trimmed, keeps the
\* invariant.
LEMMA MovedToArchivedInv ==
    ASSUME IInv, NEW ts \in SUBSET Task, Waiting(ts), LeftSets(ts), TypeOK',
           UNCHANGED <<active, lease, aggset, aggsets>>,
           pending' = {e \in pending : e.id \notin ts},
           \A t \in Task : archived'[t] # Nil => t \in ts \/ archived[t] # Nil,
           \A t \in ts : HasState(t, "archived")',
           \A t \in Task \ ts : hash'[t] = hash[t]
    PROVE  IInv'
  <1>a. AggregatedOnce'
    BY DEF IInv, Consistent, TypeOK, AggregatedOnce, LeftSets, AggKey
  <1>s. \A t \in Task \ ts : /\ t \in Ids(pending) => t \in Ids(pending')
                          /\ \A g \in Group : group[g][t] # Nil => group'[g][t] # Nil
    BY DEF LeftSets, Ids, Pushed
  <1> USE NilAssumption DEF IInv, Consistent, IndexMatchesState, zsetVars, groupVars, statVars,
          Exists, HasState, Members, ZSet, LeftSets, Waiting
  <1>o. \A t \in ts : t \notin active
    BY DEF Waiting, QueueIndex
  <1>q. QueueIndex'
    BY <1>o DEF TypeOK, QueueIndex, Entry
  <1>g. GroupIndex'
    BY <1>o DEF TypeOK, QueueIndex, GroupIndex, Entry
  <1>d. NoDuplicatePending'
    BY <1>o DEF NoDuplicatePending
  <1>l. LeaseMatchesActive'
    BY <1>o DEF TypeOK, LeaseMatchesActive
  <1>n. NoTaskLost'
    <2> SUFFICES ASSUME NEW t \in Task, Exists(t)' PROVE Filed(t)'
      BY DEF NoTaskLost
    <2>1. CASE t \in ts
      BY <2>1 DEF Filed, Ids
    <2>2. CASE t \notin ts
      BY <2>2, <1>s DEF Filed, NoTaskLost
    <2> QED BY <2>1, <2>2
  <1> QED BY <1>q, <1>g, <1>d, <1>l, <1>a, <1>n

\* Deleting waiting tasks with their hashes keeps the invariant.
LEMMA DeletedInv ==
    ASSUME IInv, NEW ts \in SUBSET Task, Waiting(ts), LeftSets(ts), TypeOK',
           UNCHANGED <<active, lease, aggset, aggsets>>,
           pending' = {e \in pending : e.id \notin ts},
           \A t \in Task : archived'[t] = IF t \in ts THEN Nil ELSE archived[t],
           \A t \in ts : hash'[t] = Nil,
           \A t \in Task \ ts : hash'[t] = hash[t]
    PROVE  IInv'
  <1>a. AggregatedOnce'
    BY DEF IInv, Consistent, TypeOK, AggregatedOnce, LeftSets, AggKey
  <1>s. \A t \in Task \ ts : /\ t \in Ids(pending) => t \in Ids(pending')
                          /\ \A g \in Group : group[g][t] # Nil => group'[g][t] # Nil
    BY DEF LeftSets, Ids, Pushed
  <1> USE NilAssumption DEF IInv, Consistent, IndexMatchesState, zsetVars, groupVars, statVars,
          Exists, HasState, Members, ZSet, LeftSets, Waiting
  <1>o. \A t \in ts : t \notin active
    BY DEF Waiting, QueueIndex
  <1>q. QueueIndex'
    BY <1>o DEF TypeOK, QueueIndex, Entry
  <1>g. GroupIndex'
    BY <1>o DEF TypeOK, QueueIndex, GroupIndex, Entry
  <1>d. NoDuplicatePending'
    BY <1>o DEF NoDuplicatePending
  <1>l. LeaseMatchesActive'
    BY <1>o DEF TypeOK, LeaseMatchesActive
  <1>n. NoTaskLost'
    <2> SUFFICES ASSUME NEW t \in Task, Exists(t)' PROVE Filed(t)'
      BY DEF NoTaskLost
    <2>1. CASE t \in ts
      BY <2>1 DEF Filed, Ids
    <2>2. CASE t \notin ts
      BY <2>2, <1>s DEF Filed, NoTaskLost
    <2> QED BY <2>1, <2>2
  <1> QED BY <1>q, <1>g, <1>d, <1>l, <1>a, <1>n

\* The members of the delayed sets, of pending and of a group are run by no worker
\* and held by no aggregator.
LEMMA WaitingSets ==
    ASSUME IInv
    PROVE  /\ Waiting(Members(scheduled)) /\ Waiting(Members(retry))
           /\ Waiting(Members(archived)) /\ Waiting(Members(completed))
           /\ Waiting(Ids(pending))
           /\ \A g \in Group : Waiting(Members(group[g]))
  <1> USE DEF IInv, Consistent, IndexMatchesState, HasState, Members
  <1>1. \A t \in Task : hash[t].state # "aggregating" =>
           \A k \in AggKey : aggset[k][t] = Nil
    BY DEF GroupIndex
  <1>2. \A g \in Group, t \in Task : group[g][t] # Nil =>
           \A k \in AggKey : aggset[k][t] = Nil
    BY DEF GroupIndex, AggregatedOnce, AggKey
  <1> QED BY <1>1, <1>2 DEF Waiting, QueueIndex, GroupIndex, Ids, TypeOK, Entry

\* The Inspector scripts for one task remove it from the only set it is in.
LEMMA NamedSetFacts ==
    ASSUME IInv, NEW t \in Task, Exists(t),
           InNamedSet(t) \/ (StateOf(t) = "pending" /\ t \in Ids(pending)),
           scheduled' = Without(scheduled, "scheduled", t),
           retry' = Without(retry, "retry", t),
           completed' = Without(completed, "completed", t),
           LeaveGroup(t)
    PROVE  Waiting({t}) /\ LeftSets({t})
  <1> USE NilAssumption DEF IInv, Consistent, IndexMatchesState, StateOf, GroupOf
  <1>1. Waiting({t})
    BY WaitingSets DEF Waiting, InNamedSet, Members, TypeOK, Hash, Exists
  <1>2. /\ hash[t].state # "scheduled" => scheduled[t] = Nil
        /\ hash[t].state # "retry" => retry[t] = Nil
        /\ hash[t].state # "completed" => completed[t] = Nil
        /\ hash[t].state # "aggregating" => \A g \in Group : group[g][t] = Nil
    <2>1. HasState(t, hash[t].state)
      BY <1>1 DEF Waiting
    <2> QED BY <2>1, FiledOnce
  <1>3. /\ scheduled' \in ZSet /\ retry' \in ZSet /\ completed' \in ZSet
        /\ \A u \in Task : /\ scheduled'[u] = IF u = t THEN Nil ELSE scheduled[u]
                           /\ retry'[u] = IF u = t THEN Nil ELSE retry[u]
                           /\ completed'[u] = IF u = t THEN Nil ELSE completed[u]
    BY <1>2, ZTypes DEF Without, ZRem, TypeOK, ZSet
  <1>4. /\ group' \in [Group -> ZSet] /\ groups' \subseteq Group
        /\ \A u \in Task : \A g \in Group :
              group'[g][u] = IF u = t THEN Nil ELSE group[g][u]
    <2>1. CASE hash[t].state = "aggregating"
      <3>1. hash[t].group \in Group /\ \A g \in Group : g # hash[t].group => group[g][t] = Nil
        BY <2>1 DEF InNamedSet, GroupIndex, TypeOK, Hash, Exists
      <3>2. /\ group' = [group EXCEPT ![hash[t].group] = ZRem(group[hash[t].group], {t})]
            /\ groups' \subseteq Group
        BY <2>1 DEF LeaveGroup, TypeOK
      <3>3. \A g \in Group : group[g] \in ZSet /\ ZRem(group[g], {t}) \in ZSet
        BY ZTypes DEF TypeOK
      <3> QED BY <3>1, <3>2, <3>3 DEF ZRem, TypeOK, ZSet
    <2>2. CASE hash[t].state # "aggregating"
      BY <1>2, <2>2 DEF LeaveGroup, TypeOK
    <2> QED BY <2>1, <2>2
  <1> QED BY <1>1, <1>3, <1>4 DEF LeftSets

\* runTaskCmd keeps the invariant.
LEMMA RunTaskInv ==
    ASSUME IInv, NEW t \in Task, RunTask(t)
    PROVE  IInv'
  <1>1. Waiting({t}) /\ LeftSets({t})
    BY NamedSetFacts DEF RunTask
  <1>2. hash[t].state # "pending" /\ HasState(t, hash[t].state)
    BY <1>1 DEF RunTask, InNamedSet, StateOf, Waiting
  <1>3. \A e \in pending : e.id # t
    BY <1>2, FiledOnce
  <1>4. Pushed(pending', pending, {t})
    BY <1>3, PushOneFacts DEF RunTask, IInv, TypeOK, Ids
  <1>5. /\ hash' \in [Task -> Hash \cup {Nil}]
        /\ HasState(t, "pending")'
        /\ \A u \in Task \ {t} : hash'[u] = hash[u]
    <2>1. hash[t] \in Hash /\ hash[t].msg # Nil
      BY <1>2 DEF IInv, TypeOK, HasState, Exists
    <2>2. [hash[t] EXCEPT !.state = "pending"] \in Hash
      BY <2>1 DEF Hash, States
    <2>3. hash' = [hash EXCEPT ![t] = [hash[t] EXCEPT !.state = "pending"]]
      BY DEF RunTask
    <2> QED BY <2>1, <2>2, <2>3, NilAssumption DEF IInv, TypeOK, HasState, Exists, Hash
  <1>6. /\ archived' \in ZSet
        /\ \A u \in Task : archived'[u] = IF u = t THEN Nil ELSE archived[u]
    <2>1. hash[t].state # "archived" => archived[t] = Nil
      BY <1>2, FiledOnce
    <2> QED BY <2>1, ZTypes DEF RunTask, Without, StateOf, ZRem, IInv, TypeOK, ZSet
  <1>7. TypeOK'
    BY <1>1, <1>4, <1>5, <1>6 DEF RunTask, LeftSets, Pushed, IInv, TypeOK, statVars
  <1> QED BY <1>1, <1>3, <1>4, <1>5, <1>6, <1>7, MovedToPendingInv DEF RunTask

\* runAllCmd and runAllAggregatingCmd keep the invariant for any set of waiting
\* tasks.
LEMMA RunMovedInv ==
    ASSUME IInv, NEW z \in ZSet, RunMoved(z),
           Waiting(Members(z)), LeftSets(Members(z)),
           \A t \in Members(z) : hash[t].state # "pending",
           archived' \in ZSet,
           \A t \in Task : archived'[t] = IF t \in Members(z) THEN Nil ELSE archived[t]
    PROVE  IInv'
  <1>1. \A t \in Members(z) : \A e \in pending : e.id # t
    BY FiledOnce DEF Waiting, Members
  <1>2. Pushed(pending', pending, Members(z))
    BY <1>1, PushAllFacts DEF RunMoved, IInv, TypeOK, Ids, Members
  <1>3. /\ hash' \in [Task -> Hash \cup {Nil}]
        /\ \A t \in Members(z) : HasState(t, "pending")'
        /\ \A t \in Task \ Members(z) : hash'[t] = hash[t]
    <2>1. \A t \in Members(z) : HasState(t, hash[t].state)
      BY DEF Waiting
    <2>2. \A t \in Members(z) : LET n == HSetState(t, "pending") IN
             n \in Hash /\ n.state = "pending" /\ n.msg # Nil
      BY <2>1, HSetFacts DEF IInv, States, Members, HasState
    <2> QED BY <2>2, NilAssumption DEF RunMoved, IInv, TypeOK, HasState, Exists, Members
  <1>4. TypeOK'
    BY <1>2, <1>3 DEF RunMoved, LeftSets, Pushed, IInv, TypeOK, statVars
  <1>5. Members(z) \in SUBSET Task
    BY DEF Members
  <1> QED BY <1>1, <1>2, <1>3, <1>4, <1>5, MovedToPendingInv DEF RunMoved

\* The Inspector's archive scripts keep the invariant for any set of waiting tasks.
LEMMA ArchiveMovedInv ==
    ASSUME IInv, NEW ts \in SUBSET Task, NEW now \in Time, ArchiveMoved(ts, now),
           Waiting(ts), LeftSets(ts),
           pending' = {e \in pending : e.id \notin ts}
    PROVE  IInv'
  <1>1. /\ archived' \in ZSet
        /\ \A t \in Task : archived'[t] # Nil => t \in ts \/ archived[t] # Nil
    BY ZTypes, TimeInt DEF ArchiveMoved, ZRem, ZAddAll, IInv, TypeOK, ZSet
  <1>2. /\ hash' \in [Task -> Hash \cup {Nil}]
        /\ \A t \in ts : HasState(t, "archived")'
        /\ \A t \in Task \ ts : hash'[t] = hash[t]
    <2>1. \A t \in ts : HasState(t, hash[t].state)
      BY DEF Waiting
    <2>2. \A t \in ts : LET n == HSetState(t, "archived") IN
             n \in Hash /\ n.state = "archived" /\ n.msg # Nil
      BY <2>1, HSetFacts DEF IInv, States, HasState
    <2> QED BY <2>2, NilAssumption DEF ArchiveMoved, IInv, TypeOK, HasState, Exists
  <1>3. TypeOK'
    BY <1>1, <1>2 DEF ArchiveMoved, LeftSets, IInv, TypeOK, statVars
  <1> QED BY <1>1, <1>2, <1>3, MovedToArchivedInv DEF ArchiveMoved

\* The Inspector's delete scripts keep the invariant for any set of waiting tasks.
LEMMA DeleteMovedInv ==
    ASSUME IInv, NEW ts \in SUBSET Task, DeleteMoved(ts),
           Waiting(ts), LeftSets(ts),
           pending' = {e \in pending : e.id \notin ts},
           lock' \in [Key -> Task \cup {Nil}],
           archived' \in ZSet,
           \A t \in Task : archived'[t] = IF t \in ts THEN Nil ELSE archived[t]
    PROVE  IInv'
  <1>1. /\ hash' \in [Task -> Hash \cup {Nil}]
        /\ \A t \in ts : hash'[t] = Nil
        /\ \A t \in Task \ ts : hash'[t] = hash[t]
    BY DEF DeleteMoved, IInv, TypeOK
  <1>2. TypeOK'
    BY <1>1 DEF DeleteMoved, LeftSets, IInv, TypeOK, statVars
  <1> QED BY <1>1, <1>2, DeletedInv DEF DeleteMoved

\* LeftSets when one of the sets is emptied and the others stay.
LEMMA EmptiedSets ==
    ASSUME IInv
    PROVE  /\ scheduled' = EmptyZ /\ UNCHANGED <<retry, completed, group, groups>>
                => LeftSets(Members(scheduled))
           /\ retry' = EmptyZ /\ UNCHANGED <<scheduled, completed, group, groups>>
                => LeftSets(Members(retry))
           /\ completed' = EmptyZ /\ UNCHANGED <<scheduled, retry, group, groups>>
                => LeftSets(Members(completed))
           /\ \A g \in Group :
                /\ group' = [group EXCEPT ![g] = EmptyZ]
                /\ groups' = groups \ {g}
                /\ UNCHANGED <<scheduled, retry, completed>>
                => LeftSets(Members(group[g]))
           /\ UNCHANGED <<scheduled, retry, completed, group, groups>>
                => LeftSets(Members(archived)) /\ LeftSets(Ids(pending))
  <1> USE DEF IInv, Consistent, IndexMatchesState, QueueIndex, GroupIndex, HasState,
              TypeOK, EmptyZ, ZSet, Members, LeftSets
  <1>1. ASSUME scheduled' = EmptyZ, UNCHANGED <<retry, completed, group, groups>>
        PROVE  LeftSets(Members(scheduled))
    BY <1>1
  <1>2. ASSUME retry' = EmptyZ, UNCHANGED <<scheduled, completed, group, groups>>
        PROVE  LeftSets(Members(retry))
    BY <1>2
  <1>3. ASSUME completed' = EmptyZ, UNCHANGED <<scheduled, retry, group, groups>>
        PROVE  LeftSets(Members(completed))
    BY <1>3
  <1>4. ASSUME NEW g \in Group, group' = [group EXCEPT ![g] = EmptyZ],
               groups' = groups \ {g}, UNCHANGED <<scheduled, retry, completed>>
        PROVE  LeftSets(Members(group[g]))
    BY <1>4
  <1>5. ASSUME UNCHANGED <<scheduled, retry, completed, group, groups>>
        PROVE  LeftSets(Members(archived)) /\ LeftSets(Ids(pending))
    <2>1. \A t \in Task : archived[t] # Nil \/ t \in Ids(pending) =>
             /\ scheduled[t] = Nil /\ retry[t] = Nil /\ completed[t] = Nil
             /\ \A g \in Group : group[g][t] = Nil
      BY DEF Ids
    <2>2. LeftSets(Members(archived))
      BY <1>5, <2>1
    <2>3. LeftSets(Ids(pending))
      BY <1>5, <2>1
    <2> QED BY <2>2, <2>3
  <1> QED BY <1>1, <1>2, <1>3, <1>4, <1>5

\* None of the tasks in a delayed set or group is in pending or archived.
LEMMA NotPending ==
    ASSUME IInv
    PROVE  /\ \A t \in Task : scheduled[t] # Nil \/ retry[t] # Nil \/ completed[t] # Nil
                                \/ (\E g \in Group : group[g][t] # Nil) =>
                 /\ archived[t] = Nil
                 /\ hash[t].state # "pending"
                 /\ t \notin Ids(pending)
           /\ \A t \in Task : archived[t] # Nil =>
                 /\ hash[t].state # "pending"
                 /\ t \notin Ids(pending)
    BY DEF IInv, Consistent, IndexMatchesState, QueueIndex, GroupIndex, HasState, Ids

\* RunAllScheduledTasks keeps the invariant.
LEMMA RunAllScheduledTasksInv ==
    ASSUME IInv, RunAllScheduledTasks
    PROVE  IInv'
  <1>1. scheduled \in ZSet /\ RunMoved(scheduled)
    BY DEF RunAllScheduledTasks, IInv, TypeOK
  <1>2. Waiting(Members(scheduled)) /\ LeftSets(Members(scheduled))
    BY WaitingSets, EmptiedSets DEF RunAllScheduledTasks, RunMoved
  <1>3. \A t \in Members(scheduled) : hash[t].state # "pending"
    BY NotPending DEF Members
  <1>4. /\ archived' \in ZSet
        /\ \A t \in Task : archived'[t] = IF t \in Members(scheduled) THEN Nil ELSE archived[t]
    BY NotPending, ZTypes DEF RunAllScheduledTasks, IInv, TypeOK, Members, EmptyZ
  <1> QED BY <1>1, <1>2, <1>3, <1>4, RunMovedInv

\* RunAllRetryTasks keeps the invariant.
LEMMA RunAllRetryTasksInv ==
    ASSUME IInv, RunAllRetryTasks
    PROVE  IInv'
  <1>1. retry \in ZSet /\ RunMoved(retry)
    BY DEF RunAllRetryTasks, IInv, TypeOK
  <1>2. Waiting(Members(retry)) /\ LeftSets(Members(retry))
    BY WaitingSets, EmptiedSets DEF RunAllRetryTasks, RunMoved
  <1>3. \A t \in Members(retry) : hash[t].state # "pending"
    BY NotPending DEF Members
  <1>4. /\ archived' \in ZSet
        /\ \A t \in Task : archived'[t] = IF t \in Members(retry) THEN Nil ELSE archived[t]
    BY NotPending, ZTypes DEF RunAllRetryTasks, IInv, TypeOK, Members, EmptyZ
  <1> QED BY <1>1, <1>2, <1>3, <1>4, RunMovedInv

\* RunAllArchivedTasks keeps the invariant.
LEMMA RunAllArchivedTasksInv ==
    ASSUME IInv, RunAllArchivedTasks
    PROVE  IInv'
  <1>1. archived \in ZSet /\ RunMoved(archived)
    BY DEF RunAllArchivedTasks, IInv, TypeOK
  <1>2. Waiting(Members(archived)) /\ LeftSets(Members(archived))
    BY WaitingSets, EmptiedSets DEF RunAllArchivedTasks, RunMoved
  <1>3. \A t \in Members(archived) : hash[t].state # "pending"
    BY NotPending DEF Members
  <1>4. /\ archived' \in ZSet
        /\ \A t \in Task : archived'[t] = IF t \in Members(archived) THEN Nil ELSE archived[t]
    BY NotPending, ZTypes DEF RunAllArchivedTasks, IInv, TypeOK, Members, EmptyZ
  <1> QED BY <1>1, <1>2, <1>3, <1>4, RunMovedInv

\* RunAllAggregatingTasks keeps the invariant.
LEMMA RunAllAggregatingTasksInv ==
    ASSUME IInv, NEW g \in Group, RunAllAggregatingTasks(g)
    PROVE  IInv'
  <1>1. group[g] \in ZSet /\ RunMoved(group[g])
    BY DEF RunAllAggregatingTasks, IInv, TypeOK
  <1>2. Waiting(Members(group[g])) /\ LeftSets(Members(group[g]))
    BY WaitingSets, EmptiedSets DEF RunAllAggregatingTasks, RunMoved
  <1>3. \A t \in Members(group[g]) : hash[t].state # "pending"
    BY NotPending DEF Members
  <1>4. /\ archived' \in ZSet
        /\ \A t \in Task : archived'[t] = IF t \in Members(group[g]) THEN Nil ELSE archived[t]
    BY NotPending, ZTypes DEF RunAllAggregatingTasks, IInv, TypeOK, Members, EmptyZ
  <1> QED BY <1>1, <1>2, <1>3, <1>4, RunMovedInv

\* archiveTaskCmd keeps the invariant.
LEMMA ArchiveTaskInv ==
    ASSUME IInv, NEW t \in Task, NEW now \in Time, ArchiveTask(t, now)
    PROVE  IInv'
  <1>1. Waiting({t}) /\ LeftSets({t})
    BY NamedSetFacts DEF ArchiveTask
  <1>2. hash[t].state # "pending" => \A e \in pending : e.id # t
    BY <1>1, FiledOnce DEF Waiting
  <1>3. pending' = {e \in pending : e.id \notin {t}}
    BY <1>2 DEF ArchiveTask, StateOf, LRem
  <1> QED BY <1>1, <1>3, ArchiveMovedInv DEF ArchiveTask

\* ArchiveAllScheduledTasks keeps the invariant.
LEMMA ArchiveAllScheduledTasksInv ==
    ASSUME IInv, NEW now \in Time, ArchiveAllScheduledTasks(now)
    PROVE  IInv'
  <1>1. Waiting(Members(scheduled)) /\ LeftSets(Members(scheduled))
    BY WaitingSets, EmptiedSets DEF ArchiveAllScheduledTasks, ArchiveMoved
  <1>2. pending' = {e \in pending : e.id \notin Members(scheduled)}
    BY NotPending DEF ArchiveAllScheduledTasks, Members, Ids
  <1>3. Members(scheduled) \in SUBSET Task
    BY DEF Members, Ids, IInv, TypeOK, Entry
  <1> QED BY <1>1, <1>2, <1>3, ArchiveMovedInv DEF ArchiveAllScheduledTasks

\* ArchiveAllRetryTasks keeps the invariant.
LEMMA ArchiveAllRetryTasksInv ==
    ASSUME IInv, NEW now \in Time, ArchiveAllRetryTasks(now)
    PROVE  IInv'
  <1>1. Waiting(Members(retry)) /\ LeftSets(Members(retry))
    BY WaitingSets, EmptiedSets DEF ArchiveAllRetryTasks, ArchiveMoved
  <1>2. pending' = {e \in pending : e.id \notin Members(retry)}
    BY NotPending DEF ArchiveAllRetryTasks, Members, Ids
  <1>3. Members(retry) \in SUBSET Task
    BY DEF Members, Ids, IInv, TypeOK, Entry
  <1> QED BY <1>1, <1>2, <1>3, ArchiveMovedInv DEF ArchiveAllRetryTasks

\* ArchiveAllPendingTasks keeps the invariant.
LEMMA ArchiveAllPendingTasksInv ==
    ASSUME IInv, NEW now \in Time, ArchiveAllPendingTasks(now)
    PROVE  IInv'
  <1>1. Waiting(Ids(pending)) /\ LeftSets(Ids(pending))
    BY WaitingSets, EmptiedSets DEF ArchiveAllPendingTasks, ArchiveMoved
  <1>2. pending' = {e \in pending : e.id \notin Ids(pending)}
    BY NotPending DEF ArchiveAllPendingTasks, Members, Ids
  <1>3. Ids(pending) \in SUBSET Task
    BY DEF Members, Ids, IInv, TypeOK, Entry
  <1> QED BY <1>1, <1>2, <1>3, ArchiveMovedInv DEF ArchiveAllPendingTasks

\* ArchiveAllAggregatingTasks keeps the invariant.
LEMMA ArchiveAllAggregatingTasksInv ==
    ASSUME IInv, NEW g \in Group, NEW now \in Time, ArchiveAllAggregatingTasks(g, now)
    PROVE  IInv'
  <1>1. Waiting(Members(group[g])) /\ LeftSets(Members(group[g]))
    BY WaitingSets, EmptiedSets DEF ArchiveAllAggregatingTasks, ArchiveMoved
  <1>2. pending' = {e \in pending : e.id \notin Members(group[g])}
    BY NotPending DEF ArchiveAllAggregatingTasks, Members, Ids
  <1>3. Members(group[g]) \in SUBSET Task
    BY DEF Members, Ids, IInv, TypeOK, Entry
  <1> QED BY <1>1, <1>2, <1>3, ArchiveMovedInv DEF ArchiveAllAggregatingTasks

\* deleteTaskCmd keeps the invariant.
LEMMA DeleteTaskInv ==
    ASSUME IInv, NEW t \in Task, DeleteTask(t)
    PROVE  IInv'
  <1>1. Waiting({t}) /\ LeftSets({t})
    BY NamedSetFacts DEF DeleteTask
  <1>2. /\ hash[t].state # "pending" => \A e \in pending : e.id # t
        /\ hash[t].state # "archived" => archived[t] = Nil
    BY <1>1, FiledOnce DEF Waiting
  <1>3. pending' = {e \in pending : e.id \notin {t}}
    BY <1>2 DEF DeleteTask, StateOf, LRem
  <1>4. /\ archived' \in ZSet
        /\ \A u \in Task : archived'[u] = IF u \in {t} THEN Nil ELSE archived[u]
    BY <1>2, ZTypes DEF DeleteTask, Without, StateOf, ZRem, IInv, TypeOK, ZSet
  <1>5. DeleteMoved({t})
    BY DEF DeleteTask, DeleteMoved, IInv, TypeOK
  <1> QED BY <1>1, <1>3, <1>4, <1>5, ReleasedTypes, DeleteMovedInv DEF DeleteTask, IInv

\* DeleteAllScheduledTasks keeps the invariant.
LEMMA DeleteAllScheduledTasksInv ==
    ASSUME IInv, DeleteAllScheduledTasks
    PROVE  IInv'
  <1>1. Waiting(Members(scheduled)) /\ LeftSets(Members(scheduled))
    BY WaitingSets, EmptiedSets DEF DeleteAllScheduledTasks, zsetVars
  <1>2. pending' = {e \in pending : e.id \notin Members(scheduled)}
    BY NotPending DEF DeleteAllScheduledTasks, Members, Ids
  <1>3. Members(scheduled) \in SUBSET Task
    BY DEF Members, Ids, IInv, TypeOK, Entry
  <1>4. /\ archived' \in ZSet
        /\ \A t \in Task : archived'[t] = IF t \in Members(scheduled) THEN Nil ELSE archived[t]
    BY NotPending, ZTypes
       DEF DeleteAllScheduledTasks, IInv, TypeOK, Members, EmptyZ, zsetVars
  <1>5. lock' \in [Key -> Task \cup {Nil}]
    BY ReleasedTypes DEF DeleteAllScheduledTasks, IInv, TypeOK
  <1> QED BY <1>1, <1>2, <1>3, <1>4, <1>5, DeleteMovedInv DEF DeleteAllScheduledTasks

\* DeleteAllRetryTasks keeps the invariant.
LEMMA DeleteAllRetryTasksInv ==
    ASSUME IInv, DeleteAllRetryTasks
    PROVE  IInv'
  <1>1. Waiting(Members(retry)) /\ LeftSets(Members(retry))
    BY WaitingSets, EmptiedSets DEF DeleteAllRetryTasks, zsetVars
  <1>2. pending' = {e \in pending : e.id \notin Members(retry)}
    BY NotPending DEF DeleteAllRetryTasks, Members, Ids
  <1>3. Members(retry) \in SUBSET Task
    BY DEF Members, Ids, IInv, TypeOK, Entry
  <1>4. /\ archived' \in ZSet
        /\ \A t \in Task : archived'[t] = IF t \in Members(retry) THEN Nil ELSE archived[t]
    BY NotPending, ZTypes DEF DeleteAllRetryTasks, IInv, TypeOK, Members, EmptyZ, zsetVars
  <1>5. lock' \in [Key -> Task \cup {Nil}]
    BY ReleasedTypes DEF DeleteAllRetryTasks, IInv, TypeOK
  <1> QED BY <1>1, <1>2, <1>3, <1>4, <1>5, DeleteMovedInv DEF DeleteAllRetryTasks

\* DeleteAllArchivedTasks keeps the invariant.
LEMMA DeleteAllArchivedTasksInv ==
    ASSUME IInv, DeleteAllArchivedTasks
    PROVE  IInv'
  <1>1. Waiting(Members(archived)) /\ LeftSets(Members(archived))
    BY WaitingSets, EmptiedSets DEF DeleteAllArchivedTasks, zsetVars
  <1>2. pending' = {e \in pending : e.id \notin Members(archived)}
    BY NotPending DEF DeleteAllArchivedTasks, Members, Ids
  <1>3. Members(archived) \in SUBSET Task
    BY DEF Members, Ids, IInv, TypeOK, Entry
  <1>4. /\ archived' \in ZSet
        /\ \A t \in Task : archived'[t] = IF t \in Members(archived) THEN Nil ELSE archived[t]
    BY NotPending, ZTypes
       DEF DeleteAllArchivedTasks, IInv, TypeOK, Members, EmptyZ, zsetVars
  <1>5. lock' \in [Key -> Task \cup {Nil}]
    BY ReleasedTypes DEF DeleteAllArchivedTasks, IInv, TypeOK
  <1> QED BY <1>1, <1>2, <1>3, <1>4, <1>5, DeleteMovedInv DEF DeleteAllArchivedTasks

\* DeleteAllCompletedTasks keeps the invariant.
LEMMA DeleteAllCompletedTasksInv ==
    ASSUME IInv, DeleteAllCompletedTasks
    PROVE  IInv'
  <1>1. Waiting(Members(completed)) /\ LeftSets(Members(completed))
    BY WaitingSets, EmptiedSets DEF DeleteAllCompletedTasks, zsetVars
  <1>2. pending' = {e \in pending : e.id \notin Members(completed)}
    BY NotPending DEF DeleteAllCompletedTasks, Members, Ids
  <1>3. Members(completed) \in SUBSET Task
    BY DEF Members, Ids, IInv, TypeOK, Entry
  <1>4. /\ archived' \in ZSet
        /\ \A t \in Task : archived'[t] = IF t \in Members(completed) THEN Nil ELSE archived[t]
    BY NotPending, ZTypes
       DEF DeleteAllCompletedTasks, IInv, TypeOK, Members, EmptyZ, zsetVars
  <1>5. lock' \in [Key -> Task \cup {Nil}]
    BY ReleasedTypes DEF DeleteAllCompletedTasks, IInv, TypeOK
  <1> QED BY <1>1, <1>2, <1>3, <1>4, <1>5, DeleteMovedInv DEF DeleteAllCompletedTasks

\* DeleteAllPendingTasks keeps the invariant.
LEMMA DeleteAllPendingTasksInv ==
    ASSUME IInv, DeleteAllPendingTasks
    PROVE  IInv'
  <1>1. Waiting(Ids(pending)) /\ LeftSets(Ids(pending))
    BY WaitingSets, EmptiedSets DEF DeleteAllPendingTasks, zsetVars
  <1>2. pending' = {e \in pending : e.id \notin Ids(pending)}
    BY NotPending DEF DeleteAllPendingTasks, Members, Ids
  <1>3. Ids(pending) \in SUBSET Task
    BY DEF Members, Ids, IInv, TypeOK, Entry
  <1>4. /\ archived' \in ZSet
        /\ \A t \in Task : archived'[t] = IF t \in Ids(pending) THEN Nil ELSE archived[t]
    BY NotPending, ZTypes DEF DeleteAllPendingTasks, IInv, TypeOK, Members, EmptyZ, zsetVars
  <1>5. lock' \in [Key -> Task \cup {Nil}]
    BY ReleasedTypes DEF DeleteAllPendingTasks, IInv, TypeOK
  <1> QED BY <1>1, <1>2, <1>3, <1>4, <1>5, DeleteMovedInv DEF DeleteAllPendingTasks

\* DeleteAllAggregatingTasks keeps the invariant.
LEMMA DeleteAllAggregatingTasksInv ==
    ASSUME IInv, NEW g \in Group, DeleteAllAggregatingTasks(g)
    PROVE  IInv'
  <1>1. Waiting(Members(group[g])) /\ LeftSets(Members(group[g]))
    BY WaitingSets, EmptiedSets DEF DeleteAllAggregatingTasks, zsetVars
  <1>2. pending' = {e \in pending : e.id \notin Members(group[g])}
    BY NotPending DEF DeleteAllAggregatingTasks, Members, Ids
  <1>3. Members(group[g]) \in SUBSET Task
    BY DEF Members, Ids, IInv, TypeOK, Entry
  <1>4. /\ archived' \in ZSet
        /\ \A t \in Task : archived'[t] = IF t \in Members(group[g]) THEN Nil ELSE archived[t]
    BY NotPending, ZTypes
       DEF DeleteAllAggregatingTasks, IInv, TypeOK, Members, EmptyZ, zsetVars
  <1>5. lock' \in [Key -> Task \cup {Nil}]
    BY ReleasedTypes DEF DeleteAllAggregatingTasks, IInv, TypeOK
  <1> QED BY <1>1, <1>2, <1>3, <1>4, <1>5, DeleteMovedInv DEF DeleteAllAggregatingTasks

\* removeQueueForceCmd keeps the invariant: with no active task it drops no lease.
LEMMA RemoveQueueForceInv ==
    ASSUME IInv, RemoveQueueForce
    PROVE  IInv'
  <1> DEFINE ts == {t \in Task : \/ t \in Ids(pending) \/ scheduled[t] # Nil
                                 \/ retry[t] # Nil \/ archived[t] # Nil}
  <1>1. Waiting(ts)
    BY WaitingSets DEF Waiting, Members
  <1>2. LeftSets(ts)
    <2>1. \A t \in ts : completed[t] = Nil /\ \A g \in Group : group[g][t] = Nil
      BY DEF IInv, Consistent, IndexMatchesState, QueueIndex, GroupIndex, HasState, Ids
    <2> QED BY <2>1 DEF RemoveQueueForce, LeftSets, IInv, TypeOK, EmptyZ, ZSet, groupVars
  <1>3. pending' = {e \in pending : e.id \notin ts}
    BY DEF RemoveQueueForce, Ids, IInv, TypeOK, Entry
  <1>4. lease' = lease
    BY DEF RemoveQueueForce, EmptyZ, IInv, Consistent, LeaseMatchesActive, TypeOK, ZSet
  <1>5. DeleteMoved(ts)
    BY <1>4 DEF RemoveQueueForce, DeleteMoved, groupVars
  <1>6. /\ archived' \in ZSet
        /\ \A t \in Task : archived'[t] = IF t \in ts THEN Nil ELSE archived[t]
        /\ lock' \in [Key -> Task \cup {Nil}]
    BY ZTypes DEF RemoveQueueForce, EmptyZ, IInv, TypeOK
  <1> HIDE DEF ts
  <1>7. ts \in SUBSET Task
    BY DEF ts
  <1> QED BY <1>1, <1>2, <1>3, <1>5, <1>6, <1>7, DeleteMovedInv

\* deleteExpiredCompletedTasksCmd keeps the invariant.
LEMMA DeleteExpiredCompletedTasksInv ==
    ASSUME IInv, NEW now \in Time, DeleteExpiredCompletedTasks(now, BatchSize)
    PROVE  IInv'
  <1>1. PICK ts \in SUBSET UpTo(completed, now) :
           /\ completed' = ZRem(completed, ts)
           /\ hash' = [t \in Task |-> IF t \in ts THEN Nil ELSE hash[t]]
    BY DEF DeleteExpiredCompletedTasks, LowestOf
  <1>2. ts \in SUBSET Task /\ \A t \in ts : completed[t] # Nil
    BY DEF UpTo, Members
  <1>3. Waiting(ts)
    BY <1>2, WaitingSets DEF Waiting, Members
  <1>4. /\ UNCHANGED <<pending, active, lease, scheduled, retry, archived, lock, paused>>
        /\ UNCHANGED <<group, groups, aggset, aggsets, processed, failed>>
    BY DEF DeleteExpiredCompletedTasks, groupVars, statVars
  <1>5. LeftSets(ts)
    <2>1. \A t \in ts : scheduled[t] = Nil /\ retry[t] = Nil /\ \A g \in Group : group[g][t] = Nil
      BY <1>2 DEF IInv, Consistent, IndexMatchesState, QueueIndex, GroupIndex, HasState
    <2> QED BY <1>1, <1>4, <2>1, ZTypes DEF LeftSets, IInv, TypeOK, ZRem, ZSet
  <1>6. /\ pending' = {e \in pending : e.id \notin ts}
        /\ \A t \in Task : archived'[t] = IF t \in ts THEN Nil ELSE archived[t]
    BY <1>2, <1>4, NotPending DEF Ids
  <1>7. DeleteMoved(ts)
    BY <1>1, <1>4 DEF DeleteMoved, statVars
  <1>8. archived' \in ZSet /\ lock' \in [Key -> Task \cup {Nil}]
    BY <1>4 DEF IInv, TypeOK
  <1> QED BY <1>2, <1>3, <1>5, <1>6, <1>7, <1>8, DeleteMovedInv

-----------------------------------------------------------------------------
\* One batch of forwardCmd keeps the invariant, whichever of its tasks go to a
\* group.
LEMMA ForwardMovedInv ==
    ASSUME IInv, NEW z \in ZSet, NEW ts \in SUBSET Task, NEW now \in Int,
           ForwardMoved(z, ts, now), scheduled' \in ZSet, retry' \in ZSet,
           \A t \in ts : HasState(t, "scheduled") \/ HasState(t, "retry"),
           \A t \in Task : /\ scheduled'[t] = IF t \in ts THEN Nil ELSE scheduled[t]
                           /\ retry'[t] = IF t \in ts THEN Nil ELSE retry[t]
    PROVE  IInv'
  <1> USE NilAssumption DEF IInv, Consistent, IndexMatchesState, zsetVars, groupVars, statVars,
          Exists, HasState, Members, ZSet
  <1>1. \A t \in ts : /\ \A e \in pending : e.id # t
                      /\ t \notin active /\ archived[t] = Nil /\ completed[t] = Nil
                      /\ \A g \in Group : group[g][t] = Nil
                      /\ \A k \in AggKey : aggset[k][t] = Nil
    BY DEF QueueIndex, GroupIndex
  <1>2. Pushed(pending', pending, ts \ Grouped(ts))
    <2>1. (ts \ Grouped(ts)) \cap Ids(pending) = {} /\ ts \ Grouped(ts) \in SUBSET Task
      BY <1>1 DEF Ids
    <2> QED BY <2>1, PushAllFacts DEF ForwardMoved, TypeOK
  <1>3. /\ hash' \in [Task -> Hash \cup {Nil}]
        /\ \A t \in Grouped(ts) : HasState(t, "aggregating")' /\ hash'[t].group = hash[t].group
        /\ \A t \in ts \ Grouped(ts) : HasState(t, "pending")'
        /\ \A t \in Task \ ts : hash'[t] = hash[t]
    <2>1. \A t \in ts : \A s \in {"pending", "aggregating"} : LET n == HSetState(t, s) IN
             n \in Hash /\ n.state = s /\ n.msg # Nil /\ n.group = hash[t].group
      BY HSetFacts DEF States
    <2>2. Grouped(ts) \subseteq ts
      BY DEF Grouped
    <2>3. hash' = [t \in Task |->
                     IF t \in Grouped(ts) THEN HSetState(t, "aggregating")
                     ELSE IF t \in ts THEN HSetState(t, "pending") ELSE hash[t]]
      BY DEF ForwardMoved
    <2> QED BY <2>1, <2>2, <2>3 DEF TypeOK
  <1>4. /\ \A t \in Grouped(ts) : t \in ts /\ hash[t].group \in Group
        /\ \A t \in ts \ Grouped(ts) : hash[t].group = Nil
    BY DEF Grouped, GroupOf, TypeOK, Hash
  <1>5. /\ group' \in [Group -> ZSet]
        /\ \A g \in Group, t \in Task :
              group'[g][t] = IF t \in Grouped(ts) /\ hash[t].group = g THEN now ELSE group[g][t]
    <2>1. group' = [g \in Group |->
                     ZAddAll(group[g], {t \in ts : GroupOf(t) = g}, now)]
      BY DEF ForwardMoved
    <2>2. \A g \in Group : {t \in ts : GroupOf(t) = g} = {t \in Grouped(ts) : hash[t].group = g}
      BY DEF Grouped, GroupOf
    <2> QED BY <2>1, <2>2, TimeInt DEF ZAddAll, TypeOK
  <1>6. UNCHANGED <<active, lease, archived, completed, groups, aggset, aggsets,
                    lock, paused, processed, failed>>
    BY DEF ForwardMoved
  <1>t. TypeOK'
    BY <1>2, <1>3, <1>5, <1>6 DEF TypeOK, Pushed
  <1>q. QueueIndex'
    BY <1>1, <1>2, <1>3, <1>6 DEF TypeOK, QueueIndex, Pushed, Entry
  <1>g. GroupIndex'
    BY <1>1, <1>2, <1>3, <1>4, <1>5, <1>6, TimeInt
       DEF TypeOK, QueueIndex, GroupIndex, Pushed, Entry
  <1>d. NoDuplicatePending'
    BY <1>1, <1>2, <1>3, <1>4, <1>5, <1>6, TimeInt DEF NoDuplicatePending, Pushed
  <1>l. LeaseMatchesActive'
    BY <1>1, <1>2, <1>3, <1>4, <1>5, <1>6, TimeInt DEF TypeOK, LeaseMatchesActive
  <1>a. AggregatedOnce'
    BY <1>1, <1>4, <1>5, <1>6 DEF AggregatedOnce, AggKey
  <1>n. NoTaskLost'
    <2> SUFFICES ASSUME NEW t \in Task, Exists(t)' PROVE Filed(t)'
      BY DEF NoTaskLost
    <2>1. CASE t \in Grouped(ts)
      <3>1. group'[hash[t].group][t] # Nil /\ hash[t].group \in Group
        BY <2>1, <1>4, <1>5, TimeInt
      <3> QED BY <2>1, <3>1, <1>3 DEF Filed
    <2>2. CASE t \in ts \ Grouped(ts)
      <3>1. t \in Ids(pending')
        BY <2>2, <1>2 DEF Pushed, Ids
      <3> QED BY <2>2, <3>1, <1>3 DEF Filed
    <2>3. CASE t \notin ts
      <3>1. hash'[t] = hash[t] /\ Filed(t)
        BY <2>3, <1>3 DEF NoTaskLost
      <3>2. t \in Ids(pending) => t \in Ids(pending')
        BY <1>2 DEF Pushed, Ids
      <3>3. \A g \in Group : group'[g][t] = group[g][t]
        BY <2>3, <1>4, <1>5
      <3>4. scheduled'[t] = scheduled[t] /\ retry'[t] = retry[t]
        BY <2>3
      <3> QED BY <3>1, <3>2, <3>3, <3>4, <1>6 DEF Filed
    <2> QED BY <2>1, <2>2, <2>3
  <1> QED BY <1>t, <1>q, <1>g, <1>d, <1>l, <1>a, <1>n

\* forwardCmd on scheduled keeps the invariant.
LEMMA ForwardScheduledInv ==
    ASSUME IInv, NEW now \in Int, ForwardScheduled(now)
    PROVE  IInv'
  <1>1. PICK ts \in SUBSET UpTo(scheduled, now) :
           scheduled' = ZRem(scheduled, ts) /\ ForwardMoved(scheduled, ts, now) /\ UNCHANGED retry
    BY DEF ForwardScheduled, ForwardBatch, LowestOf
  <1>2. ts \in SUBSET Task /\ \A t \in ts : scheduled[t] # Nil
    BY DEF UpTo, Members
  <1>3. \A t \in ts : HasState(t, "scheduled") /\ retry[t] = Nil
    BY <1>2 DEF IInv, Consistent, IndexMatchesState, QueueIndex, HasState
  <1>4. /\ scheduled' \in ZSet /\ retry' \in ZSet /\ scheduled \in ZSet
        /\ \A t \in Task : /\ scheduled'[t] = IF t \in ts THEN Nil ELSE scheduled[t]
                           /\ retry'[t] = IF t \in ts THEN Nil ELSE retry[t]
    BY <1>1, <1>3, ZTypes DEF ZRem, IInv, TypeOK
  <1> QED BY <1>1, <1>2, <1>3, <1>4, ForwardMovedInv

\* forwardCmd on retry keeps the invariant.
LEMMA ForwardRetryInv ==
    ASSUME IInv, NEW now \in Int, ForwardRetry(now)
    PROVE  IInv'
  <1>1. PICK ts \in SUBSET UpTo(retry, now) :
           retry' = ZRem(retry, ts) /\ ForwardMoved(retry, ts, now) /\ UNCHANGED scheduled
    BY DEF ForwardRetry, ForwardBatch, LowestOf
  <1>2. ts \in SUBSET Task /\ \A t \in ts : retry[t] # Nil
    BY DEF UpTo, Members
  <1>3. \A t \in ts : HasState(t, "retry") /\ scheduled[t] = Nil
    BY <1>2 DEF IInv, Consistent, IndexMatchesState, QueueIndex, HasState
  <1>4. /\ retry' \in ZSet /\ scheduled' \in ZSet /\ retry \in ZSet
        /\ \A t \in Task : /\ retry'[t] = IF t \in ts THEN Nil ELSE retry[t]
                           /\ scheduled'[t] = IF t \in ts THEN Nil ELSE scheduled[t]
    BY <1>1, <1>3, ZTypes DEF ZRem, IInv, TypeOK
  <1> QED BY <1>1, <1>2, <1>3, <1>4, ForwardMovedInv

\* ZADD XX on the leases keeps the invariant: it adds no lease.
LEMMA ExtendLeaseInv ==
    ASSUME IInv, NEW ts \in SUBSET Task, NEW until \in Int, ExtendLease(ts, until)
    PROVE  IInv'
  <1> USE NilAssumption DEF IInv, Consistent, IndexMatchesState, zsetVars, groupVars, statVars,
          Exists, HasState, Members, ZSet, ExtendLease
  <1>t. TypeOK'
    BY TimeInt DEF TypeOK
  <1>q. QueueIndex'
    BY TimeInt DEF TypeOK, QueueIndex, Entry
  <1>g. GroupIndex'
    BY TimeInt DEF TypeOK, QueueIndex, GroupIndex, Entry
  <1>d. NoDuplicatePending'
    BY TimeInt DEF NoDuplicatePending
  <1>l. LeaseMatchesActive'
    BY TimeInt DEF TypeOK, LeaseMatchesActive
  <1>a. AggregatedOnce'
    BY TimeInt DEF TypeOK, AggregatedOnce, GroupIndex
  <1>n. NoTaskLost'
    BY TimeInt DEF TypeOK, NoTaskLost, Filed, QueueIndex, GroupIndex, Ids
  <1> QED BY <1>t, <1>q, <1>g, <1>d, <1>l, <1>a, <1>n

\* WriteResult keeps the invariant: the hash it creates has no state.
LEMMA WriteResultInv ==
    ASSUME IInv, NEW t \in Task, WriteResult(t)
    PROVE  IInv'
  <1> USE NilAssumption DEF IInv, Consistent, IndexMatchesState, zsetVars, groupVars, statVars,
          Exists, HasState, Members, ZSet
  <1>1. /\ hash' = [hash EXCEPT ![t] = NewHash(Nil, Nil)]
        /\ ~Exists(t)
        /\ NewHash(Nil, Nil) \in Hash /\ NewHash(Nil, Nil).state = Nil
    BY DEF WriteResult, NewHash, Hash
  <1>2. Nil \notin {"pending", "active", "scheduled", "retry", "completed", "aggregating"}
    BY DEF States
  <1>3. UNCHANGED <<pending, active, lease, zsetVars, groupVars, lock, paused, statVars>>
    BY DEF WriteResult
  <1>t. TypeOK'
    BY <1>1, <1>2, <1>3 DEF TypeOK
  <1>q. QueueIndex'
    BY <1>1, <1>2, <1>3 DEF TypeOK, QueueIndex, Entry
  <1>g. GroupIndex'
    BY <1>1, <1>2, <1>3 DEF TypeOK, QueueIndex, GroupIndex, Entry
  <1>d. NoDuplicatePending'
    BY <1>1, <1>2, <1>3 DEF NoDuplicatePending
  <1>l. LeaseMatchesActive'
    BY <1>1, <1>2, <1>3 DEF TypeOK, LeaseMatchesActive
  <1>a. AggregatedOnce'
    BY <1>1, <1>2, <1>3 DEF TypeOK, AggregatedOnce, GroupIndex
  <1>n. NoTaskLost'
    BY <1>1, <1>2, <1>3 DEF TypeOK, NoTaskLost, Filed, QueueIndex, GroupIndex, Ids
  <1> QED BY <1>t, <1>q, <1>g, <1>d, <1>l, <1>a, <1>n

\* updateTaskPayloadCmd keeps the invariant.
LEMMA UpdateTaskPayloadInv ==
    ASSUME IInv, NEW t \in Task, NEW m \in Msg, UpdateTaskPayload(t, m)
    PROVE  IInv'
  <1> USE NilAssumption DEF IInv, Consistent, IndexMatchesState, zsetVars, groupVars, statVars,
          Exists, HasState, Members, ZSet
  <1>1. /\ hash' \in [Task -> Hash \cup {Nil}]
        /\ hash'[t] # Nil /\ hash'[t].msg # Nil
        /\ hash'[t].state = hash[t].state /\ hash'[t].group = hash[t].group
        /\ \A u \in Task \ {t} : hash'[u] = hash[u]
    <2>1. hash[t] \in Hash
      BY DEF UpdateTaskPayload, TypeOK
    <2>2. [hash[t] EXCEPT !.msg = m] \in Hash
      BY <2>1 DEF Hash
    <2>3. hash' = [hash EXCEPT ![t] = [hash[t] EXCEPT !.msg = m]]
      BY DEF UpdateTaskPayload
    <2> QED BY <2>1, <2>2, <2>3 DEF TypeOK, Hash
  <1>2. UNCHANGED <<pending, active, lease, zsetVars, groupVars, lock, paused, statVars>>
    BY DEF UpdateTaskPayload
  <1>3. Exists(t)
    BY DEF UpdateTaskPayload
  <1>4. \A u \in Task : \A s : HasState(u, s) => HasState(u, s)'
    BY <1>1
  <1>t. TypeOK'
    BY <1>1, <1>2, <1>3 DEF TypeOK
  <1>q. QueueIndex'
    <2>1. \A e \in pending' : HasState(e.id, "pending")'
      BY <1>2, <1>4 DEF TypeOK, QueueIndex, Entry
    <2>2. \A u \in active' : HasState(u, "active")'
      BY <1>2, <1>4 DEF TypeOK, QueueIndex
    <2> QED BY <1>2, <1>4, <2>1, <2>2 DEF QueueIndex
  <1>g. GroupIndex'
    BY <1>1, <1>2, <1>3 DEF TypeOK, QueueIndex, GroupIndex, Entry
  <1>d. NoDuplicatePending'
    BY <1>1, <1>2, <1>3 DEF NoDuplicatePending
  <1>l. LeaseMatchesActive'
    BY <1>1, <1>2, <1>3 DEF TypeOK, LeaseMatchesActive
  <1>a. AggregatedOnce'
    BY <1>1, <1>2, <1>3 DEF TypeOK, AggregatedOnce, GroupIndex
  <1>n. NoTaskLost'
    BY <1>1, <1>2, <1>3 DEF TypeOK, NoTaskLost, Filed, QueueIndex, GroupIndex, Ids
  <1> QED BY <1>t, <1>q, <1>g, <1>d, <1>l, <1>a, <1>n

\* Pause and Unpause keep the invariant.
LEMMA PauseInv ==
    ASSUME IInv, Pause \/ Unpause
    PROVE  IInv'
  <1>1. /\ paused' \in BOOLEAN
        /\ UNCHANGED <<hash, pending, active, lease, scheduled, retry, archived, completed>>
        /\ UNCHANGED <<group, groups, aggset, aggsets, lock, processed, failed>>
    BY DEF Pause, Unpause, zsetVars, groupVars, statVars
  <1> QED BY <1>1 DEF IInv, TypeOK, Consistent, IndexMatchesState, QueueIndex, GroupIndex,
             HasState, Exists, NoDuplicatePending, LeaseMatchesActive, AggregatedOnce,
             NoTaskLost, Filed, Ids

\* aggregationCheckCmd keeps the invariant: each task goes to one set, with a
\* deadline.
LEMMA AggregationCheckInv ==
    ASSUME IInv, NEW g \in Group, NEW s \in SetID, NEW now \in Time, NEW deadline \in Time,
           AggregationCheck(g, s, now, GroupMaxSize, GroupMaxDelay, GroupGracePeriod, deadline)
    PROVE  IInv'
  <1> USE NilAssumption DEF IInv, Consistent, IndexMatchesState, zsetVars, groupVars, statVars,
          Exists, HasState, Members, ZSet
  <1> DEFINE k == <<g, s>>
  <1>k. k \in AggKey /\ k[1] = g
    BY DEF AggKey
  <1>1. PICK ts \in SUBSET Members(group[g]) :
          /\ aggset' = [aggset EXCEPT ![k] =
                          [t \in Task |-> IF t \in ts THEN group[g][t] ELSE aggset[k][t]]]
          /\ group' = [group EXCEPT ![g] = ZRem(group[g], ts)]
          /\ groups' \subseteq Group
    BY DEF AggregationCheck, Lowest, LowestOf, TypeOK
  <1>2. aggsets' = [aggsets EXCEPT ![k] = deadline] /\ \A t \in Task : aggset[k][t] = Nil
    BY DEF AggregationCheck
  <1>3. UNCHANGED <<hash, pending, active, lease, zsetVars, lock, paused, statVars>>
    BY DEF AggregationCheck
  <1> HIDE DEF k
  <1>4. /\ \A t \in ts : t \in Task /\ group[g][t] # Nil
        /\ group' \in [Group -> ZSet] /\ aggset' \in [AggKey -> ZSet]
        /\ aggsets' \in [AggKey -> Int \cup {Nil}]
    BY <1>1, <1>2, <1>k, TimeInt DEF TypeOK, ZRem
  <1>5. /\ \A h \in Group, t \in Task :
              group'[h][t] = IF h = g /\ t \in ts THEN Nil ELSE group[h][t]
        /\ \A l \in AggKey, t \in Task :
              aggset'[l][t] = IF l = k /\ t \in ts THEN group[g][t] ELSE aggset[l][t]
        /\ \A l \in AggKey : l # k => aggsets'[l] = aggsets[l]
        /\ aggsets'[k] # Nil
    BY <1>1, <1>2, <1>k, TimeInt DEF TypeOK, ZRem
  <1>6. \A t \in ts : /\ \A l \in AggKey : aggset[l][t] = Nil
                      /\ \A h \in Group : h # g => group[h][t] = Nil
    <2>1. \A t \in ts : \A l \in AggKey : aggset[l][t] = Nil
      BY <1>4, WaitingSets DEF Waiting
    <2> QED BY <1>4, <2>1 DEF GroupIndex
  <1>t. TypeOK'
    BY <1>1, <1>3, <1>4 DEF TypeOK
  <1>q. QueueIndex'
    BY <1>k, <1>3, <1>4, <1>5, <1>6 DEF TypeOK, QueueIndex, Entry
  <1>g. GroupIndex'
    BY <1>k, <1>3, <1>4, <1>5, <1>6 DEF TypeOK, QueueIndex, GroupIndex, Entry
  <1>d. NoDuplicatePending'
    BY <1>k, <1>3, <1>4, <1>5, <1>6 DEF NoDuplicatePending
  <1>l. LeaseMatchesActive'
    BY <1>k, <1>3, <1>4, <1>5, <1>6 DEF TypeOK, LeaseMatchesActive
  <1>a. AggregatedOnce'
    <2> SUFFICES ASSUME NEW l \in AggKey, NEW t \in Task, aggset'[l][t] # Nil
                 PROVE  /\ aggsets'[l] # Nil
                        /\ group'[l[1]][t] = Nil
                        /\ \A j \in AggKey : j # l => aggset'[j][t] = Nil
      BY DEF AggregatedOnce
    <2>1. l[1] \in Group
      BY DEF AggKey
    <2>2. CASE t \in ts
      BY <1>k, <1>5, <1>6, <2>1, <2>2
    <2>3. CASE t \notin ts
      BY <1>5, <2>1, <2>3 DEF AggregatedOnce
    <2> QED BY <2>2, <2>3
  <1>n. NoTaskLost'
    <2> SUFFICES ASSUME NEW t \in Task, Exists(t)' PROVE Filed(t)'
      BY DEF NoTaskLost
    <2>1. Filed(t)
      BY <1>3 DEF NoTaskLost
    <2>2. CASE t \in ts
      BY <1>3, <1>4, <1>5, <1>k, <2>1, <2>2 DEF Filed
    <2>3. CASE t \notin ts
      BY <1>3, <1>5, <2>1, <2>3 DEF Filed
    <2> QED BY <2>2, <2>3
  <1> QED BY <1>t, <1>q, <1>g, <1>d, <1>l, <1>a, <1>n

\* deleteAggregationSetCmd keeps the invariant: the tasks it deletes are nowhere
\* else.
LEMMA DeleteAggregationSetInv ==
    ASSUME IInv, NEW k \in AggKey, DeleteAggregationSet(k)
    PROVE  IInv'
  <1> USE NilAssumption DEF IInv, Consistent, IndexMatchesState, zsetVars, groupVars, statVars,
          Exists, HasState, Members, ZSet
  <1>1. /\ hash' = [t \in Task |-> IF t \in Members(aggset[k]) THEN Nil ELSE hash[t]]
        /\ aggset' = [aggset EXCEPT ![k] = EmptyZ]
        /\ aggsets' = [aggsets EXCEPT ![k] = Nil]
        /\ UNCHANGED <<pending, active, lease, zsetVars, group, groups, lock, paused, statVars>>
    BY DEF DeleteAggregationSet
  <1>2. /\ \A t \in Task : hash'[t] = IF aggset[k][t] # Nil THEN Nil ELSE hash[t]
        /\ \A l \in AggKey, t \in Task : aggset'[l][t] = IF l = k THEN Nil ELSE aggset[l][t]
        /\ \A l \in AggKey : l # k => aggsets'[l] = aggsets[l]
        /\ hash' \in [Task -> Hash \cup {Nil}]
        /\ aggset' \in [AggKey -> ZSet] /\ aggsets' \in [AggKey -> Int \cup {Nil}]
    BY <1>1 DEF TypeOK, EmptyZ
  <1>3. \A t \in Task : aggset[k][t] # Nil =>
          /\ HasState(t, "aggregating")
          /\ \A g \in Group : group[g][t] = Nil
          /\ \A l \in AggKey : l # k => aggset[l][t] = Nil
    BY DEF GroupIndex, AggregatedOnce
  <1>t. TypeOK'
    BY <1>1, <1>2, <1>3 DEF TypeOK
  <1>q. QueueIndex'
    BY <1>1, <1>2, <1>3 DEF TypeOK, QueueIndex, Entry
  <1>g. GroupIndex'
    BY <1>1, <1>2, <1>3 DEF TypeOK, QueueIndex, GroupIndex, Entry
  <1>d. NoDuplicatePending'
    BY <1>1, <1>2, <1>3 DEF NoDuplicatePending
  <1>l. LeaseMatchesActive'
    BY <1>1, <1>2, <1>3 DEF TypeOK, LeaseMatchesActive
  <1>a. AggregatedOnce'
    BY <1>1, <1>2, <1>3 DEF TypeOK, AggregatedOnce, GroupIndex
  <1>n. NoTaskLost'
    BY <1>1, <1>2, <1>3 DEF TypeOK, NoTaskLost, Filed, QueueIndex, GroupIndex, Ids
  <1> QED BY <1>t, <1>q, <1>g, <1>d, <1>l, <1>a, <1>n

\* reclaimStateAggregationSetsCmd keeps the invariant: the tasks of a set are in no
\* other set and not in the group they return to.
LEMMA ReclaimStaleAggregationSetsInv ==
    ASSUME IInv, NEW now \in Time, ReclaimStaleAggregationSets(now)
    PROVE  IInv'
  <1> USE NilAssumption DEF IInv, Consistent, IndexMatchesState, zsetVars, groupVars, statVars,
          Exists, HasState, Members, ZSet
  <1> DEFINE stale == {k \in AggKey : aggsets[k] # Nil /\ aggsets[k] <= now}
             Sources(g, t) == {k \in stale : k[1] = g /\ aggset[k][t] # Nil}
  <1>1. /\ group' = [g \in Group |-> [t \in Task |->
                    IF Sources(g, t) = {} THEN group[g][t]
                    ELSE aggset[CHOOSE k \in Sources(g, t) : TRUE][t]]]
        /\ aggset' = [k \in AggKey |-> IF k \in stale THEN EmptyZ ELSE aggset[k]]
        /\ aggsets' = [k \in AggKey |-> IF k \in stale THEN Nil ELSE aggsets[k]]
        /\ UNCHANGED <<hash, pending, active, lease, zsetVars, groups, lock, paused, statVars>>
    BY DEF ReclaimStaleAggregationSets
  <1>2. \A g \in Group, t \in Task : Sources(g, t) # {} =>
          (CHOOSE k \in Sources(g, t) : TRUE) \in Sources(g, t)
    OBVIOUS
  <1>3. \A g \in Group, t \in Task :
          \/ group'[g][t] = group[g][t] /\ ~\E k \in stale : k[1] = g /\ aggset[k][t] # Nil
          \/ \E k \in stale : k[1] = g /\ aggset[k][t] # Nil /\ group'[g][t] = aggset[k][t]
    <2> SUFFICES ASSUME NEW g \in Group, NEW t \in Task
                 PROVE  \/ /\ group'[g][t] = group[g][t]
                           /\ ~\E k \in stale : k[1] = g /\ aggset[k][t] # Nil
                        \/ \E k \in stale : /\ k[1] = g /\ aggset[k][t] # Nil
                                            /\ group'[g][t] = aggset[k][t]
      OBVIOUS
    <2> DEFINE src == CHOOSE k \in Sources(g, t) : TRUE
    <2>0. group'[g][t] = IF Sources(g, t) = {} THEN group[g][t] ELSE aggset[src][t]
      BY <1>1
    <2>1. CASE Sources(g, t) = {}
      BY <2>0, <2>1
    <2>2. CASE Sources(g, t) # {}
      <3>1. src \in Sources(g, t)
        BY <1>2, <2>2
      <3>2. group'[g][t] = aggset[src][t]
        BY <2>0, <2>2
      <3> HIDE DEF src
      <3> QED BY <3>1, <3>2
    <2> QED BY <2>1, <2>2
  <1>4. /\ \A k \in stale : k \in AggKey /\ k[1] \in Group
        /\ \A k \in AggKey, t \in Task : aggset'[k][t] = IF k \in stale THEN Nil ELSE aggset[k][t]
        /\ \A k \in AggKey : aggsets'[k] = IF k \in stale THEN Nil ELSE aggsets[k]
        /\ aggset' \in [AggKey -> ZSet] /\ aggsets' \in [AggKey -> Int \cup {Nil}]
    BY <1>1 DEF TypeOK, EmptyZ, AggKey
  <1>5. group' \in [Group -> ZSet]
    BY <1>1, <1>3, <1>4 DEF TypeOK
  <1>6. UNCHANGED <<hash, pending, active, lease, zsetVars, groups, lock, paused, statVars>>
    BY <1>1
  <1> HIDE DEF stale, Sources
  <1>t. TypeOK'
    BY <1>4, <1>5, <1>6 DEF TypeOK
  <1>q. QueueIndex'
    BY <1>6 DEF TypeOK, QueueIndex, Entry
  <1>g. GroupIndex'
    <2>1. ASSUME NEW t \in Task, NEW g \in Group, group'[g][t] # Nil
          PROVE  HasState(t, "aggregating") /\ hash[t].group = g
      BY <1>3, <1>4, <2>1 DEF GroupIndex
    <2>2. ASSUME NEW t \in Task, NEW k \in AggKey, aggset'[k][t] # Nil
          PROVE  HasState(t, "aggregating") /\ hash[t].group = k[1]
      BY <1>4, <2>2 DEF GroupIndex
    <2> QED BY <1>6, <2>1, <2>2 DEF GroupIndex
  <1>d. NoDuplicatePending'
    BY <1>6 DEF NoDuplicatePending
  <1>l. LeaseMatchesActive'
    BY <1>6 DEF TypeOK, LeaseMatchesActive
  <1>a. AggregatedOnce'
    BY <1>3, <1>4, <1>6 DEF AggregatedOnce, AggKey, GroupIndex
  <1>n. NoTaskLost'
    <2> SUFFICES ASSUME NEW t \in Task, Exists(t)' PROVE Filed(t)'
      BY DEF NoTaskLost
    <2>1. Filed(t)
      BY <1>6 DEF NoTaskLost
    <2>2. (\E g \in Group : group[g][t] # Nil) \/ (\E k \in AggKey : aggset[k][t] # Nil) =>
          (\E g \in Group : group'[g][t] # Nil) \/ (\E k \in AggKey : aggset'[k][t] # Nil)
      <3>1. ASSUME NEW g \in Group, group[g][t] # Nil
            PROVE  group'[g][t] # Nil
        BY <1>3, <3>1
      <3>2. ASSUME NEW k \in AggKey, aggset[k][t] # Nil
            PROVE  aggset'[k][t] # Nil \/ group'[k[1]][t] # Nil
        <4>1. k[1] \in Group
          BY DEF AggKey
        <4>2. CASE k \in stale
          BY <1>3, <3>2, <4>1, <4>2
        <4>3. CASE k \notin stale
          BY <1>4, <3>2, <4>3
        <4> QED BY <4>2, <4>3
      <3>3. \A k \in AggKey : k[1] \in Group
        BY DEF AggKey
      <3> QED BY <3>1, <3>2, <3>3
    <2> QED BY <1>6, <2>1, <2>2 DEF Filed
  <1> QED BY <1>t, <1>q, <1>g, <1>d, <1>l, <1>a, <1>n

-----------------------------------------------------------------------------
(* The theorems.                                                            *)

\* The empty database satisfies the invariant.
LEMMA InitInv == Init => IInv
  <1> SUFFICES ASSUME Init PROVE IInv
    OBVIOUS
  <1>1. TypeOK
    <2>1. EmptyZ \in ZSet
      BY DEF EmptyZ, ZSet
    <2>2. 0 \in 0 .. MaxCount
      BY BoundsAssumption
    <2> QED BY <2>1, <2>2 DEF Init, TypeOK
  <1>2. Consistent
    BY
       DEF Init, EmptyZ, Consistent, IndexMatchesState, QueueIndex, GroupIndex, NoDuplicatePending,
           LeaseMatchesActive, AggregatedOnce, AggKey, NoTaskLost, Exists, Ids
  <1> QED BY <1>1, <1>2 DEF IInv

\* Every script of a client keeps the invariant.
LEMMA ClientInv == IInv /\ ClientNext => IInv'
    BY EnqueueInv, EnqueueUniqueInv, ScheduleInv, ScheduleUniqueInv,
       AddToGroupInv, AddToGroupUniqueInv DEF ClientNext

\* Every script of a server keeps the invariant.
LEMMA ExecutionInv == IInv /\ ExecutionNext => IInv'
    BY TimeInt, DequeueInv, DoneInv, MarkAsCompleteInv, RequeueInv, RetryInv, ArchiveInv,
       WriteResultInv, ExtendLeaseInv DEF ExecutionNext

\* Every script of the background components, and Redis, keep the invariant.
LEMMA BackgroundInv == IInv /\ BackgroundNext => IInv'
    BY TimeInt, ForwardScheduledInv, ForwardRetryInv, DeleteExpiredCompletedTasksInv,
       AggregationCheckInv, DeleteAggregationSetInv, ReclaimStaleAggregationSetsInv,
       LockExpireInv DEF BackgroundNext

\* Every script of the Inspector keeps the invariant.
LEMMA InspectorInv == IInv /\ InspectorNext => IInv'
    BY RunTaskInv, DeleteTaskInv, ArchiveTaskInv, UpdateTaskPayloadInv,
       RunAllScheduledTasksInv, RunAllRetryTasksInv, RunAllArchivedTasksInv,
       RunAllAggregatingTasksInv, ArchiveAllScheduledTasksInv, ArchiveAllRetryTasksInv,
       ArchiveAllPendingTasksInv, ArchiveAllAggregatingTasksInv,
       DeleteAllScheduledTasksInv, DeleteAllRetryTasksInv, DeleteAllArchivedTasksInv,
       DeleteAllCompletedTasksInv, DeleteAllPendingTasksInv, DeleteAllAggregatingTasksInv,
       RemoveQueueForceInv, PauseInv DEF InspectorNext

\* A stuttering step keeps the invariant.
LEMMA StutterInv == IInv /\ UNCHANGED vars => IInv'
    BY DEF IInv, TypeOK, Consistent, IndexMatchesState, QueueIndex, GroupIndex,
           HasState, Exists, NoDuplicatePending, LeaseMatchesActive, AggregatedOnce,
           NoTaskLost, Filed, Ids, vars, zsetVars, groupVars, statVars

\* IInv is an invariant of the queue under every script of internal/rdb, for any
\* number of tasks, groups, clients and servers and any clocks.
THEOREM Invariance == Spec => []IInv
  <1>1. IInv /\ [Next]_vars => IInv'
    BY ClientInv, ExecutionInv, BackgroundInv, InspectorInv, StutterInv DEF Next
  <1> QED BY <1>1, InitInv, PTL DEF Spec

\* Every key keeps its type.
THEOREM TypeCorrect == Spec => []TypeOK
    BY Invariance, PTL DEF IInv

\* Lists, sets and task hashes agree after every script.
THEOREM IndexTheorem == Spec => []IndexMatchesState
    BY Invariance, PTL DEF IInv, Consistent

\* No script, in any order, puts an ID in pending twice.
THEOREM NoDuplicateTheorem == Spec => []NoDuplicatePending
    BY Invariance, PTL DEF IInv, Consistent

\* A task is in active exactly while it has a lease.
THEOREM LeaseTheorem == Spec => []LeaseMatchesActive
    BY Invariance, PTL DEF IInv, Consistent

\* A task is in at most one aggregation set, not also in its group, and the set
\* has a deadline.
THEOREM AggregationTheorem == Spec => []AggregatedOnce
    BY Invariance, PTL DEF IInv, Consistent

\* No script loses a task that waits or runs.
THEOREM NoTaskLostTheorem == Spec => []NoTaskLost
    BY Invariance, PTL DEF IInv, Consistent

-----------------------------------------------------------------------------
(* Action properties.                                                       *)

\* A step that rewrites the hashes of waiting tasks only keeps the active ones.
LEMMA WaitingKept ==
    ASSUME IInv, NEW ts, Waiting(ts), UNCHANGED <<active, lease>>,
           \A t \in Task \ ts : hash'[t] = hash[t]
    PROVE  ActiveKept
    BY DEF IInv, TypeOK, Consistent, IndexMatchesState, QueueIndex, HasState,
           Waiting, ActiveKept

\* No Inspector script changes active, a lease or the hash of an active task.
LEMMA InspectorKeepsActive == IInv /\ InspectorNext => ActiveKept
  <1> SUFFICES ASSUME IInv, InspectorNext PROVE ActiveKept
    OBVIOUS
  <1>1. ASSUME NEW t \in Task,
               \/ RunTask(t) \/ DeleteTask(t)
               \/ \E now \in Time : ArchiveTask(t, now)
               \/ \E m \in Msg : UpdateTaskPayload(t, m)
        PROVE  ActiveKept
    <2>1. hash[t].state # "active"
      BY <1>1 DEF RunTask, DeleteTask, ArchiveTask, UpdateTaskPayload, InNamedSet, StateOf
    <2>2. t \notin active
      BY <2>1 DEF IInv, Consistent, IndexMatchesState, QueueIndex, HasState
    <2>3. UNCHANGED <<active, lease>> /\ \A u \in Task \ {t} : hash'[u] = hash[u]
      BY <1>1 DEF RunTask, DeleteTask, ArchiveTask, UpdateTaskPayload, ArchiveMoved,
                  IInv, TypeOK
    <2> QED BY <2>2, <2>3 DEF ActiveKept, IInv, TypeOK
  <1>2. ASSUME NEW z \in ZSet, Waiting(Members(z)), RunMoved(z) PROVE ActiveKept
    BY <1>2, WaitingKept DEF RunMoved, Members
  <1>3. ASSUME NEW ts, NEW now \in Time, Waiting(ts), ArchiveMoved(ts, now) PROVE ActiveKept
    BY <1>3, WaitingKept DEF ArchiveMoved
  <1>4. ASSUME NEW ts, Waiting(ts), DeleteMoved(ts) PROVE ActiveKept
    BY <1>4, WaitingKept DEF DeleteMoved
  <1>5. CASE RunAllScheduledTasks \/ RunAllRetryTasks \/ RunAllArchivedTasks
    BY <1>2, <1>5, WaitingSets DEF RunAllScheduledTasks, RunAllRetryTasks,
       RunAllArchivedTasks, IInv, TypeOK
  <1>6. ASSUME NEW g \in Group,
               \/ RunAllAggregatingTasks(g) \/ DeleteAllAggregatingTasks(g)
               \/ \E now \in Time : ArchiveAllAggregatingTasks(g, now)
        PROVE  ActiveKept
    <2>1. group[g] \in ZSet /\ Waiting(Members(group[g]))
      BY WaitingSets DEF IInv, TypeOK
    <2> QED BY <1>2, <1>3, <1>4, <1>6, <2>1
            DEF RunAllAggregatingTasks, ArchiveAllAggregatingTasks, DeleteAllAggregatingTasks
  <1>7. ASSUME NEW now \in Time,
               \/ ArchiveAllScheduledTasks(now) \/ ArchiveAllRetryTasks(now)
               \/ ArchiveAllPendingTasks(now)
        PROVE  ActiveKept
    BY <1>3, <1>7, WaitingSets DEF ArchiveAllScheduledTasks, ArchiveAllRetryTasks,
       ArchiveAllPendingTasks
  <1>8. CASE \/ DeleteAllScheduledTasks \/ DeleteAllRetryTasks \/ DeleteAllArchivedTasks
             \/ DeleteAllCompletedTasks \/ DeleteAllPendingTasks
    BY <1>4, <1>8, WaitingSets DEF DeleteAllScheduledTasks, DeleteAllRetryTasks,
       DeleteAllArchivedTasks, DeleteAllCompletedTasks, DeleteAllPendingTasks
  <1>9. CASE RemoveQueueForce
    BY <1>9 DEF RemoveQueueForce, ActiveKept, EmptyZ, IInv, Consistent,
                LeaseMatchesActive, TypeOK, ZSet
  <1>10. CASE Pause \/ Unpause
    BY <1>10 DEF Pause, Unpause, ActiveKept
  <1> QED BY <1>1, <1>5, <1>6, <1>7, <1>8, <1>9, <1>10 DEF InspectorNext

\* No Inspector call ever touches a task that a worker is running.
THEOREM ActiveUntouchedTheorem == Spec => ActiveUntouched
  <1>1. IInv /\ [Next]_vars => [InspectorNext => ActiveKept]_vars
    BY InspectorKeepsActive
  <1> QED BY <1>1, Invariance, PTL DEF Spec, ActiveUntouched

\* A script that deletes a lock deletes it for its holder.
LEMMA LockReleases ==
    ASSUME TypeOK, NEW k \in Key, lock[k] # Nil
    PROVE  /\ \A m, t : Released(m, t)[k] # lock[k] =>
                 Released(m, t)[k] = Nil /\ lock[k] = t
           /\ \A ts : ReleasedBy(ts)[k] # lock[k] =>
                 ReleasedBy(ts)[k] = Nil /\ lock[k] \in ts
    BY DEF Released, ReleasedBy

\* Every step gives up a lock only by expiry, or with its holder completed or gone.
LEMMA LockStepHolds == IInv /\ Next => LockStep
  <1> SUFFICES ASSUME IInv, Next, NEW k \in Key, lock[k] # Nil, lock'[k] # lock[k]
               PROVE  LockGivenUp(k)
    BY DEF LockStep
  <1>0. TypeOK
    BY DEF IInv
  <1>1. ~ClientNext
    BY <1>0 DEF ClientNext, Enqueue, EnqueueUnique, Schedule, ScheduleUnique,
                AddToGroup, AddToGroupUnique, TypeOK
  <1>2. CASE ExecutionNext
    <2>1. ASSUME NEW t \in Task, NEW m \in Msg, Done(t, m) PROVE LockGivenUp(k)
      BY <1>0, <2>1, LockReleases DEF Done, LockGivenUp, TypeOK
    <2>2. ASSUME NEW t \in Task, NEW m \in Msg, NEW until \in Time, MarkAsComplete(t, m, until)
          PROVE  LockGivenUp(k)
      <3>1. /\ lock' = Released(m, t)
            /\ hash' = [hash EXCEPT ![t] = HSetMsgState(t, m, "completed")]
        BY <2>2 DEF MarkAsComplete
      <3>2. lock'[k] = Nil /\ lock[k] = t
        BY <1>0, <3>1, LockReleases
      <3>3. hash'[t].state = "completed"
        BY <1>0, <3>1 DEF TypeOK, HSetMsgState, NewHash, Exists, Hash
      <3> QED BY <3>2, <3>3 DEF LockGivenUp
    <2> QED BY <1>2, <2>1, <2>2 DEF ExecutionNext, Dequeue, Requeue, Retry, Archive,
                                    WriteResult, ExtendLease
  <1>3. CASE BackgroundNext
    BY <1>0, <1>3 DEF BackgroundNext, ForwardScheduled, ForwardRetry, ForwardMoved,
       DeleteExpiredCompletedTasks, AggregationCheck, DeleteAggregationSet,
       ReclaimStaleAggregationSets, LockExpire, LockGivenUp, TypeOK
  <1>4. CASE InspectorNext
    <2>1. ASSUME NEW ts, lock' = ReleasedBy(ts), \A t \in Task \cap ts : hash'[t] = Nil
          PROVE  LockGivenUp(k)
      BY <1>0, <2>1, LockReleases DEF LockGivenUp, TypeOK
    <2>2. \A t \in Task : DeleteTask(t) => LockGivenUp(k)
      BY <1>0, <2>1 DEF DeleteTask, TypeOK
    <2>3. ASSUME \/ DeleteAllScheduledTasks \/ DeleteAllRetryTasks
                 \/ DeleteAllArchivedTasks \/ DeleteAllCompletedTasks
          PROVE  LockGivenUp(k)
      BY <2>1, <2>3
         DEF DeleteAllScheduledTasks, DeleteAllRetryTasks, DeleteAllArchivedTasks,
                        DeleteAllCompletedTasks, DeleteMoved
    <2> QED
      BY <1>4, <2>2, <2>3
         DEF InspectorNext, RunTask, ArchiveTask, ArchiveMoved, UpdateTaskPayload,
         RunAllScheduledTasks, RunAllRetryTasks, RunAllArchivedTasks, RunAllAggregatingTasks,
         RunMoved, ArchiveAllScheduledTasks, ArchiveAllRetryTasks, ArchiveAllPendingTasks,
         ArchiveAllAggregatingTasks, DeleteAllPendingTasks, DeleteAllAggregatingTasks,
         RemoveQueueForce, Pause, Unpause
  <1> QED BY <1>1, <1>2, <1>3, <1>4 DEF Next

\* A uniqueness lock is never handed over, and given up only by expiry or when its
\* holder is completed or gone.
THEOREM LockTheorem == Spec => LockDiscipline
  <1>1. IInv /\ [Next]_vars => [LockStep]_vars
    BY LockStepHolds
  <1> QED BY <1>1, Invariance, PTL DEF Spec, LockDiscipline

\* The steps that move a total.
Counting(t) ==
    \/ \E m \in Msg : Done(t, m)
    \/ \E m \in Msg, until \in Time : MarkAsComplete(t, m, until)
    \/ \E m \in Msg, at \in Time, isFailure \in BOOLEAN : Retry(t, m, at, isFailure)
    \/ \E m \in Msg, now \in Time : Archive(t, m, now)

\* No other script writes the totals.
LEMMA OnlyCounting ==
    ASSUME Next, UNCHANGED statVars => FALSE
    PROVE  \E t \in Task : Counting(t)
  <1>1. ~ClientNext
    BY DEF ClientNext, Enqueue, EnqueueUnique, Schedule, ScheduleUnique,
           AddToGroup, AddToGroupUnique
  <1>2. ~BackgroundNext
    BY DEF BackgroundNext, ForwardScheduled, ForwardRetry, ForwardMoved,
           DeleteExpiredCompletedTasks, AggregationCheck, DeleteAggregationSet,
           ReclaimStaleAggregationSets, LockExpire
  <1>3. ~InspectorNext
    BY DEF InspectorNext, RunTask, DeleteTask, ArchiveTask, ArchiveMoved, UpdateTaskPayload,
           RunAllScheduledTasks, RunAllRetryTasks, RunAllArchivedTasks, RunAllAggregatingTasks,
           RunMoved, ArchiveAllScheduledTasks, ArchiveAllRetryTasks, ArchiveAllPendingTasks,
           ArchiveAllAggregatingTasks, DeleteAllScheduledTasks, DeleteAllRetryTasks,
           DeleteAllArchivedTasks, DeleteAllCompletedTasks, DeleteAllPendingTasks,
           DeleteAllAggregatingTasks, DeleteMoved, RemoveQueueForce, Pause, Unpause
  <1>4. ExecutionNext
    BY <1>1, <1>2, <1>3 DEF Next
  <1> QED BY <1>4 DEF ExecutionNext, Counting, Dequeue, Requeue, WriteResult, ExtendLease

\* A script that moves a total ends the execution of one active task.
LEMMA CountedOnceStep ==
    ASSUME IInv, Next, <<processed, failed>>' # <<processed, failed>>
    PROVE  /\ \E t \in active : active' = active \ {t}
           /\ failed' # failed =>
                /\ processed' = Incr(processed)
                /\ \E t \in active \ active' : StateOf(t)' \in {"retry", "archived"}
  <1>1. PICK t \in Task : Counting(t)
    BY OnlyCounting DEF statVars
  <1>2. t \in active /\ active' = active \ {t} /\ t \in active \ active'
    BY <1>1 DEF Counting, Done, MarkAsComplete, Retry, Archive, LeaveActive
  <1>3. ASSUME failed' # failed PROVE StateOf(t)' \in {"retry", "archived"}
    <2>1. TypeOK /\ HasState(t, "active") /\ Leased(t)
      BY <1>2 DEF IInv, Consistent, IndexMatchesState, QueueIndex, LeaseMatchesActive, Leased
    <2>2. ~\E m \in Msg : Done(t, m)
      BY <1>3 DEF Done, CountProcessed, statVars
    <2>3. ~\E m \in Msg, until \in Time : MarkAsComplete(t, m, until)
      BY <1>3 DEF MarkAsComplete, CountProcessed, statVars
    <2>4. ASSUME NEW m \in Msg, NEW at \in Time, NEW isFailure \in BOOLEAN,
                 Retry(t, m, at, isFailure)
          PROVE  StateOf(t)' = "retry"
      <3>1. hash' = [hash EXCEPT ![t] = HSetMsgState(t, m, "retry")]
        BY <2>1, <2>4 DEF Retry
      <3>2. HSetMsgState(t, m, "retry") \in Hash /\ HSetMsgState(t, m, "retry").state = "retry"
        BY <2>1, HSetMsgFacts DEF HasState, States
      <3> QED BY <2>1, <3>1, <3>2, NilAssumption DEF TypeOK, StateOf, Exists
    <2>5. ASSUME NEW m \in Msg, NEW now \in Time, Archive(t, m, now)
          PROVE  StateOf(t)' = "archived"
      <3>1. \/ hash'[t] = NewHash(m, "archived")
            \/ hash'[t] = HSetMsgState(t, m, "archived")
        BY <2>1, <2>5 DEF Archive
      <3>2. /\ HSetMsgState(t, m, "archived") \in Hash
            /\ HSetMsgState(t, m, "archived").state = "archived"
        BY <2>1, HSetMsgFacts DEF HasState, States
      <3>3. NewHash(m, "archived") \in Hash /\ NewHash(m, "archived").state = "archived"
        BY NewHashFacts DEF States
      <3> QED BY <3>1, <3>2, <3>3, NilAssumption DEF StateOf, Exists
    <2> QED BY <1>1, <2>2, <2>3, <2>4, <2>5 DEF Counting
  <1>4. ASSUME failed' # failed PROVE processed' = Incr(processed)
    BY <1>1, <1>4 DEF Counting, Done, MarkAsComplete, Retry, Archive, CountProcessed, CountFailed,
                      statVars
  <1> QED BY <1>2, <1>3, <1>4

\* The totals move only when an execution ends, by one task at a time: a repeated
\* Done, MarkAsComplete, Retry or Archive counts nothing, and no failure is
\* counted that is not counted as processed.
THEOREM CountedOnceTheorem == Spec => CountedOnce
  <1>1. IInv /\ [Next]_vars =>
          [<<processed, failed>>' # <<processed, failed>> =>
             /\ \E t \in active : active' = active \ {t}
             /\ failed' # failed =>
                  /\ processed' = Incr(processed)
                  /\ \E t \in active \ active' : StateOf(t)' \in {"retry", "archived"}]_vars
    BY CountedOnceStep
  <1> QED BY <1>1, Invariance, PTL DEF Spec, CountedOnce

-----------------------------------------------------------------------------
(* The size of the archive.                                                 *)

\* A set of tasks is finite.
LEMMA FiniteMembers ==
    ASSUME NEW z
    PROVE  IsFiniteSet(Members(z)) /\ Cardinality(Members(z)) \in Nat
    BY TaskAssumption, FS_Subset, FS_CardinalityType DEF Members

\* What a trim leaves is below the maximum, whatever was added before it.
LEMMA TrimBounds ==
    ASSUME NEW z, NEW now, NEW gone \in Trims(z, now)
    PROVE  Cardinality(Members(ZRem(z, gone))) < MaxArchiveSize
  <1> DEFINE old == UpTo(z, now - ArchivedExpiration)
             left == Members(z) \ old
             n == Cardinality(left) - MaxArchiveSize + 1
  <1>1. left \subseteq Members(z) /\ old \subseteq Members(z)
    BY DEF UpTo
  <1>2. IsFiniteSet(left) /\ Cardinality(left) \in Nat
    BY <1>1, FiniteMembers, FS_Subset, FS_CardinalityType
  <1>3. CASE n <= 0
    <2>1. gone = old
      BY <1>3 DEF Trims
    <2>2. Members(ZRem(z, gone)) = left
      BY <2>1, <1>1 DEF Members, ZRem
    <2> QED BY <1>2, <1>3, <2>2, BoundsAssumption
  <1>4. CASE ~(n <= 0)
    <2>1. PICK x \in LowestOf(z, left, n) : gone = old \cup x
      BY <1>4 DEF Trims
    <2>2. x \subseteq left /\ Cardinality(x) = n
      BY DEF LowestOf
    <2>3. Members(ZRem(z, gone)) = left \ x
      BY <2>1, <2>2, <1>1 DEF Members, ZRem
    <2>4. left \cap x = x
      BY <2>2
    <2> HIDE DEF left
    <2>5. Cardinality(left \ x) = Cardinality(left) - Cardinality(left \cap x)
      BY <1>2, FS_Difference
    <2>6. Cardinality(left \ x) = Cardinality(left) - n
      BY <2>2, <2>4, <2>5
    <2> QED BY <1>2, <2>3, <2>6, BoundsAssumption
  <1> QED BY <1>3, <1>4

\* Every script leaves the archive as it is, takes from it, or trims it.
LEMMA ArchiveSteps ==
    ASSUME IInv, Next
    PROVE  \/ Members(archived') \subseteq Members(archived)
           \/ \E z, now : \E gone \in Trims(z, now) : archived' = ZRem(z, gone)
  <1>1. CASE ClientNext
    BY <1>1 DEF ClientNext, Enqueue, EnqueueUnique, Schedule, ScheduleUnique,
                AddToGroup, AddToGroupUnique, zsetVars
  <1>2. CASE BackgroundNext
    BY <1>2 DEF BackgroundNext, ForwardScheduled, ForwardRetry, ForwardMoved,
           DeleteExpiredCompletedTasks, AggregationCheck, DeleteAggregationSet,
           ReclaimStaleAggregationSets, LockExpire, zsetVars
  <1>3. CASE ExecutionNext
    <2>1. ASSUME NEW t \in Task, NEW m \in Msg, NEW now \in Time, Archive(t, m, now)
          PROVE  \/ archived' = archived
                 \/ \E z : \E gone \in Trims(z, now) : archived' = ZRem(z, gone)
      BY <2>1 DEF Archive
    <2> QED BY <1>3, <2>1 DEF ExecutionNext, Dequeue, Done, MarkAsComplete, Requeue, Retry,
                              WriteResult, ExtendLease, zsetVars
  <1>4. CASE InspectorNext
    <2>1. ASSUME NEW ts, NEW now \in Time, ArchiveMoved(ts, now)
          PROVE  \E z : \E gone \in Trims(z, now) : archived' = ZRem(z, gone)
      BY <2>1 DEF ArchiveMoved
    <2>2. ASSUME NEW now \in Time,
                 \/ ArchiveAllScheduledTasks(now) \/ ArchiveAllRetryTasks(now)
                 \/ ArchiveAllPendingTasks(now)
                 \/ \E t \in Task : ArchiveTask(t, now)
                 \/ \E g \in Group : ArchiveAllAggregatingTasks(g, now)
          PROVE  \E z : \E gone \in Trims(z, now) : archived' = ZRem(z, gone)
      BY <2>1, <2>2 DEF ArchiveAllScheduledTasks, ArchiveAllRetryTasks,
         ArchiveAllPendingTasks, ArchiveTask, ArchiveAllAggregatingTasks
    <2>3. ASSUME NEW t \in Task, RunTask(t) \/ DeleteTask(t)
          PROVE  Members(archived') \subseteq Members(archived)
      BY <2>3 DEF RunTask, DeleteTask, Without, ZRem, Members
    <2>4. Members(EmptyZ) = {}
      BY DEF EmptyZ, Members
    <2>5. ASSUME RunAllArchivedTasks \/ DeleteAllArchivedTasks \/ RemoveQueueForce
          PROVE  Members(archived') \subseteq Members(archived)
      BY <2>4, <2>5 DEF RunAllArchivedTasks, DeleteAllArchivedTasks, RemoveQueueForce
    <2> QED BY <1>4, <2>2, <2>3, <2>5
            DEF InspectorNext, UpdateTaskPayload, RunAllScheduledTasks, RunAllRetryTasks,
                RunAllAggregatingTasks, DeleteAllScheduledTasks, DeleteAllRetryTasks,
                DeleteAllCompletedTasks, DeleteAllPendingTasks, DeleteAllAggregatingTasks,
                Pause, Unpause, zsetVars
  <1> QED BY <1>1, <1>2, <1>3, <1>4 DEF Next

\* The archive never has maxArchiveSize tasks, whichever script adds to it.
THEOREM ArchiveTheorem == Spec => []ArchiveBounded
  <1>1. Init => ArchiveBounded
    <2>1. Members(EmptyZ) = {}
      BY DEF EmptyZ, Members
    <2> QED BY <2>1, FS_EmptySet, BoundsAssumption DEF Init, ArchiveBounded
  <1>2. IInv /\ ArchiveBounded /\ [Next]_vars => ArchiveBounded'
    <2> SUFFICES ASSUME IInv, ArchiveBounded, [Next]_vars PROVE ArchiveBounded'
      OBVIOUS
    <2>1. CASE Members(archived') \subseteq Members(archived)
      <3>1. Cardinality(Members(archived')) <= Cardinality(Members(archived))
        BY <2>1, FiniteMembers, FS_Subset
      <3>2. Cardinality(Members(archived')) \in Nat /\ Cardinality(Members(archived)) \in Nat
        BY FiniteMembers
      <3> QED BY <3>1, <3>2, BoundsAssumption DEF ArchiveBounded
    <2>2. CASE \E z, now : \E gone \in Trims(z, now) : archived' = ZRem(z, gone)
      BY <2>2, TrimBounds DEF ArchiveBounded
    <2>3. CASE UNCHANGED vars
      BY <2>1, <2>3 DEF vars, zsetVars
    <2> QED BY <2>1, <2>2, <2>3, ArchiveSteps
  <1> QED BY <1>1, <1>2, Invariance, PTL DEF Spec

-----------------------------------------------------------------------------
(* The ends of the queue.                                                   *)

\* Entries with different scores, all within the range of the scripts.
Spread(l) ==
    /\ l \subseteq Entry
    /\ \A e \in l : e.score \in Scores
    /\ \A e, f \in l : e.score = f.score => e = f

\* A set of naturals that is not empty has a least element.
LEMMA LeastNatural ==
    ASSUME NEW S \in SUBSET Nat, S # {}
    PROVE  \E n \in S : \A k \in S : n <= k
  <1> DEFINE R == {ss \in Nat \X Nat : ss[1] < ss[2]}
  <1>1. IsWellFoundedOn(R, Nat)
    BY NatLessThanWellFounded DEF OpToRel
  <1> HIDE DEF R
  <1>2. PICK n \in S : \A k \in S : ~(<<k, n>> \in R)
    BY <1>1, WFMin
  <1>3. ASSUME NEW i \in Nat, NEW j \in Nat, ~(<<i, j>> \in R) PROVE ~(i < j)
    <2>1. <<i, j>> \in Nat \X Nat /\ <<i, j>>[1] = i /\ <<i, j>>[2] = j
      OBVIOUS
    <2> QED BY <1>3, <2>1 DEF R
  <1>4. ASSUME NEW k \in S PROVE n <= k
    <2>1. n \in Nat /\ k \in Nat /\ ~(k < n)
      BY <1>2, <1>3
    <2> QED BY <2>1
  <1> QED BY <1>4

\* Such a queue has a first and a last entry.
LEMMA SpreadServable ==
    ASSUME NEW l, Spread(l), l # {}
    PROVE  Heads(l) # {} /\ Tails(l) # {}
  <1>1. /\ MaxScore \in Nat
        /\ \A e \in l : e.score \in Int /\ e.score + MaxScore \in Nat /\ MaxScore - e.score \in Nat
    BY BoundsAssumption DEF Spread, Scores
  <1>2. Heads(l) # {}
    <2>1. PICK n \in {e.score + MaxScore : e \in l} :
            \A k \in {e.score + MaxScore : e \in l} : n <= k
      BY <1>1, LeastNatural
    <2>2. PICK h \in l : n = h.score + MaxScore
      OBVIOUS
    <2>3. \A e \in l : h.score + MaxScore <= e.score + MaxScore
      BY <2>1, <2>2
    <2>4. \A e \in l \ {h} : h.score < e.score
      BY <1>1, <2>3 DEF Spread
    <2> QED BY <2>4 DEF Heads
  <1>3. Tails(l) # {}
    <2>1. PICK n \in {MaxScore - e.score : e \in l} :
            \A k \in {MaxScore - e.score : e \in l} : n <= k
      BY <1>1, LeastNatural
    <2>2. PICK h \in l : n = MaxScore - h.score
      OBVIOUS
    <2>3. \A e \in l : MaxScore - h.score <= MaxScore - e.score
      BY <2>1, <2>2
    <2>4. \A e \in l \ {h} : e.score < h.score
      BY <1>1, <2>3 DEF Spread
    <2> QED BY <2>4 DEF Tails
  <1> QED BY <1>2, <1>3

\* What is taken away leaves the scores apart.
LEMMA SpreadSubset ==
    ASSUME NEW l, Spread(l), NEW q \in SUBSET l
    PROVE  Spread(q)
    BY DEF Spread

\* A score behind the tail is above all others, one in front of the head below.
LEMMA EndScores ==
    ASSUME NEW l, Spread(l)
    PROVE  /\ \A s \in AfterTail(l) : \A e \in l : e.score < s
           /\ \A s \in BeforeHead(l) : \A e \in l : s < e.score
  <1>1. \A e \in l : e.score \in Int
    BY DEF Spread, Entry
  <1>2. ASSUME NEW s \in AfterTail(l), NEW e \in l PROVE e.score < s
    <2>1. PICK h \in Tails(l) : s = h.score + 1
      BY <1>2 DEF AfterTail
    <2> QED BY <1>1, <2>1 DEF Tails
  <1>3. ASSUME NEW s \in BeforeHead(l), NEW e \in l PROVE s < e.score
    <2>1. PICK h \in Heads(l) : s = h.score - 1
      BY <1>3 DEF BeforeHead
    <2> QED BY <1>1, <2>1 DEF Heads
  <1> QED BY <1>2, <1>3

\* One entry with a score of its own.
LEMMA SpreadOne ==
    ASSUME NEW l, Spread(l), NEW t \in Task, NEW s \in Scores, \A e \in l : e.score # s
    PROVE  Spread(Cleared(l, {t}) \cup {[id |-> t, score |-> s]})
  <1>1. Cleared(l, {t}) \subseteq l
    BY DEF Cleared
  <1>2. PICK n : n = [id |-> t, score |-> s]
    OBVIOUS
  <1>3. n \in Entry /\ n.score = s
    BY <1>2, ScoresInt DEF Entry
  <1> QED BY <1>1, <1>2, <1>3 DEF Spread

\* LPUSH and RPUSH, or their ZADD, leave the scores apart.
LEMMA PushOneSpread ==
    ASSUME NEW l, Spread(l), NEW t \in Task, NEW q \in PushOne(l, t) \cup PushFront(l, t)
    PROVE  Spread(q)
  <1>1. PICK s \in Scores : /\ s \in AfterTail(l) \cup BeforeHead(l)
                            /\ q = Cleared(l, {t}) \cup {[id |-> t, score |-> s]}
    BY DEF PushOne, PushFront
  <1>2. s \in Int /\ \A e \in l : e.score \in Int
    BY ScoresInt DEF Spread, Entry
  <1>3. \A e \in l : e.score # s
    BY <1>1, <1>2, EndScores
  <1> QED BY <1>1, <1>3, SpreadOne

\* So do the scripts that push a set of tasks.
LEMMA PushAllSpread ==
    ASSUME NEW l, Spread(l), NEW z, NEW ts \in SUBSET Task, NEW q \in PushAll(l, z, ts)
    PROVE  Spread(q)
  <1>1. PICK p \in Positions(l, z, ts) :
          q = Cleared(l, ts) \cup {[id |-> t, score |-> p[t]] : t \in ts}
    BY DEF PushAll
  <1>2. PICK s \in AfterTail(l) : \A t \in ts : s <= p[t]
    BY DEF Positions
  <1>3. p \in [ts -> Scores] /\ \A t, u \in ts : t # u => p[t] # p[u]
    BY DEF Positions
  <1>4. \A t \in ts : p[t] \in Scores /\ p[t] \in Int
    BY <1>3, ScoresInt
  <1>5. \A e \in l : e.score \in Int
    BY DEF Spread, Entry
  <1>6. CASE l = {}
    <2>1. Cleared(l, ts) = {}
      BY <1>6 DEF Cleared
    <2> DEFINE New(t) == [id |-> t, score |-> p[t]]
    <2>2. q = {New(t) : t \in ts}
      BY <1>1, <2>1
    <2>3. \A t \in ts : New(t) \in Entry /\ New(t).score = p[t]
      BY <1>4 DEF Entry
    <2> HIDE DEF New
    <2> QED BY <1>3, <1>4, <2>2, <2>3 DEF Spread
  <1>7. CASE l # {}
    <2>1. s \in Int
      BY <1>5, <1>7 DEF AfterTail, Tails
    <2>2. \A e \in l : \A t \in ts : e.score # p[t]
      BY <1>2, <1>4, <1>5, <2>1, EndScores
    <2>3. Cleared(l, ts) \subseteq l
      BY DEF Cleared
    <2> DEFINE New(t) == [id |-> t, score |-> p[t]]
    <2>4. q = Cleared(l, ts) \cup {New(t) : t \in ts}
      BY <1>1
    <2>5. \A t \in ts : New(t) \in Entry /\ New(t).score = p[t]
      BY <1>4 DEF Entry
    <2> HIDE DEF New
    <2> QED BY <1>3, <1>4, <2>2, <2>3, <2>4, <2>5 DEF Spread
  <1> QED BY <1>6, <1>7

\* No task of ts waits in pending or runs.
Fresh(ts) == ts \in SUBSET Task /\ ts \cap Ids(pending) = {} /\ ts \cap active = {}

\* Tasks of another state than pending and active are fresh.
LEMMA FreshByState ==
    ASSUME IInv, NEW ts \in SUBSET Task,
           \A t \in ts : ~Exists(t) \/ (hash[t].state # "pending" /\ hash[t].state # "active")
    PROVE  Fresh(ts)
    BY DEF IInv, Consistent, IndexMatchesState, QueueIndex, HasState, Fresh, Ids

\* Every script is a step of the line, in terms of the queue.
LEMMA LineSteps ==
    ASSUME IInv, Next
    PROVE  \/ pending' \subseteq pending /\ active' = active
           \/ pending' = pending /\ \E t \in active : active' = active \ {t}
           \/ \E h \in Heads(pending) :
                pending' = pending \ {h} /\ active' = active \cup {h.id}
           \/ \E t \in active : pending' \in PushFront(pending, t) /\ active' = active \ {t}
           \/ \E t \in Task : /\ Fresh({t}) /\ pending' \in PushOne(pending, t)
                             /\ active' = active
           \/ \E z : \E ts : /\ Fresh(ts) /\ pending' \in PushAll(pending, z, ts)
                            /\ active' = active
  <1>1. CASE ClientNext
    <2>1. ASSUME NEW t \in Task, ~Exists(t) PROVE Fresh({t})
      BY <2>1, FreshByState
    <2> QED BY <1>1, <2>1 DEF ClientNext, Enqueue, EnqueueUnique, Schedule, ScheduleUnique,
                              AddToGroup, AddToGroupUnique
  <1>2. CASE BackgroundNext
    <2>1. ASSUME NEW z, NEW ts, NEW now \in Time, z = scheduled \/ z = retry,
                 ts \in ForwardBatch(z, now), ForwardMoved(z, ts, now)
          PROVE  \E us : Fresh(us) /\ pending' \in PushAll(pending, z, us) /\ active' = active
      <3>1. ts \subseteq Members(z) /\ ts \subseteq Task
        BY <2>1 DEF ForwardBatch, LowestOf, UpTo, Members
      <3>2. \A t \in ts : hash[t].state # "pending" /\ hash[t].state # "active"
        BY <2>1, <3>1, WaitingSets, NotPending DEF Waiting, Members
      <3>3. Fresh(ts \ Grouped(ts))
        BY <3>1, <3>2, FreshByState
      <3> QED BY <2>1, <3>3 DEF ForwardMoved
    <2>2. ASSUME NEW now \in Time, ForwardScheduled(now) \/ ForwardRetry(now)
          PROVE  \E z : \E ts : /\ Fresh(ts) /\ pending' \in PushAll(pending, z, ts)
                              /\ active' = active
      BY <2>1, <2>2 DEF ForwardScheduled, ForwardRetry
    <2> QED BY <1>2, <2>2 DEF BackgroundNext, DeleteExpiredCompletedTasks, AggregationCheck,
                              DeleteAggregationSet, ReclaimStaleAggregationSets, LockExpire
  <1>3. CASE ExecutionNext
    <2>1. ASSUME NEW t \in Task, Requeue(t)
          PROVE  /\ t \in active /\ active' = active \ {t}
                 /\ pending' = pending \/ pending' \in PushFront(pending, t)
      BY <2>1 DEF Requeue, LeaveActive
    <2>2. ASSUME NEW until \in Time, Dequeue(until)
          PROVE  \E h \in Heads(pending) :
                   pending' = pending \ {h} /\ active' = active \cup {h.id}
      BY <2>2 DEF Dequeue
    <2>3. ASSUME NEW t \in Task,
                 \/ \E m \in Msg : Done(t, m)
                 \/ \E m \in Msg, until \in Time : MarkAsComplete(t, m, until)
                 \/ \E m \in Msg, at \in Time, isFailure \in BOOLEAN : Retry(t, m, at, isFailure)
                 \/ \E m \in Msg, now \in Time : Archive(t, m, now)
          PROVE  pending' = pending /\ t \in active /\ active' = active \ {t}
      BY <2>3 DEF Done, MarkAsComplete, Retry, Archive, LeaveActive
    <2>4. ASSUME \/ \E t \in Task : WriteResult(t)
                 \/ \E ts \in SUBSET Task, until \in Time : ExtendLease(ts, until)
          PROVE  pending' = pending /\ active' = active
      BY <2>4 DEF WriteResult, ExtendLease
    <2> QED BY <1>3, <2>1, <2>2, <2>3, <2>4 DEF ExecutionNext
  <1>4. CASE InspectorNext
    <2>0. active' = active
      BY <1>4, InspectorKeepsActive DEF ActiveKept
    <2>1. ASSUME NEW t \in Task, RunTask(t) PROVE Fresh({t}) /\ pending' \in PushOne(pending, t)
      BY <2>1, FreshByState DEF RunTask, InNamedSet, StateOf
    <2>2. ASSUME NEW z, RunMoved(z),
                 z \in {scheduled, retry, archived} \/ \E g \in Group : z = group[g]
          PROVE  Fresh(Members(z)) /\ pending' \in PushAll(pending, z, Members(z))
      <3>1. \A t \in Members(z) : hash[t].state # "pending" /\ hash[t].state # "active"
        BY <2>2, WaitingSets, NotPending DEF Waiting, Members
      <3>2. Members(z) \in SUBSET Task
        BY DEF Members
      <3> QED BY <2>2, <3>1, <3>2, FreshByState DEF RunMoved
    <2>3. ASSUME \/ RunAllScheduledTasks \/ RunAllRetryTasks \/ RunAllArchivedTasks
                 \/ \E g \in Group : RunAllAggregatingTasks(g)
          PROVE  \E z : \E ts : Fresh(ts) /\ pending' \in PushAll(pending, z, ts)
      BY <2>2, <2>3 DEF RunAllScheduledTasks, RunAllRetryTasks, RunAllArchivedTasks,
         RunAllAggregatingTasks
    <2>4. ASSUME NEW t \in Task, DeleteTask(t) \/ \E now \in Time : ArchiveTask(t, now)
          PROVE  pending' \subseteq pending
      BY <2>4 DEF DeleteTask, ArchiveTask, LRem
    <2> QED BY <1>4, <2>0, <2>1, <2>3, <2>4
            DEF InspectorNext, UpdateTaskPayload, ArchiveAllScheduledTasks,
                ArchiveAllRetryTasks, ArchiveAllPendingTasks, ArchiveAllAggregatingTasks,
                DeleteAllScheduledTasks, DeleteAllRetryTasks, DeleteAllArchivedTasks,
                DeleteAllCompletedTasks, DeleteAllPendingTasks, DeleteAllAggregatingTasks,
                RemoveQueueForce, Pause, Unpause
  <1> QED BY <1>1, <1>2, <1>3, <1>4 DEF Next

\* No two entries of pending ever have the same score.
LEMMA SpreadAlways == Spec => []Spread(pending)
  <1>1. Init => Spread(pending)
    BY DEF Init, Spread
  <1>2. IInv /\ Spread(pending) /\ [Next]_vars => Spread(pending)'
    <2> SUFFICES ASSUME IInv, Spread(pending), [Next]_vars PROVE Spread(pending')
      BY DEF Spread
    <2>1. PICK l : l = pending
      OBVIOUS
    <2>2. PICK q : q = pending'
      OBVIOUS
    <2>3. \/ q \subseteq l
          \/ \E t \in Task : q \in PushOne(l, t) \cup PushFront(l, t)
          \/ \E z : \E ts \in SUBSET Task : q \in PushAll(l, z, ts)
      BY <2>1, <2>2, LineSteps DEF vars, Fresh, IInv, TypeOK
    <2>4. Spread(q)
      BY <2>1, <2>3, SpreadSubset, PushOneSpread, PushAllSpread
    <2> QED BY <2>2, <2>4
  <1> QED BY <1>1, <1>2, Invariance, PTL DEF Spec

\* A queue with tasks has a first one and a last one: no order of pushes, requeues,
\* runs and forwards makes two scores equal at an end, which the scripts of the
\* default queue would refuse for ever.
THEOREM ServableTheorem == Spec => []QueueServable
  <1>1. Spread(pending) => QueueServable
    BY SpreadServable DEF QueueServable
  <1> QED BY <1>1, SpreadAlways, PTL

-----------------------------------------------------------------------------
(* The order of the queue: it implements FifoQueue.                         *)

\* Induction over the subsets of a finite set, with a set for the predicate.
LEMMA SetInduction ==
    ASSUME NEW S, IsFiniteSet(S), NEW G,
           \A T \in SUBSET S : (\A U \in SUBSET T : U # T => U \in G) => T \in G
    PROVE  \A T \in SUBSET S : T \in G
  <1> DEFINE B == (SUBSET S) \ G
  <1>1. SUFFICES ASSUME B # {} PROVE FALSE
    OBVIOUS
  <1>2. IsWellFoundedOn(StrictSubsetOrdering(S), SUBSET S)
    BY FS_StrictSubsetOrderingWellFounded, FS_FiniteSubsetsOfFinite
  <1>3. B \subseteq SUBSET S
    OBVIOUS
  <1> HIDE DEF B
  <1>4. PICK T \in B : \A U \in B : <<U, T>> \notin StrictSubsetOrdering(S)
    BY <1>1, <1>2, <1>3, WFMin
  <1>5. \A U \in SUBSET T : U # T => U \notin B
    BY <1>3, <1>4 DEF StrictSubsetOrdering
  <1> QED BY <1>3, <1>4, <1>5 DEF B

\* s lists the n entries of l by their scores.
Arranged(l, n, s) ==
    /\ n \in Nat
    /\ s \in [1 .. n -> l]
    /\ \A i, j \in 1 .. n : i < j => s[i].score < s[j].score
    /\ \A e \in l : \E i \in 1 .. n : s[i] = e

\* What is arranged before and what is arranged after make one arrangement.
LEMMA ArrangedJoin ==
    ASSUME NEW l, NEW r, NEW m, NEW n, NEW s, NEW u, Arranged(l, m, s), Arranged(r, n, u),
           \A e \in l, f \in r : e.score < f.score
    PROVE  Arranged(l \cup r, m + n, [i \in 1 .. m + n |-> IF i <= m THEN s[i] ELSE u[i - m]])
  <1> DEFINE v == [i \in 1 .. m + n |-> IF i <= m THEN s[i] ELSE u[i - m]]
  <1>1. m \in Nat /\ n \in Nat /\ m + n \in Nat
    BY DEF Arranged
  <1>2. \A i \in 1 .. m + n : IF i <= m THEN i \in 1 .. m /\ v[i] = s[i] /\ v[i] \in l
                              ELSE i - m \in 1 .. n /\ v[i] = u[i - m] /\ v[i] \in r
    BY <1>1 DEF Arranged
  <1>3. v \in [1 .. m + n -> l \cup r]
    BY <1>2
  <1>4. ASSUME NEW i \in 1 .. m + n, NEW j \in 1 .. m + n, i < j
        PROVE  v[i].score < v[j].score
    <2>1. CASE j <= m
      BY <1>1, <1>2, <1>4, <2>1 DEF Arranged
    <2>2. CASE ~(j <= m) /\ i <= m
      BY <1>1, <1>2, <1>4, <2>2
    <2>3. CASE ~(i <= m)
      <3>1. i - m \in 1 .. n /\ j - m \in 1 .. n /\ i - m < j - m
        BY <1>1, <1>2, <1>4, <2>3
      <3> HIDE DEF v
      <3> QED BY <1>1, <1>2, <1>4, <2>3, <3>1 DEF Arranged
    <2> QED BY <1>1, <2>1, <2>2, <2>3
  <1>5. ASSUME NEW e \in l \cup r PROVE \E i \in 1 .. m + n : v[i] = e
    <2>1. CASE e \in l
      <3>1. PICK i \in 1 .. m : s[i] = e
        BY <2>1 DEF Arranged
      <3>2. i \in 1 .. m + n /\ i <= m
        BY <1>1
      <3> QED BY <3>1, <3>2
    <2>2. CASE e \in r
      <3>1. PICK i \in 1 .. n : u[i] = e
        BY <2>2 DEF Arranged
      <3>2. i + m \in 1 .. m + n /\ ~(i + m <= m) /\ (i + m) - m = i
        BY <1>1
      <3> QED BY <3>1, <3>2
    <2> QED BY <2>1, <2>2
  <1> HIDE DEF v
  <1>6. Arranged(l \cup r, m + n, v)
    BY <1>1, <1>3, <1>4, <1>5 DEF Arranged
  <1> QED BY <1>6 DEF v

\* One entry is arranged.
LEMMA ArrangedOne ==
    ASSUME NEW e PROVE Arranged({e}, 1, [i \in 1 .. 1 |-> e])
    BY DEF Arranged

\* Entries with different scores can be arranged.
LEMMA ArrangedExists ==
    ASSUME NEW l, Spread(l), IsFiniteSet(l)
    PROVE  \E n, s : Arranged(l, n, s)
  <1> DEFINE G == {q \in SUBSET l : \E n, s : Arranged(q, n, s)}
  <1>1. ASSUME NEW T \in SUBSET l, \A U \in SUBSET T : U # T => U \in G
        PROVE  T \in G
    <2>1. CASE T = {}
      <3>1. Arranged(T, 0, [i \in 1 .. 0 |-> 0])
        BY <2>1 DEF Arranged
      <3> QED BY <3>1
    <2>2. CASE T # {}
      <3>1. PICK h \in Tails(T) : TRUE
        BY <2>2, SpreadSubset, SpreadServable
      <3>2. h \in T /\ \A e \in T \ {h} : e.score < h.score
        BY <3>1 DEF Tails
      <3>3. PICK n, s : Arranged(T \ {h}, n, s)
        BY <1>1, <3>2
      <3>4. \E m, u : Arranged((T \ {h}) \cup {h}, m, u)
        BY <3>2, <3>3, ArrangedOne, ArrangedJoin
      <3>5. (T \ {h}) \cup {h} = T
        BY <3>2
      <3> QED BY <3>4, <3>5
    <2> QED BY <2>1, <2>2
  <1> HIDE DEF G
  <1>2. l \in G
    BY <1>1, SetInduction
  <1> QED BY <1>2 DEF G

\* An arrangement numbers the entries.
LEMMA ArrangedNumber ==
    ASSUME NEW l, Spread(l), NEW n, NEW s, Arranged(l, n, s)
    PROVE  IsFiniteSet(l) /\ Cardinality(l) = n /\ \A i, j \in 1 .. n : i # j => s[i] # s[j]
  <1>1. \A e \in l : e.score \in Int
    BY DEF Spread, Entry
  <1>2. \A i, j \in 1 .. n : i # j => s[i] # s[j]
    <2> SUFFICES ASSUME NEW i \in 1 .. n, NEW j \in 1 .. n, i # j PROVE s[i] # s[j]
      OBVIOUS
    <2>1. i < j \/ j < i
      BY DEF Arranged
    <2>2. s[i] \in l /\ s[j] \in l
      BY DEF Arranged
    <2> QED BY <1>1, <2>1, <2>2 DEF Arranged
  <1>3. s \in Bijection(1 .. n, l)
    BY <1>2 DEF Arranged, Bijection, Injection, Surjection, IsInjective
  <1>4. IsFiniteSet(1 .. n) /\ Cardinality(1 .. n) = n
    BY FS_Interval DEF Arranged
  <1> QED BY <1>2, <1>3, <1>4, FS_Bijection DEF ExistsBijection

\* There is one arrangement.
LEMMA ArrangedUnique ==
    ASSUME NEW l, Spread(l), NEW n, NEW s, NEW u, Arranged(l, n, s), Arranged(l, n, u)
    PROVE  s = u
  <1>1. \A e \in l : e.score \in Int
    BY DEF Spread, Entry
  <1> DEFINE D == {i \in 1 .. n : s[i] # u[i]}
  <1>2. ASSUME D # {} PROVE FALSE
    <2>1. D \in SUBSET Nat
      BY DEF Arranged
    <2>2. PICK k \in D : \A i \in D : k <= i
      <3> HIDE DEF D
      <3> QED BY <1>2, <2>1, LeastNatural
    <2>3. k \in 1 .. n /\ s[k] # u[k] /\ \A i \in 1 .. n : i < k => s[i] = u[i]
      BY <2>1, <2>2
    <2> HIDE DEF D
    <2>4. ASSUME NEW v, NEW w, Arranged(l, n, v), Arranged(l, n, w), v[k] # w[k],
                 \A i \in 1 .. n : i < k => v[i] = w[i]
          PROVE  w[k].score < v[k].score
      <3>1. v[k] \in l
        BY <2>3, <2>4 DEF Arranged
      <3>2. PICK j \in 1 .. n : w[j] = v[k]
        BY <2>4, <3>1 DEF Arranged
      <3>3. n \in Nat /\ j # k
        BY <2>4, <3>2 DEF Arranged
      <3>4. CASE j < k
        <4>1. v[j] = v[k] /\ v[j].score < v[k].score
          BY <2>3, <2>4, <3>2, <3>4 DEF Arranged
        <4> QED BY <1>1, <3>1, <4>1
      <3>5. CASE k < j
        BY <2>3, <2>4, <3>2, <3>5 DEF Arranged
      <3> QED BY <2>3, <3>3, <3>4, <3>5
    <2>5. s[k].score < u[k].score /\ u[k].score < s[k].score
      BY <2>3, <2>4
    <2>6. s[k] \in l /\ u[k] \in l
      BY <2>3 DEF Arranged
    <2> QED BY <1>1, <2>5, <2>6
  <1>3. \A i \in 1 .. n : s[i] = u[i]
    BY <1>2
  <1> QED BY <1>3 DEF Arranged

\* The line is the arrangement.
LEMMA LineIs ==
    ASSUME NEW l, Spread(l), NEW n, NEW s, Arranged(l, n, s)
    PROVE  LineOf(l) = [i \in 1 .. n |-> s[i].id]
  <1> DEFINE c == CHOOSE d \in SetToSeqs(l) :
                    \A i, j \in DOMAIN d : i < j => d[i].score <= d[j].score
  <1>1. LineOf(l) = [i \in DOMAIN c |-> c[i].id]
    BY DEF LineOf
  <1>2. \A e \in l : e.score \in Int
    BY DEF Spread, Entry
  <1>3. IsFiniteSet(l) /\ Cardinality(l) = n /\ \A i, j \in 1 .. n : i # j => s[i] # s[j]
    BY ArrangedNumber
  <1>4. s \in SetToSeqs(l)
    BY <1>3 DEF SetToSeqs, Arranged
  <1>5. \A i, j \in DOMAIN s : i < j => s[i].score <= s[j].score
    BY <1>2 DEF Arranged
  <1>6. c \in SetToSeqs(l) /\ \A i, j \in DOMAIN c : i < j => c[i].score <= c[j].score
    BY <1>4, <1>5
  <1> HIDE DEF c
  <1>7. c \in [1 .. n -> l] /\ \A i, j \in 1 .. n : i # j => c[i] # c[j]
    BY <1>3, <1>6 DEF SetToSeqs
  <1>8. \A i, j \in 1 .. n : i < j => c[i].score < c[j].score
    <2> SUFFICES ASSUME NEW i \in 1 .. n, NEW j \in 1 .. n, i < j PROVE c[i].score < c[j].score
      OBVIOUS
    <2>1. i # j /\ c[i] # c[j] /\ c[i] \in l /\ c[j] \in l
      BY <1>7 DEF Arranged
    <2>2. c[i].score <= c[j].score /\ c[i].score # c[j].score
      BY <1>6, <1>7, <2>1 DEF Spread
    <2> QED BY <1>2, <2>1, <2>2
  <1>9. \A e \in l : \E i \in 1 .. n : c[i] = e
    <2>1. c \in Injection(1 .. n, l)
      BY <1>7 DEF Injection, IsInjective
    <2>2. n \in Nat /\ Cardinality(1 .. n) = n
      BY FS_Interval DEF Arranged
    <2>3. c \in Surjection(1 .. n, l)
      BY <1>3, <2>1, <2>2, FS_Injection
    <2> QED BY <2>3 DEF Surjection
  <1>10. Arranged(l, n, c)
    BY <1>7, <1>8, <1>9 DEF Arranged
  <1>11. c = s
    BY <1>10, ArrangedUnique
  <1>12. DOMAIN s = 1 .. n
    BY DEF Arranged
  <1> QED BY <1>1, <1>11, <1>12

\* The entries of a queue are finitely many: their scores differ.
LEMMA SpreadFinite ==
    ASSUME NEW l, Spread(l)
    PROVE  IsFiniteSet(l)
  <1> DEFINE f == [e \in l |-> e.score]
  <1>1. f \in Injection(l, Scores)
    BY DEF Spread, Injection, IsInjective
  <1>2. IsFiniteSet(Scores)
    BY BoundsAssumption, FS_Interval DEF Scores
  <1> HIDE DEF f
  <1> QED BY <1>1, <1>2, FS_Injection

\* The line is a sequence of the tasks in the queue.
LEMMA LineType ==
    ASSUME NEW l, Spread(l)
    PROVE  LineOf(l) \in Seq(Task)
  <1>1. PICK n, s : Arranged(l, n, s)
    BY SpreadFinite, ArrangedExists
  <1>2. n \in Nat /\ \A i \in 1 .. n : s[i].id \in Task
    BY <1>1 DEF Arranged, Spread, Entry
  <1>3. [i \in 1 .. n |-> s[i].id] \in Seq(Task)
    BY <1>2, IsASeq
  <1> QED BY <1>1, <1>3, LineIs

\* The tasks in the line are those of the queue.
LEMMA LineIds ==
    ASSUME NEW l, Spread(l)
    PROVE  ToSet(LineOf(l)) = Ids(l)
  <1>1. PICK n, s : Arranged(l, n, s)
    BY SpreadFinite, ArrangedExists
  <1>2. LineOf(l) = [i \in 1 .. n |-> s[i].id]
    BY <1>1, LineIs
  <1>3. ToSet(LineOf(l)) = {s[i].id : i \in 1 .. n}
    BY <1>2 DEF ToSet
  <1> QED BY <1>1, <1>3 DEF Arranged, Ids

\* What is behind in score is behind in the line.
LEMMA LineJoin ==
    ASSUME NEW l, NEW r, Spread(l), Spread(r), \A e \in l, f \in r : e.score < f.score
    PROVE  Spread(l \cup r) /\ LineOf(l \cup r) = LineOf(l) \o LineOf(r)
  <1>1. PICK m, s : Arranged(l, m, s)
    BY SpreadFinite, ArrangedExists
  <1>2. PICK n, u : Arranged(r, n, u)
    BY SpreadFinite, ArrangedExists
  <1>3. PICK v : v = [i \in 1 .. m + n |-> IF i <= m THEN s[i] ELSE u[i - m]]
    OBVIOUS
  <1>4. Arranged(l \cup r, m + n, v)
    BY <1>1, <1>2, <1>3, ArrangedJoin
  <1>5. Spread(l \cup r)
    <2>1. \A e \in l \cup r : e.score \in Int
      BY DEF Spread, Entry
    <2> QED BY <2>1 DEF Spread
  <1>6. m \in Nat /\ n \in Nat /\ m + n \in Nat
    BY <1>1, <1>2 DEF Arranged
  <1>7. /\ LineOf(l) = [i \in 1 .. m |-> s[i].id]
        /\ LineOf(r) = [i \in 1 .. n |-> u[i].id]
        /\ LineOf(l \cup r) = [i \in 1 .. m + n |-> v[i].id]
    BY <1>1, <1>2, <1>4, <1>5, LineIs
  <1>8. LineOf(l) \in Seq(Task) /\ LineOf(r) \in Seq(Task) /\ LineOf(l \cup r) \in Seq(Task)
    BY <1>5, LineType
  <1>9. Len(LineOf(l)) = m /\ Len(LineOf(r)) = n /\ Len(LineOf(l \cup r)) = m + n
    BY <1>6, <1>7, <1>8, LenProperties
  <1>10. ASSUME NEW i \in 1 .. m + n
         PROVE  LineOf(l \cup r)[i] = (LineOf(l) \o LineOf(r))[i]
    <2>1. (LineOf(l) \o LineOf(r))[i] = IF i <= m THEN LineOf(l)[i] ELSE LineOf(r)[i - m]
      BY <1>8, <1>9, ConcatProperties
    <2>2. CASE i <= m
      <3>1. i \in 1 .. m
        BY <1>6, <2>2
      <3> QED BY <1>3, <1>7, <2>1, <2>2, <3>1
    <2>3. CASE ~(i <= m)
      <3>1. i - m \in 1 .. n
        BY <1>6, <2>3
      <3> QED BY <1>3, <1>7, <2>1, <2>3, <3>1
    <2> QED BY <2>2, <2>3
  <1>11. LineOf(l \cup r) = LineOf(l) \o LineOf(r)
    <2>1. PICK a : a = LineOf(l) \o LineOf(r)
      OBVIOUS
    <2>2. a \in Seq(Task) /\ Len(a) = m + n
      BY <1>8, <1>9, <2>1, ConcatProperties
    <2>3. \A i \in 1 .. Len(a) : LineOf(l \cup r)[i] = a[i]
      BY <1>10, <2>1, <2>2
    <2> QED BY <1>8, <1>9, <2>1, <2>2, <2>3, SeqEqual
  <1> QED BY <1>5, <1>11

\* A queue with one entry.
LEMMA LineOne ==
    ASSUME NEW e \in Entry, e.score \in Scores
    PROVE  Spread({e}) /\ LineOf({e}) = <<e.id>>
  <1>1. Spread({e})
    BY DEF Spread
  <1>2. PICK s : s = [i \in 1 .. 1 |-> e]
    OBVIOUS
  <1>3. LineOf({e}) = [i \in 1 .. 1 |-> s[i].id]
    <2>1. Arranged({e}, 1, s)
      BY <1>2, ArrangedOne
    <2> QED BY <1>1, <2>1, LineIs
  <1>4. LineOf({e}) = [i \in 1 .. 1 |-> e.id]
    BY <1>2, <1>3
  <1> QED BY <1>1, <1>4

\* u is s with some of its elements left out.
Thinned(u, s) ==
    \E n \in 0 .. Len(s) : \E kept \in [1 .. n -> 1 .. Len(s)] :
        /\ \A i, j \in 1 .. n : i < j => kept[i] < kept[j]
        /\ u = [i \in 1 .. n |-> s[kept[i]]]

\* Tasks that are taken out leave the others in their order.
LEMMA LineWithout ==
    ASSUME NEW l, Spread(l), NEW q \in SUBSET l
    PROVE  Thinned(LineOf(q), LineOf(l))
  <1>1. Spread(q)
    BY SpreadSubset
  <1>2. PICK m, s : Arranged(l, m, s)
    BY SpreadFinite, ArrangedExists
  <1>3. PICK n, u : Arranged(q, n, u)
    BY <1>1, SpreadFinite, ArrangedExists
  <1>4. /\ LineOf(l) = [i \in 1 .. m |-> s[i].id]
        /\ LineOf(q) = [i \in 1 .. n |-> u[i].id]
    BY <1>1, <1>2, <1>3, LineIs
  <1>5. m \in Nat /\ n \in Nat /\ n <= m
    <2>1. IsFiniteSet(l) /\ Cardinality(l) = m /\ Cardinality(q) = n
      BY <1>1, <1>2, <1>3, ArrangedNumber
    <2> QED BY <1>2, <1>3, <2>1, FS_Subset DEF Arranged
  <1>6. Len(LineOf(l)) = m
    BY <1>4, <1>5, LineType, LenProperties
  <1> DEFINE kept == [i \in 1 .. n |-> CHOOSE k \in 1 .. m : s[k] = u[i]]
  <1>7. \A i \in 1 .. n : kept[i] \in 1 .. m /\ s[kept[i]] = u[i]
    <2> SUFFICES ASSUME NEW i \in 1 .. n
                 PROVE  kept[i] \in 1 .. m /\ s[kept[i]] = u[i]
      OBVIOUS
    <2>1. \E k \in 1 .. m : s[k] = u[i]
      BY <1>2, <1>3 DEF Arranged
    <2> QED BY <2>1
  <1>8. kept \in [1 .. n -> 1 .. m]
    BY <1>7
  <1> HIDE DEF kept
  <1>9. ASSUME NEW i \in 1 .. n, NEW j \in 1 .. n, i < j PROVE kept[i] < kept[j]
    <2>1. s[kept[i]].score < s[kept[j]].score
      BY <1>3, <1>7, <1>9 DEF Arranged
    <2>2. kept[i] \in 1 .. m /\ kept[j] \in 1 .. m
      BY <1>7
    <2>3. s[kept[i]].score \in Int /\ s[kept[j]].score \in Int
      BY <1>2, <2>2 DEF Arranged, Spread, Entry
    <2>4. ~(kept[i] = kept[j])
      BY <2>1, <2>3
    <2>5. ~(kept[j] < kept[i])
      BY <1>2, <2>1, <2>2, <2>3 DEF Arranged
    <2> QED BY <1>5, <2>2, <2>4, <2>5
  <1>10. LineOf(q) = [i \in 1 .. n |-> LineOf(l)[kept[i]]]
    BY <1>4, <1>7
  <1>11. n \in 0 .. m
    BY <1>5
  <1> QED BY <1>6, <1>8, <1>9, <1>10, <1>11 DEF Thinned

\* Entries of different tasks, none of ids, behind all of l.
Behind(r, l, ids) ==
    /\ Spread(r)
    /\ \A e \in l, f \in r : e.score < f.score
    /\ Ids(r) \cap ids = {}
    /\ \A e, f \in r : e.id = f.id => e = f

\* LPUSH, or ZADD behind the tail, of a task that is not in the queue.
LEMMA PushOneBehind ==
    ASSUME NEW l, Spread(l), NEW ids, Ids(l) \subseteq ids,
           NEW t \in Task, t \notin ids, NEW q \in PushOne(l, t)
    PROVE  \E r : Behind(r, l, ids) /\ q = l \cup r
  <1>1. PICK s \in Scores : /\ s \in AfterTail(l)
                            /\ q = Cleared(l, {t}) \cup {[id |-> t, score |-> s]}
    BY DEF PushOne
  <1>2. Cleared(l, {t}) = l
    BY DEF Cleared, Ids
  <1>3. PICK e : e = [id |-> t, score |-> s]
    OBVIOUS
  <1>4. e \in Entry /\ e.id = t /\ e.score = s
    BY <1>3, ScoresInt DEF Entry
  <1>5. \A f \in l : f.score < e.score
    BY <1>1, <1>4, EndScores
  <1>6. Behind({e}, l, ids)
    BY <1>4, <1>5 DEF Behind, Spread, Ids
  <1> QED BY <1>1, <1>2, <1>3, <1>6

\* The same for a set of tasks.
LEMMA PushAllBehind ==
    ASSUME NEW l, Spread(l), NEW ids, Ids(l) \subseteq ids, NEW z,
           NEW ts \in SUBSET Task, ts \cap ids = {}, NEW q \in PushAll(l, z, ts)
    PROVE  \E r : Behind(r, l, ids) /\ q = l \cup r
  <1>1. PICK p \in Positions(l, z, ts) :
          q = Cleared(l, ts) \cup {[id |-> t, score |-> p[t]] : t \in ts}
    BY DEF PushAll
  <1>2. Cleared(l, ts) = l
    BY DEF Cleared, Ids
  <1>3. PICK s \in AfterTail(l) : \A t \in ts : s <= p[t]
    BY DEF Positions
  <1>4. p \in [ts -> Scores] /\ \A t, u \in ts : t # u => p[t] # p[u]
    BY DEF Positions
  <1>5. \A t \in ts : p[t] \in Scores /\ p[t] \in Int
    BY <1>4, ScoresInt
  <1>6. \A e \in l : e.score \in Int
    BY DEF Spread, Entry
  <1>7. \A e \in l : \A t \in ts : e.score < p[t]
    <2>1. l # {} => s \in Int
      BY <1>6 DEF AfterTail, Tails
    <2> QED BY <1>3, <1>5, <1>6, <2>1, EndScores
  <1> DEFINE New(t) == [id |-> t, score |-> p[t]]
             r == {New(t) : t \in ts}
  <1>8. q = l \cup r
    BY <1>1, <1>2
  <1>9. \A t \in ts : New(t) \in Entry /\ New(t).score = p[t] /\ New(t).id = t
    BY <1>5 DEF Entry
  <1> HIDE DEF New
  <1>10. Behind(r, l, ids)
    BY <1>4, <1>5, <1>7, <1>9 DEF Behind, Spread, Ids
  <1> QED BY <1>8, <1>10

\* What joins behind is a permutation of the new tasks.
LEMMA BehindLine ==
    ASSUME NEW r, Spread(r), \A e, f \in r : e.id = f.id => e = f
    PROVE  LineOf(r) \in SetToSeqs(Ids(r))
  <1>1. PICK n, s : Arranged(r, n, s)
    BY SpreadFinite, ArrangedExists
  <1>2. LineOf(r) = [i \in 1 .. n |-> s[i].id]
    BY <1>1, LineIs
  <1>3. Cardinality(r) = n /\ IsFiniteSet(r) /\ \A i, j \in 1 .. n : i # j => s[i] # s[j]
    BY <1>1, ArrangedNumber
  <1>4. Cardinality(Ids(r)) = n
    <2> DEFINE f == [e \in r |-> e.id]
    <2>1. f \in Bijection(r, Ids(r))
      BY DEF Bijection, Injection, Surjection, IsInjective, Ids
    <2> HIDE DEF f
    <2> QED BY <1>3, <2>1, FS_Bijection DEF ExistsBijection
  <1>5. \A i \in 1 .. n : s[i] \in r /\ s[i].id \in Ids(r)
    BY <1>1 DEF Arranged, Ids
  <1>6. \A i, j \in 1 .. n : i # j => s[i].id # s[j].id
    BY <1>3, <1>5
  <1> QED BY <1>2, <1>4, <1>5, <1>6 DEF SetToSeqs

\* The operators of FifoQueue's library modules are those of this module.
LEMMA FifoOperators ==
    /\ \A S : Fifo!ToSet(S) = ToSet(S)
    /\ \A S : Fifo!SetToSeqs(S) = SetToSeqs(S)
  <1>1. \A S : Fifo!Cardinality(S) = Cardinality(S)
    BY DEF Fifo!Cardinality, Cardinality
  <1>2. \A S : Fifo!SetToSeqs(S) = SetToSeqs(S)
    BY <1>1 DEF Fifo!SetToSeqs, SetToSeqs
  <1>3. \A S : Fifo!ToSet(S) = ToSet(S)
    BY DEF Fifo!ToSet, ToSet
  <1> QED BY <1>2, <1>3

\* Every script is a step of FifoQueue.
LEMMA FifoStep ==
    ASSUME IInv, Spread(pending), Next
    PROVE  Fifo!Next \/ UNCHANGED <<Line, active>>
  <1>1. PICK l, q : l = pending /\ q = pending'
    OBVIOUS
  <1>2. Line = LineOf(l) /\ Line' = LineOf(q) /\ Spread(l)
    BY <1>1 DEF Line
  <1>3. LineOf(l) \in Seq(Task) /\ ToSet(LineOf(l)) = Ids(l)
    BY <1>2, LineType, LineIds
  <1>4. ASSUME q \subseteq l, active' = active PROVE Fifo!Withdraw
    <2>1. q \in SUBSET l
      BY <1>4
    <2>2. Thinned(Line', Line)
      BY <1>2, <2>1, LineWithout
    <2>3. PICK n \in 0 .. Len(Line) : \E kept \in [1 .. n -> 1 .. Len(Line)] :
            /\ \A i, j \in 1 .. n : i < j => kept[i] < kept[j]
            /\ Line' = [i \in 1 .. n |-> Line[kept[i]]]
      BY <2>2 DEF Thinned
    <2> QED BY <1>4, <2>3 DEF Fifo!Withdraw
  <1>5. ASSUME q = l, NEW t \in active, active' = active \ {t} PROVE Fifo!Finish
    BY <1>2, <1>5 DEF Fifo!Finish
  <1>6. ASSUME NEW h \in Heads(l), q = l \ {h}, active' = active \cup {h.id} PROVE Fifo!Start
    <2>1. h \in l /\ h \in Entry /\ h.score \in Scores /\ \A e \in q : h.score < e.score
      BY <1>2, <1>6 DEF Heads, Spread
    <2>2. Spread({h}) /\ LineOf({h}) = <<h.id>> /\ Spread(q)
      BY <1>2, <1>6, <2>1, LineOne, SpreadSubset
    <2>3. {h} \cup q = l
      BY <1>6, <2>1
    <2>4. LineOf(l) = <<h.id>> \o LineOf(q)
      BY <2>1, <2>2, <2>3, LineJoin
    <2>5. LineOf(q) \in Seq(Task) /\ h.id \in Task
      BY <2>1, <2>2, LineType DEF Entry
    <2>6. LineOf(l) # <<>> /\ Head(LineOf(l)) = h.id /\ Tail(LineOf(l)) = LineOf(q)
      BY <2>4, <2>5
    <2> QED BY <1>2, <1>6, <2>6 DEF Fifo!Start
  <1>7. ASSUME NEW t \in active, q \in PushFront(l, t), active' = active \ {t}
        PROVE  Fifo!GiveBack
    <2>1. t \in Task /\ t \notin Ids(l)
      BY <1>1 DEF IInv, TypeOK, Consistent, IndexMatchesState, QueueIndex, HasState, Ids
    <2>2. PICK s \in Scores : /\ s \in BeforeHead(l)
                              /\ q = Cleared(l, {t}) \cup {[id |-> t, score |-> s]}
      BY <1>7 DEF PushFront
    <2>3. Cleared(l, {t}) = l
      BY <2>1 DEF Cleared, Ids
    <2>4. PICK e : e = [id |-> t, score |-> s]
      OBVIOUS
    <2>5. e \in Entry /\ e.id = t /\ e.score = s
      BY <2>1, <2>4, ScoresInt DEF Entry
    <2>6. \A f \in l : e.score < f.score
      BY <1>2, <2>2, <2>5, EndScores
    <2>7. Spread({e}) /\ LineOf({e}) = <<t>>
      BY <2>5, LineOne
    <2>8. q = {e} \cup l
      BY <2>2, <2>3, <2>4
    <2>9. LineOf(q) = <<t>> \o LineOf(l)
      BY <1>2, <2>6, <2>7, <2>8, LineJoin
    <2> QED BY <1>2, <1>7, <2>9 DEF Fifo!GiveBack
  <1>8. ASSUME NEW r, Behind(r, l, Ids(l) \cup active), q = l \cup r, active' = active
        PROVE  Fifo!Join
    <2>1. LineOf(q) = LineOf(l) \o LineOf(r)
      BY <1>2, <1>8, LineJoin DEF Behind
    <2>2. LineOf(r) \in SetToSeqs(Ids(r))
      BY <1>8, BehindLine DEF Behind
    <2>3. Ids(r) \in SUBSET (Task \ (ToSet(LineOf(l)) \cup active))
      BY <1>3, <1>8 DEF Behind, Spread, Ids, Entry
    <2> QED BY <1>2, <1>8, <2>1, <2>2, <2>3, FifoOperators DEF Fifo!Join
  <1>9. ASSUME NEW t \in Task, Fresh({t}), q \in PushOne(l, t), active' = active
        PROVE  Fifo!Join
    <2>1. t \notin Ids(l) \cup active
      BY <1>1, <1>9 DEF Fresh
    <2>2. \E r : Behind(r, l, Ids(l) \cup active) /\ q = l \cup r
      <3>1. PICK ids : ids = Ids(l) \cup active
        OBVIOUS
      <3>2. Ids(l) \subseteq ids /\ t \notin ids
        BY <2>1, <3>1
      <3>3. \E r : Behind(r, l, ids) /\ q = l \cup r
        BY <1>2, <1>9, <3>2, PushOneBehind
      <3> QED BY <3>1, <3>3
    <2> QED BY <1>8, <1>9, <2>2
  <1>10. ASSUME NEW z, NEW ts, Fresh(ts), q \in PushAll(l, z, ts), active' = active
         PROVE  Fifo!Join
    <2>1. ts \in SUBSET Task /\ ts \cap (Ids(l) \cup active) = {}
      BY <1>1, <1>10 DEF Fresh
    <2>2. \E r : Behind(r, l, Ids(l) \cup active) /\ q = l \cup r
      <3>1. PICK ids : ids = Ids(l) \cup active
        OBVIOUS
      <3>2. Ids(l) \subseteq ids
        BY <3>1
      <3> QED BY <1>2, <1>10, <2>1, <3>1, <3>2, PushAllBehind
    <2> QED BY <1>8, <1>10, <2>2
  <1> QED BY <1>1, <1>4, <1>5, <1>6, <1>7, <1>9, <1>10, LineSteps DEF Fifo!Next

\* pending and active are a first-in first-out queue, whatever scripts of Clients,
\* servers and Inspectors come in between: a new task, or one that becomes due, joins
\* the line behind all that wait, Dequeue starts the first and no other, a requeued
\* task is the next one, and no script puts two waiting tasks in another order.
THEOREM FifoTheorem == Spec => FifoSpec
  <1>1. Init => Fifo!Init
    <2> SUFFICES ASSUME Init PROVE Fifo!Init
      OBVIOUS
    <2>1. Spread({}) /\ Arranged({}, 0, <<>>)
      BY DEF Spread, Arranged
    <2>2. LineOf({}) = [i \in 1 .. 0 |-> (<<>>)[i].id]
      BY <2>1, LineIs
    <2>3. LineOf({}) = <<>>
      BY <2>2
    <2> QED BY <2>3 DEF Init, Fifo!Init, Line
  <1>2. IInv /\ Spread(pending) /\ [Next]_vars => [Fifo!Next]_<<Line, active>>
    <2>1. UNCHANGED vars => UNCHANGED <<Line, active>>
      BY DEF vars, Line
    <2> QED BY <2>1, FifoStep
  <1> QED BY <1>1, <1>2, Invariance, SpreadAlways, PTL DEF Spec, FifoSpec, Fifo!Spec

-----------------------------------------------------------------------------
(* What the Inspector's queries report.                                     *)

\* A group is listed only while it has tasks.
ListedNotEmpty == \A g \in groups : Members(group[g]) # {}

\* A group that only gained members is still not empty.
LEMMA ListedGrown ==
    ASSUME ListedNotEmpty, groups' = groups,
           \A g \in groups, t \in Task : group[g][t] # Nil => group'[g][t] # Nil
    PROVE  ListedNotEmpty'
    BY DEF ListedNotEmpty, Members

\* addToGroupCmd lists the group of the task it adds.
LEMMA ListedAdded ==
    ASSUME IInv, ListedNotEmpty, NEW t \in Task, NEW g \in Group, NEW now \in Time,
           group' = [group EXCEPT ![g][t] = now], groups' = groups \cup {g}
    PROVE  ListedNotEmpty'
  <1>1. now # Nil
    BY TimeInt, NilAssumption
  <1>2. \A h \in Group, u \in Task : group'[h][u] = IF h = g /\ u = t THEN now ELSE group[h][u]
    BY DEF IInv, TypeOK, ZSet
  <1>3. groups \subseteq Group
    BY DEF IInv, TypeOK
  <1> QED BY <1>1, <1>2, <1>3 DEF ListedNotEmpty, Members

\* A group that lost the members ts is not listed if that were all.
LEMMA ListedLess ==
    ASSUME IInv, ListedNotEmpty, NEW g \in Group, NEW ts \in SUBSET Members(group[g]),
           group' = [group EXCEPT ![g] = ZRem(group[g], ts)],
           groups' = IF ts = Members(group[g]) THEN groups \ {g} ELSE groups
    PROVE  ListedNotEmpty'
  <1>1. \A h \in Group, u \in Task : group'[h][u] = IF h = g /\ u \in ts THEN Nil ELSE group[h][u]
    BY DEF IInv, TypeOK, ZSet, ZRem
  <1>2. groups \subseteq Group
    BY DEF IInv, TypeOK
  <1>3. ASSUME NEW h \in groups' PROVE \E u \in Task : group'[h][u] # Nil
    <2>1. h \in groups /\ h \in Group
      BY <1>2, <1>3
    <2>2. CASE h # g
      BY <1>1, <2>1, <2>2 DEF ListedNotEmpty, Members
    <2>3. CASE h = g
      <3>1. ts # Members(group[g])
        BY <1>3, <2>3
      <3>2. PICK u \in Members(group[g]) : u \notin ts
        BY <3>1
      <3> QED BY <1>1, <2>3, <3>2 DEF Members
    <2> QED BY <2>2, <2>3
  <1> QED BY <1>3 DEF ListedNotEmpty, Members

\* Every script keeps the list of groups without empty ones.
LEMMA ListedStep ==
    ASSUME IInv, ListedNotEmpty, Next
    PROVE  ListedNotEmpty'
  <1>0. ASSUME UNCHANGED <<group, groups>> PROVE ListedNotEmpty'
    BY <1>0 DEF ListedNotEmpty, Members
  <1>1. CASE ClientNext
    <2>1. ASSUME NEW t \in Task, NEW m \in Msg, NEW g \in Group, NEW now \in Time,
                 AddToGroup(t, m, g, now) \/ AddToGroupUnique(t, m, g, now)
          PROVE  ListedNotEmpty'
      BY <1>0, <2>1, ListedAdded DEF AddToGroup, AddToGroupUnique
    <2>2. ASSUME NEW t \in Task, NEW m \in Msg,
                 \/ Enqueue(t, m) \/ EnqueueUnique(t, m)
                 \/ \E at \in Time : Schedule(t, m, at) \/ ScheduleUnique(t, m, at)
          PROVE  ListedNotEmpty'
      BY <1>0, <2>2 DEF Enqueue, EnqueueUnique, Schedule, ScheduleUnique, groupVars
    <2> QED BY <1>1, <2>1, <2>2 DEF ClientNext
  <1>2. CASE ExecutionNext
    BY <1>0, <1>2 DEF ExecutionNext, Dequeue, Done, MarkAsComplete, Requeue, Retry, Archive,
                      WriteResult, ExtendLease, groupVars
  <1>3. CASE BackgroundNext
    <2>1. ASSUME NEW z, NEW ts, NEW now \in Time, ForwardMoved(z, ts, now)
          PROVE  ListedNotEmpty'
      <3>1. now # Nil
        BY TimeInt, NilAssumption
      <3>2. \A g \in groups, t \in Task : group[g][t] # Nil => group'[g][t] # Nil
        BY <2>1, <3>1 DEF ForwardMoved, ZAddAll, IInv, TypeOK
      <3> QED BY <2>1, <3>2, ListedGrown DEF ForwardMoved
    <2>2. ASSUME NEW g \in Group, NEW s \in SetID, NEW now \in Time, NEW deadline \in Time,
                 AggregationCheck(g, s, now, GroupMaxSize, GroupMaxDelay, GroupGracePeriod, deadline)
          PROVE  ListedNotEmpty'
      <3>1. PICK ts \in SUBSET Members(group[g]) :
              /\ group' = [group EXCEPT ![g] = ZRem(group[g], ts)]
              /\ groups' = IF ts = Members(group[g]) THEN groups \ {g} ELSE groups
        BY <2>2 DEF AggregationCheck, Lowest, LowestOf
      <3> QED BY <3>1, ListedLess
    <2>3. ASSUME NEW now \in Time, ReclaimStaleAggregationSets(now) PROVE ListedNotEmpty'
      <3> DEFINE Sources(g, t) ==
                   {k \in {k \in AggKey : aggsets[k] # Nil /\ aggsets[k] <= now} :
                       k[1] = g /\ aggset[k][t] # Nil}
                 src(g, t) == CHOOSE k \in Sources(g, t) : TRUE
      <3>1. /\ groups' = groups
            /\ group' = [g \in Group |-> [t \in Task |->
                           IF Sources(g, t) = {} THEN group[g][t] ELSE aggset[src(g, t)][t]]]
        BY <2>3 DEF ReclaimStaleAggregationSets
      <3>2. ASSUME NEW g \in groups, NEW t \in Task, group[g][t] # Nil PROVE group'[g][t] # Nil
        <4>1. g \in Group
          BY DEF IInv, TypeOK
        <4>2. group'[g][t] = IF Sources(g, t) = {} THEN group[g][t] ELSE aggset[src(g, t)][t]
          BY <3>1, <4>1
        <4>3. Sources(g, t) # {} => src(g, t) \in Sources(g, t)
          OBVIOUS
        <4>4. Sources(g, t) # {} => aggset[src(g, t)][t] # Nil
          <5> HIDE DEF src
          <5> QED BY <4>3
        <4> HIDE DEF src, Sources
        <4> QED BY <3>2, <4>2, <4>4
      <3> QED BY <3>1, <3>2, ListedGrown
    <2> QED BY <1>0, <1>3, <2>1, <2>2, <2>3
            DEF BackgroundNext, ForwardScheduled, ForwardRetry, DeleteExpiredCompletedTasks,
                DeleteAggregationSet, LockExpire, groupVars
  <1>4. CASE InspectorNext
    <2>1. ASSUME NEW t \in Task, Exists(t), LeaveGroup(t),
                 InNamedSet(t) \/ (StateOf(t) = "pending" /\ t \in Ids(pending))
          PROVE  ListedNotEmpty'
      <3>1. CASE StateOf(t) = "aggregating"
        <4>1. PICK g : g = GroupOf(t)
          OBVIOUS
        <4>2. g \in Group /\ group[g][t] # Nil
          BY <2>1, <3>1, <4>1 DEF InNamedSet, GroupOf, IInv, TypeOK, Hash, Exists
        <4>3. {t} \in SUBSET Members(group[g])
          BY <4>2 DEF Members
        <4>4. /\ group' = [group EXCEPT ![g] = ZRem(group[g], {t})]
              /\ groups' = IF {t} = Members(group[g]) THEN groups \ {g} ELSE groups
          BY <2>1, <3>1, <4>1 DEF LeaveGroup
        <4> QED BY <4>2, <4>3, <4>4, ListedLess
      <3>2. CASE StateOf(t) # "aggregating"
        BY <1>0, <2>1, <3>2 DEF LeaveGroup
      <3> QED BY <3>1, <3>2
    <2>2. ASSUME NEW t \in Task,
                 RunTask(t) \/ DeleteTask(t) \/ \E now \in Time : ArchiveTask(t, now)
          PROVE  ListedNotEmpty'
      BY <2>1, <2>2 DEF RunTask, DeleteTask, ArchiveTask
    <2>3. ASSUME NEW g \in Group, group' = [group EXCEPT ![g] = EmptyZ], groups' = groups \ {g}
          PROVE  ListedNotEmpty'
      BY <2>3 DEF ListedNotEmpty, Members, IInv, TypeOK
    <2>4. ASSUME NEW g \in Group,
                 \/ RunAllAggregatingTasks(g) \/ DeleteAllAggregatingTasks(g)
                 \/ \E now \in Time : ArchiveAllAggregatingTasks(g, now)
          PROVE  ListedNotEmpty'
      BY <2>3, <2>4 DEF RunAllAggregatingTasks, DeleteAllAggregatingTasks,
                        ArchiveAllAggregatingTasks
    <2> QED BY <1>0, <1>4, <2>2, <2>4
            DEF InspectorNext, UpdateTaskPayload, RunAllScheduledTasks, RunAllRetryTasks,
                RunAllArchivedTasks, ArchiveAllScheduledTasks, ArchiveAllRetryTasks,
                ArchiveAllPendingTasks, DeleteAllScheduledTasks, DeleteAllRetryTasks,
                DeleteAllArchivedTasks, DeleteAllCompletedTasks, DeleteAllPendingTasks,
                RemoveQueueForce, Pause, Unpause, groupVars
  <1> QED BY <1>1, <1>2, <1>3, <1>4 DEF Next

\* The tasks that GetTaskInfo reports in a state and the counts include.
Shown(s) == ReportedAs(s) \ Hidden

\* They are the tasks filed under the key of that state.
LEMMA ShownAre ==
    ASSUME IInv
    PROVE  /\ Shown("pending") = Ids(pending)
           /\ Shown("active") = active
           /\ Shown("scheduled") = Members(scheduled)
           /\ Shown("retry") = Members(retry)
           /\ Shown("archived") = Members(archived)
           /\ Shown("completed") = Members(completed)
           /\ Shown("aggregating") = {t \in Task : \E g \in groups : group[g][t] # Nil}
  <1>1. \A t \in Task : GetTaskInfo(t, 0).state = hash[t].state
    BY DEF GetTaskInfo
  <1>2. \A s : Shown(s) = {t \in Task : /\ Exists(t) /\ hash[t].state = s
                                        /\ s = "archived" => archived[t] # Nil
                                        /\ s = "aggregating" => \E g \in groups : group[g][t] # Nil}
    BY <1>1 DEF Shown, ReportedAs, Hidden
  <1> USE DEF IInv, TypeOK, Consistent, IndexMatchesState, QueueIndex, HasState, Members
  <1>3. Shown("pending") = Ids(pending)
    BY <1>2 DEF NoTaskLost, Filed, Ids, Entry
  <1>4. Shown("active") = active
    BY <1>2 DEF NoTaskLost, Filed
  <1>5. Shown("scheduled") = Members(scheduled)
    BY <1>2 DEF NoTaskLost, Filed
  <1>6. Shown("retry") = Members(retry)
    BY <1>2 DEF NoTaskLost, Filed
  <1>7. Shown("archived") = Members(archived)
    BY <1>2
  <1>8. Shown("completed") = Members(completed)
    BY <1>2 DEF NoTaskLost, Filed
  <1>9. Shown("aggregating") = {t \in Task : \E g \in groups : group[g][t] # Nil}
    BY <1>2 DEF GroupIndex
  <1> QED BY <1>3, <1>4, <1>5, <1>6, <1>7, <1>8, <1>9

\* A set of tasks is finite.
LEMMA ShownFinite ==
    ASSUME NEW s
    PROVE  IsFiniteSet(Shown(s)) /\ Cardinality(Shown(s)) \in Nat
  <1>1. Shown(s) \in SUBSET Task
    BY DEF Shown, ReportedAs
  <1> QED BY <1>1, TaskAssumption, FS_Subset, FS_CardinalityType

\* Each count is the number of tasks reported.
LEMMA CountsExact ==
    ASSUME IInv, NEW s \in States
    PROVE  CurrentStats[s] = Cardinality(Shown(s))
  <1>1. CASE s = "pending"
    <2> DEFINE f == [t \in Ids(pending) |-> CHOOSE e \in pending : e.id = t]
    <2>1. \A t \in Ids(pending) : f[t] \in pending /\ f[t].id = t
      BY DEF Ids
    <2>2. \A e \in pending : e.id \in Ids(pending) /\ f[e.id] = e
      <3>1. \A e \in pending : e.id \in Ids(pending)
        BY DEF Ids
      <3> HIDE DEF f
      <3> QED BY <2>1, <3>1 DEF IInv, Consistent, NoDuplicatePending
    <2>3. f \in [Ids(pending) -> pending]
      BY <2>1
    <2> HIDE DEF f
    <2>4. f \in Bijection(Ids(pending), pending)
      BY <2>1, <2>2, <2>3 DEF Bijection, Injection, Surjection, IsInjective
    <2>5. IsFiniteSet(Ids(pending))
      BY ShownAre, ShownFinite
    <2>6. Cardinality(pending) = Cardinality(Ids(pending))
      BY <2>4, <2>5, FS_Bijection DEF ExistsBijection
    <2> QED BY <1>1, <2>6, ShownAre DEF CurrentStats
  <1>2. CASE s = "aggregating"
    <2> DEFINE A == {t \in Task : \E g \in groups : group[g][t] # Nil}
               f == [t \in A |-> <<hash[t].group, t>>]
    <2>1. \A g \in groups, t \in Task : group[g][t] # Nil => hash[t].group = g
      BY DEF IInv, TypeOK, Consistent, IndexMatchesState, GroupIndex
    <2>2. \A t \in A : /\ t \in Task /\ hash[t].group \in groups /\ group[hash[t].group][t] # Nil
      BY <2>1
    <2>3. \A t \in A : f[t] = <<hash[t].group, t>> /\ f[t] \in GroupMembers
      BY <2>2 DEF GroupMembers
    <2>4. ASSUME NEW m \in GroupMembers PROVE \E t \in A : f[t] = m
      <3>1. m[1] \in groups /\ m[2] \in Task /\ group[m[1]][m[2]] # Nil /\ m = <<m[1], m[2]>>
        BY DEF GroupMembers
      <3>2. m[2] \in A /\ hash[m[2]].group = m[1]
        BY <2>1, <3>1
      <3>3. f[m[2]] = <<hash[m[2]].group, m[2]>>
        BY <2>3, <3>2
      <3> HIDE DEF f, A
      <3> QED BY <3>1, <3>2, <3>3
    <2>5. \A t, u \in A : f[t] = f[u] => t = u
      BY <2>3
    <2>6. f \in [A -> GroupMembers]
      BY <2>3
    <2>7. A = Shown("aggregating")
      BY ShownAre
    <2> HIDE DEF f, A
    <2>8. f \in Bijection(A, GroupMembers)
      BY <2>4, <2>5, <2>6 DEF Bijection, Injection, Surjection, IsInjective
    <2>9. Cardinality(GroupMembers) = Cardinality(A)
      BY <2>7, <2>8, ShownFinite, FS_Bijection DEF ExistsBijection
    <2> QED BY <1>2, <2>7, <2>9 DEF CurrentStats
  <1>3. CASE s \in {"active", "scheduled", "retry", "archived", "completed"}
    BY <1>3, ShownAre DEF CurrentStats
  <1> QED BY <1>1, <1>2, <1>3 DEF States

\* Two disjoint finite sets.
LEMMA DisjointUnion ==
    ASSUME NEW S, NEW T, IsFiniteSet(S), IsFiniteSet(T), S \cap T = {}
    PROVE  IsFiniteSet(S \cup T) /\ Cardinality(S \cup T) = Cardinality(S) + Cardinality(T)
  <1>1. Cardinality(S) \in Nat /\ Cardinality(T) \in Nat /\ Cardinality(S \cap T) = 0
    BY FS_CardinalityType, FS_EmptySet
  <1>2. Cardinality(S \cup T) = Cardinality(S) + Cardinality(T) - Cardinality(S \cap T)
    BY FS_Union
  <1> QED BY <1>1, <1>2, FS_Union

\* No task is shown in two states.
LEMMA ShownOnce ==
    ASSUME NEW s, NEW u, s # u
    PROVE  Shown(s) \cap Shown(u) = {}
  <1>1. \A t \in Task : GetTaskInfo(t, 0).state = hash[t].state
    BY DEF GetTaskInfo
  <1> QED BY <1>1 DEF Shown, ReportedAs

\* Size counts every task that is shown.
LEMMA SizeExact ==
    ASSUME IInv
    PROVE  Size = Cardinality((UNION {ReportedAs(s) : s \in States}) \ Hidden)
  <1> DEFINE A == Shown("pending") \cup Shown("active")
             B == A \cup Shown("scheduled")
             C == B \cup Shown("retry")
             D == C \cup Shown("archived")
             E == D \cup Shown("completed")
             F == E \cup Shown("aggregating")
  <1>1. (UNION {ReportedAs(s) : s \in States}) \ Hidden = F
    BY DEF Shown, States
  <1>2. \A s : IsFiniteSet(Shown(s)) /\ Cardinality(Shown(s)) \in Nat
    BY ShownFinite
  <1>3. /\ IsFiniteSet(A)
        /\ Cardinality(A) = Cardinality(Shown("pending")) + Cardinality(Shown("active"))
    BY <1>2, ShownOnce, DisjointUnion
  <1>4. IsFiniteSet(B) /\ Cardinality(B) = Cardinality(A) + Cardinality(Shown("scheduled"))
    <2>1. A \cap Shown("scheduled") = {}
      BY ShownOnce
    <2> HIDE DEF A
    <2> QED BY <1>2, <1>3, <2>1, DisjointUnion
  <1>5. IsFiniteSet(C) /\ Cardinality(C) = Cardinality(B) + Cardinality(Shown("retry"))
    <2>1. B \cap Shown("retry") = {}
      BY ShownOnce
    <2> HIDE DEF B
    <2> QED BY <1>2, <1>4, <2>1, DisjointUnion
  <1>6. IsFiniteSet(D) /\ Cardinality(D) = Cardinality(C) + Cardinality(Shown("archived"))
    <2>1. C \cap Shown("archived") = {}
      BY ShownOnce
    <2> HIDE DEF C
    <2> QED BY <1>2, <1>5, <2>1, DisjointUnion
  <1>7. IsFiniteSet(E) /\ Cardinality(E) = Cardinality(D) + Cardinality(Shown("completed"))
    <2>1. D \cap Shown("completed") = {}
      BY ShownOnce
    <2> HIDE DEF D
    <2> QED BY <1>2, <1>6, <2>1, DisjointUnion
  <1>8. Cardinality(F) = Cardinality(E) + Cardinality(Shown("aggregating"))
    <2>1. E \cap Shown("aggregating") = {}
      BY ShownOnce
    <2> HIDE DEF E
    <2> QED BY <1>2, <1>7, <2>1, DisjointUnion
  <1> HIDE DEF A, B, C, D, E, F
  <1>9. \A s \in States : CurrentStats[s] = Cardinality(Shown(s))
    BY CountsExact
  <1>10. Size = CurrentStats["pending"] + CurrentStats["active"] + CurrentStats["scheduled"]
                  + CurrentStats["retry"] + CurrentStats["archived"]
                  + CurrentStats["completed"] + CurrentStats["aggregating"]
    BY DEF Size
  <1>11. Size = Cardinality(F)
    BY <1>2, <1>3, <1>4, <1>5, <1>6, <1>7, <1>8, <1>9, <1>10 DEF States
  <1> QED BY <1>1, <1>11

\* The counts of GetQueueInfo and GroupStats are exact, and neither ever fails,
\* after any sequence of scripts.
THEOREM StatsTheorem == Spec => []StatsExact
  <1>1. Init => ListedNotEmpty
    BY DEF Init, ListedNotEmpty
  <1>2. IInv /\ ListedNotEmpty /\ [Next]_vars => ListedNotEmpty'
    <2>1. ListedNotEmpty /\ UNCHANGED vars => ListedNotEmpty'
      BY DEF vars, groupVars, ListedNotEmpty, Members
    <2> QED BY <2>1, ListedStep
  <1>3. IInv /\ ListedNotEmpty => StatsExact
    <2> SUFFICES ASSUME IInv, ListedNotEmpty PROVE StatsExact
      OBVIOUS
    <2>1. MemoryUsageDefined
      <3>1. \A t \in Sampled : Exists(t)
        BY DEF Sampled, IInv, TypeOK, Consistent, IndexMatchesState, QueueIndex, GroupIndex,
               HasState, Members, Ids
      <3>2. \A gs \in GroupSamples : \E g \in gs : Members(group[g]) # {}
        BY DEF GroupSamples, ListedNotEmpty
      <3> QED BY <3>1, <3>2 DEF MemoryUsageDefined
    <2>2. \A s \in States : CurrentStats[s] = Cardinality(ReportedAs(s) \ Hidden)
      BY CountsExact DEF Shown
    <2>3. ReportedAs("completed") = {} =>
            Size = Cardinality((UNION {ReportedAs(s) : s \in States}) \ Hidden)
      BY SizeExact
    <2>4. ASSUME NEW g \in groups
          PROVE  GroupStats[g] =
                   Cardinality({t \in ReportedAs("aggregating") \ Hidden : hash[t].group = g})
      <3>1. Members(group[g]) = {t \in Shown("aggregating") : hash[t].group = g}
        BY ShownAre DEF Members, IInv, TypeOK, Consistent, IndexMatchesState, GroupIndex
      <3> QED BY <3>1 DEF GroupStats, Shown
    <2> QED BY <2>1, <2>2, <2>3, <2>4 DEF StatsExact
  <1> QED BY <1>1, <1>2, <1>3, Invariance, PTL DEF Spec


-----------------------------------------------------------------------------
\* The listings of the Inspector: a page is a piece of the sequence, whatever its
\* size, and the pages put together are the sequence again.

\* Two functions that agree at 0 and go on in the same way agree.
LEMMA StepwiseEqual ==
    ASSUME NEW n \in Nat, NEW f, NEW g, f[0] = g[0],
           \A i \in 1 .. n : f[i - 1] = g[i - 1] => f[i] = g[i]
    PROVE  f[n] = g[n]
  <1> DEFINE D == {i \in 0 .. n : f[i] # g[i]}
  <1>1. ASSUME D # {} PROVE FALSE
    <2>1. D \in SUBSET Nat
      OBVIOUS
    <2>2. PICK k \in D : \A i \in D : k <= i
      <3> HIDE DEF D
      <3> QED BY <1>1, <2>1, LeastNatural
    <2>3. k \in 1 .. n /\ k - 1 \in 0 .. n /\ ~(k <= k - 1)
      BY <2>2
    <2>4. f[k - 1] = g[k - 1]
      BY <2>2, <2>3
    <2> QED BY <2>2, <2>3, <2>4
  <1> QED BY <1>1

\* Nothing is skipped of tasks that decode.
LEMMA DecodedAll ==
    ASSUME NEW S, NEW s \in Seq(S), \A i \in 1 .. Len(s) : Decodes(s[i])
    PROVE  Decoded(s) = s
  <1>0. PICK n : n = Len(s)
    OBVIOUS
  <1> DEFINE Def(g) == [i \in 0 .. n |->
                          IF i = 0 THEN << >>
                          ELSE IF Decodes(s[i]) THEN Append(g[i - 1], s[i]) ELSE g[i - 1]]
             w == [i \in 0 .. n |-> SubSeq(s, 1, i)]
             data == CHOOSE g : g = Def(g)
  <1>1. n \in Nat /\ \A i \in 1 .. n : s[i] \in S
    BY <1>0, LenProperties, ElementOfSeq
  <1>2. Decoded(s) = data[n]
    BY <1>0 DEF Decoded
  <1>3. \A i \in 1 .. n : i \in 0 .. n /\ i - 1 \in 0 .. n /\ i # 0
    BY <1>1
  <1>4. \A i \in 1 .. n : w[i] = Append(w[i - 1], s[i])
    <2> SUFFICES ASSUME NEW i \in 1 .. n PROVE w[i] = Append(w[i - 1], s[i])
      OBVIOUS
    <2>1. i - 1 \in Int /\ i \in Int /\ 1 \in 1 .. n /\ i \in 1 .. n
      BY <1>1
    <2>2. SubSeq(s, 1, i - 1) \in Seq(S) /\ Len(SubSeq(s, 1, i - 1)) = i - 1
      BY <1>1, <2>1, SubSeqProperties
    <2>3. SubSeq(s, 1, i) \in Seq(S) /\ Len(SubSeq(s, 1, i)) = i
      BY <1>1, <2>1, SubSeqProperties
    <2>4. \A j \in 1 .. i : SubSeq(s, 1, i)[j] = s[j]
      BY <1>1, <2>1, SubSeqProperties
    <2>5. \A j \in 1 .. i - 1 : SubSeq(s, 1, i - 1)[j] = s[j]
      BY <1>1, <2>1, SubSeqProperties
    <2>6. PICK a, b : a = SubSeq(s, 1, i - 1) /\ b = SubSeq(s, 1, i)
      OBVIOUS
    <2>7. s[i] \in S
      BY <1>1
    <2>8. Append(a, s[i]) \in Seq(S) /\ Len(Append(a, s[i])) = i
      BY <2>2, <2>6, <2>7
    <2>9. \A j \in 1 .. i : Append(a, s[i])[j] = b[j]
      BY <2>2, <2>3, <2>4, <2>5, <2>6, <2>7
    <2>10. b = Append(a, s[i])
      BY <2>3, <2>6, <2>8, <2>9, SeqEqual
    <2> QED BY <1>3, <2>6, <2>10
  <1>5. w[0] = << >>
    BY <1>1, SubSeqEmpty
  <1>6. w = Def(w)
    <2>1. ASSUME NEW i \in 0 .. n
          PROVE  w[i] = IF i = 0 THEN << >>
                        ELSE IF Decodes(s[i]) THEN Append(w[i - 1], s[i]) ELSE w[i - 1]
      <3>1. CASE i = 0
        BY <1>5, <3>1
      <3>2. CASE i # 0
        <4>1. i \in 1 .. n /\ Decodes(s[i])
          BY <1>0, <1>1, <3>2
        <4> HIDE DEF w
        <4> QED BY <1>4, <3>2, <4>1
      <3> QED BY <3>1, <3>2
    <2>2. w = [i \in 0 .. n |-> w[i]]
      OBVIOUS
    <2> HIDE DEF w
    <2> QED BY <2>1, <2>2
  <1>7. data = Def(data)
    <2> HIDE DEF w, Def
    <2> QED BY <1>6
  <1> HIDE DEF data
  <1>8. data[0] = << >> /\ \A i \in 1 .. n : data[i] = Append(data[i - 1], s[i])
    <2>1. \A i \in 0 .. n : data[i] = IF i = 0 THEN << >>
             ELSE IF Decodes(s[i]) THEN Append(data[i - 1], s[i]) ELSE data[i - 1]
      BY <1>7
    <2> HIDE DEF w, Def
    <2>2. 0 \in 0 .. n /\ \A i \in 1 .. n : i \in 0 .. n /\ i # 0 /\ Decodes(s[i])
      BY <1>0, <1>1
    <2>3. data[0] = << >>
      BY <2>1, <2>2
    <2> QED BY <2>1, <2>2, <2>3
  <1> HIDE DEF w, Def
  <1>9. data[n] = w[n]
    <2>1. \A i \in 1 .. n : data[i - 1] = w[i - 1] => data[i] = w[i]
      BY <1>4, <1>8
    <2>2. n \in Nat /\ data[0] = w[0]
      BY <1>1, <1>5, <1>8
    <2> QED BY ONLY <2>1, <2>2, StepwiseEqual
  <1>10. w[n] = s
    BY <1>0, <1>1, SubSeqFull DEF w
  <1> QED BY <1>2, <1>9, <1>10

\* The smaller of two numbers, and the p-th page of n elements.
Cut(k, l) == IF k <= l THEN k ELSE l
PageOf(s, n, p) == SubSeq(s, n * (p - 1) + 1, Cut(n * p, Len(s)))

\* q is the piece of s behind its first k elements, of at most n.
Piece(q, s, k, n) ==
    /\ Len(q) = IF k <= Len(s) THEN Cut(k + n, Len(s)) - k ELSE 0
    /\ \A i \in 1 .. Len(q) : k + i \in 1 .. Len(s) /\ q[i] = s[k + i]

\* What a page holds.
LEMMA PageFacts ==
    ASSUME NEW S, NEW s \in Seq(S), NEW n \in Nat \ {0}, NEW p \in Nat \ {0}, NEW k,
           k = n * (p - 1)
    PROVE  /\ k \in Nat /\ n * p = k + n
           /\ PageOf(s, n, p) \in Seq(S)
           /\ Piece(PageOf(s, n, p), s, k, n)
  <1>1. k \in Nat /\ n * p = k + n
    <2>1. p - 1 \in Nat
      OBVIOUS
    <2>2. PICK m \in Nat : m = p - 1
      BY <2>1
    <2>3. p = m + 1
      BY <2>2
    <2>4. n * m \in Nat /\ n * (m + 1) = n * m + n
      BY <2>2
    <2> QED BY <2>2, <2>3, <2>4
  <1>2. Len(s) \in Nat /\ \A i \in 1 .. Len(s) : s[i] \in S
    BY LenProperties, ElementOfSeq
  <1>3. PICK c : c = Cut(k + n, Len(s))
    OBVIOUS
  <1>4. c \in Nat /\ c <= Len(s) /\ c <= k + n /\ (c = k + n \/ c = Len(s))
    BY <1>1, <1>2, <1>3 DEF Cut
  <1>5. PageOf(s, n, p) = SubSeq(s, k + 1, c)
    BY <1>1, <1>3 DEF PageOf
  <1>6. k + 1 \in Int /\ c \in Int /\ \A i \in k + 1 .. c : s[i] \in S
    BY <1>1, <1>2, <1>4
  <1>7. /\ PageOf(s, n, p) \in Seq(S)
        /\ Len(PageOf(s, n, p)) = IF k + 1 <= c THEN c - (k + 1) + 1 ELSE 0
        /\ \A i \in 1 .. c - (k + 1) + 1 : PageOf(s, n, p)[i] = s[(k + 1) + i - 1]
    BY <1>5, <1>6, SubSeqProperties
  <1>8. Len(PageOf(s, n, p)) = IF k <= Len(s) THEN c - k ELSE 0
    BY <1>1, <1>2, <1>4, <1>7
  <1>9. ASSUME NEW i \in 1 .. Len(PageOf(s, n, p))
        PROVE  k + i \in 1 .. Len(s) /\ PageOf(s, n, p)[i] = s[k + i]
    <2>1. i \in 1 .. c - (k + 1) + 1 /\ (k + 1) + i - 1 = k + i /\ k + i \in 1 .. Len(s)
      BY <1>1, <1>2, <1>4, <1>7
    <2> QED BY <1>7, <2>1
  <1> QED BY <1>1, <1>3, <1>7, <1>8, <1>9 DEF Piece

\* The pages put together are the whole.
LEMMA PagesJoined ==
    ASSUME NEW S, NEW s \in Seq(S), NEW n \in Nat \ {0}, NEW N \in Nat, Len(s) <= N
    PROVE  FlattenSeq([p \in 1 .. N |-> PageOf(s, n, p)]) = s
  <1> DEFINE seqs == [p \in 1 .. N |-> PageOf(s, n, p)]
             Def(g) == [i \in 1 .. Len(seqs) |-> IF i = 1 THEN seqs[i] ELSE g[i - 1] \o seqs[i]]
             w == [i \in 1 .. N |-> SubSeq(s, 1, Cut(n * i, Len(s)))]
             flatten == CHOOSE g : g = Def(g)
  <1>1. Len(s) \in Nat /\ \A i \in 1 .. Len(s) : s[i] \in S
    BY LenProperties, ElementOfSeq
  <1>2. Len(seqs) = N
    <2>1. \A p \in 1 .. N : PageOf(s, n, p) \in Seq(S)
      BY PageFacts
    <2>2. seqs \in Seq(Seq(S))
      BY <2>1, IsASeq
    <2>3. DOMAIN seqs = 1 .. N
      OBVIOUS
    <2> HIDE DEF seqs
    <2> QED BY <2>2, <2>3, LenProperties
  <1>3. FlattenSeq(seqs) = IF Len(seqs) = 0 THEN seqs ELSE flatten[Len(seqs)]
    BY DEF FlattenSeq
  <1>4. CASE N = 0
    <2>1. s = << >>
      BY <1>1, <1>4, EmptySeq
    <2>2. seqs = << >>
      BY <1>4
    <2> QED BY <1>2, <1>3, <1>4, <2>1, <2>2
  <1>5. CASE N # 0
    <2>0. \A i \in 1 .. N : w[i] = SubSeq(s, 1, Cut(n * i, Len(s))) /\ seqs[i] = PageOf(s, n, i)
      OBVIOUS
    <2>1. ASSUME NEW i \in 1 .. N, NEW c, c = Cut(n * i, Len(s))
          PROVE  /\ c \in Nat /\ c <= Len(s)
                 /\ w[i] \in Seq(S) /\ Len(w[i]) = c
                 /\ \A j \in 1 .. c : w[i][j] = s[j]
      <3>1. n * i \in Nat /\ c \in Nat /\ c <= Len(s)
        BY <1>1, <2>1 DEF Cut
      <3>2. \A j \in 1 .. c : s[j] \in S
        BY <1>1, <3>1
      <3>3. /\ SubSeq(s, 1, c) \in Seq(S)
            /\ Len(SubSeq(s, 1, c)) = IF 1 <= c THEN c - 1 + 1 ELSE 0
            /\ \A j \in 1 .. c - 1 + 1 : SubSeq(s, 1, c)[j] = s[1 + j - 1]
        BY <3>1, <3>2, SubSeqProperties
      <3>4. c - 1 + 1 = c /\ \A j \in 1 .. c : 1 + j - 1 = j
        BY <3>1
      <3>5. w[i] = SubSeq(s, 1, c)
        BY <2>1
      <3> HIDE DEF w, seqs
      <3> QED BY <3>1, <3>3, <3>4, <3>5
    <2>2. w[1] = seqs[1]
      BY <1>5 DEF PageOf
    <2>3. ASSUME NEW i \in 2 .. N PROVE w[i] = w[i - 1] \o seqs[i]
      <3>1. PICK k : k = n * (i - 1)
        OBVIOUS
      <3>2. i \in 1 .. N /\ i - 1 \in 1 .. N /\ i \in Nat \ {0}
        BY <2>3
      <3> HIDE DEF w, seqs
      <3>3. /\ k \in Nat /\ n * i = k + n
            /\ seqs[i] \in Seq(S)
            /\ Len(seqs[i]) = IF k <= Len(s) THEN Cut(k + n, Len(s)) - k ELSE 0
            /\ \A j \in 1 .. Len(seqs[i]) : k + j \in 1 .. Len(s) /\ seqs[i][j] = s[k + j]
        <4>1. PICK y : y = PageOf(s, n, i)
          OBVIOUS
        <4>2. k \in Nat /\ n * i = k + n /\ y \in Seq(S) /\ Piece(y, s, k, n)
          BY ONLY <3>1, <3>2, <4>1, s \in Seq(S), n \in Nat \ {0}, PageFacts
        <4>3. seqs[i] = y
          BY <2>0, <3>2, <4>1
        <4> QED BY ONLY <4>2, <4>3 DEF Piece
      <3>4. PICK b, c : b = Cut(k, Len(s)) /\ c = Cut(k + n, Len(s))
        OBVIOUS
      <3>5. /\ b \in Nat /\ w[i - 1] \in Seq(S) /\ Len(w[i - 1]) = b
            /\ \A j \in 1 .. b : w[i - 1][j] = s[j]
        BY <2>1, <3>1, <3>2, <3>4
      <3>6. /\ c \in Nat /\ w[i] \in Seq(S) /\ Len(w[i]) = c
            /\ \A j \in 1 .. c : w[i][j] = s[j]
        BY <2>1, <3>2, <3>3, <3>4
      <3>7. PICK x, y, z : x = w[i - 1] /\ y = seqs[i] /\ z = x \o y
        OBVIOUS
      <3>8. /\ z \in Seq(S) /\ Len(z) = b + Len(y)
            /\ \A j \in 1 .. b + Len(y) : z[j] = IF j <= b THEN x[j] ELSE y[j - b]
        <4>1. x \in Seq(S) /\ y \in Seq(S) /\ Len(x) = b
          BY <3>3, <3>5, <3>7
        <4>2. Len(x \o y) = Len(x) + Len(y) /\ x \o y \in Seq(S)
          BY ONLY <4>1, ConcatProperties
        <4>3. \A j \in 1 .. Len(x) + Len(y) :
                (x \o y)[j] = IF j <= Len(x) THEN x[j] ELSE y[j - Len(x)]
          BY ONLY <4>1, ConcatProperties
        <4> QED BY ONLY <3>7, <4>1, <4>2, <4>3
      <3>9. Len(y) \in Nat /\ b + Len(y) = c
        <4>1. Len(y) = IF k <= Len(s) THEN Cut(k + n, Len(s)) - k ELSE 0
          BY <3>3, <3>7
        <4> QED BY <1>1, <3>3, <3>4, <4>1 DEF Cut
      <3>10. ASSUME NEW j \in 1 .. c PROVE z[j] = w[i][j]
        <4>1. CASE j <= b
          <5>1. j \in 1 .. b /\ j \in 1 .. b + Len(y)
            BY <3>5, <3>9, <4>1
          <5>2. z[j] = x[j] /\ x[j] = s[j]
            BY <3>5, <3>7, <3>8, <4>1, <5>1
          <5> QED BY <3>6, <5>2
        <4>2. CASE ~(j <= b)
          <5>1. j - b \in 1 .. Len(y)
            BY <3>5, <3>9, <4>2
          <5>2. b = k
            BY <1>1, <3>3, <3>4, <3>7, <3>9, <5>1 DEF Cut
          <5>3. y[j - b] = s[j]
            BY <3>3, <3>5, <3>7, <5>1, <5>2
          <5> QED BY <3>6, <3>8, <3>9, <4>2, <5>3
        <4> QED BY <4>1, <4>2
      <3>11. z = w[i]
        BY <3>6, <3>8, <3>9, <3>10, SeqEqual
      <3> QED BY <3>7, <3>11
    <2>4. w = Def(w)
      <3>1. ASSUME NEW i \in 1 .. N
            PROVE  w[i] = IF i = 1 THEN seqs[i] ELSE w[i - 1] \o seqs[i]
        <4>1. i # 1 => i \in 2 .. N
          OBVIOUS
        <4> HIDE DEF w, seqs
        <4> QED BY <2>2, <2>3, <4>1
      <3>2. w = [i \in 1 .. N |-> w[i]]
        OBVIOUS
      <3> HIDE DEF w, seqs
      <3> QED BY <1>2, <3>1, <3>2
    <2>5. flatten = Def(flatten)
      <3> HIDE DEF w, Def
      <3> QED BY <2>4
    <2> HIDE DEF flatten
    <2>6. flatten[1] = seqs[1] /\ \A i \in 2 .. N : flatten[i] = flatten[i - 1] \o seqs[i]
      <3> HIDE DEF seqs
      <3>1. \A i \in 1 .. N : flatten[i] = IF i = 1 THEN seqs[i] ELSE flatten[i - 1] \o seqs[i]
        BY <1>2, <2>5
      <3>2. 1 \in 1 .. N /\ \A i \in 2 .. N : i \in 1 .. N /\ i # 1
        BY <1>5
      <3> HIDE DEF Def
      <3> QED BY <3>1, <3>2
    <2>7. flatten[N] = w[N]
      <3> DEFINE f == [i \in 0 .. N - 1 |-> flatten[i + 1]]
                 g == [i \in 0 .. N - 1 |-> w[i + 1]]
      <3>1. N - 1 \in Nat /\ f[0] = g[0]
        BY <1>5, <2>2, <2>6
      <3>2. ASSUME NEW i \in 1 .. N - 1, f[i - 1] = g[i - 1] PROVE f[i] = g[i]
        <4>1. /\ i + 1 \in 2 .. N /\ (i + 1) - 1 = i /\ (i - 1) + 1 = i
              /\ i \in 0 .. N - 1 /\ i - 1 \in 0 .. N - 1
          BY <1>5
        <4>2. f[i] = flatten[i + 1] /\ g[i] = w[i + 1] /\ f[i - 1] = flatten[i] /\ g[i - 1] = w[i]
          BY <4>1
        <4>3. flatten[i + 1] = flatten[i] \o seqs[i + 1] /\ w[i + 1] = w[i] \o seqs[i + 1]
          <5> HIDE DEF w, seqs
          <5> QED BY <2>3, <2>6, <4>1
        <4> HIDE DEF f, g, w, seqs
        <4> QED BY <3>2, <4>2, <4>3
      <3>3. f[N - 1] = flatten[N] /\ g[N - 1] = w[N]
        BY <1>5
      <3> HIDE DEF f, g
      <3> QED BY <3>1, <3>2, <3>3, StepwiseEqual
    <2>8. w[N] = s
      <3>1. n * N \in Nat /\ N <= n * N /\ N \in 1 .. N
        BY <1>5
      <3>2. Cut(n * N, Len(s)) = Len(s)
        BY <1>1, <3>1 DEF Cut
      <3>3. w[N] = SubSeq(s, 1, Len(s))
        BY <3>1, <3>2
      <3> QED BY <3>3, SubSeqFull
    <2> QED BY <1>2, <1>3, <1>5, <2>7, <2>8
  <1> QED BY <1>4, <1>5

\* The larger and the smaller of two numbers.
LEMMA MaxMinOf ==
    ASSUME NEW a \in Int, NEW b \in Int
    PROVE  /\ Max({a, b}) = IF a >= b THEN a ELSE b
           /\ Min({a, b}) = IF a <= b THEN a ELSE b
  <1>1. \E x \in {a, b} : \A y \in {a, b} : x >= y
    OBVIOUS
  <1>2. \E x \in {a, b} : \A y \in {a, b} : x <= y
    OBVIOUS
  <1>3. PICK x, y : x = Max({a, b}) /\ y = Min({a, b})
    OBVIOUS
  <1>4. x \in {a, b} /\ \A w \in {a, b} : x >= w
    BY <1>1, <1>3 DEF Max
  <1>5. y \in {a, b} /\ \A w \in {a, b} : y <= w
    BY <1>2, <1>3 DEF Min
  <1> QED BY <1>3, <1>4, <1>5

\* A page read from the front.
LEMMA FrontPage ==
    ASSUME NEW S, NEW s \in Seq(S), NEW n \in Nat \ {0}, NEW p \in Nat \ {0}
    PROVE  LRange(s, Start(n, p - 1), Stop(n, p - 1)) = PageOf(s, n, p)
  <1>1. PICK k : k = n * (p - 1)
    OBVIOUS
  <1>2. k \in Nat /\ n * p = k + n /\ Len(s) \in Nat
    BY <1>1, PageFacts, LenProperties
  <1>3. Start(n, p - 1) = k /\ Stop(n, p - 1) = k + n - 1
    BY <1>1 DEF Start, Stop
  <1>4. PICK m : m = Min({k + n - 1, Len(s) - 1})
    OBVIOUS
  <1>5. m + 1 = Cut(n * p, Len(s))
    <2>1. PICK a, b : a = k + n - 1 /\ b = Len(s) - 1
      OBVIOUS
    <2>2. a \in Int /\ b \in Int
      BY <1>2, <2>1
    <2>3. m = IF a <= b THEN a ELSE b
      BY <1>4, <2>1, <2>2, MaxMinOf
    <2> QED BY <1>2, <2>1, <2>3 DEF Cut
  <1>6. ~(k < 0) /\ ~(k + n - 1 < 0)
    BY <1>2
  <1>7. LRange(s, k, k + n - 1) = SubSeq(s, k + 1, m + 1)
    BY <1>4, <1>6 DEF LRange
  <1> QED BY <1>1, <1>3, <1>5, <1>7 DEF PageOf

\* A sequence turned round.
LEMMA ReverseFacts ==
    ASSUME NEW S, NEW s \in Seq(S)
    PROVE  /\ Reverse(s) \in Seq(S)
           /\ Len(Reverse(s)) = Len(s)
           /\ \A i \in 1 .. Len(s) : Reverse(s)[i] = s[(Len(s) - i) + 1]
  <1>1. Len(s) \in Nat /\ \A i \in 1 .. Len(s) : s[i] \in S
    BY LenProperties, ElementOfSeq
  <1>2. PICK l : l = Len(s)
    OBVIOUS
  <1> DEFINE r == [i \in 1 .. l |-> s[(l - i) + 1]]
  <1>3. Reverse(s) = r
    BY <1>2 DEF Reverse
  <1>4. \A i \in 1 .. l : s[(l - i) + 1] \in S
    BY <1>1, <1>2
  <1>5. r \in Seq(S) /\ DOMAIN r = 1 .. l /\ \A i \in 1 .. l : r[i] = s[(l - i) + 1]
    BY <1>1, <1>2, <1>4, IsASeq
  <1> HIDE DEF r
  <1> QED BY <1>1, <1>2, <1>3, <1>5, LenProperties

\* A page read from the end of the sequence turned round, and turned back.
LEMMA BackPage ==
    ASSUME NEW S, NEW s \in Seq(S), NEW n \in Nat \ {0}, NEW k \in Nat, NEW q \in Seq(S),
           Piece(q, s, k, n),
           NEW u, NEW d, NEW e, d = -(k + n), e = -(k + 1), u = LRange(Reverse(s), d, e)
    PROVE  u \in Seq(S) /\ Reverse(u) = q
  <1>1. PICK l, r : l = Len(s) /\ r = Reverse(s)
    OBVIOUS
  <1>2. l \in Nat /\ Len(q) = IF k <= l THEN Cut(k + n, l) - k ELSE 0
    BY <1>1, LenProperties DEF Piece
  <1>3. r \in Seq(S) /\ Len(r) = l /\ \A i \in 1 .. l : r[i] = s[(l - i) + 1] /\ r[i] \in S
    BY <1>1, <1>2, ReverseFacts, ElementOfSeq
  <1>5. PICK f, m : f = Max({l + -(k + n), 0}) /\ m = Min({l + -(k + 1), l - 1})
    OBVIOUS
  <1>6. f \in Nat /\ f = (IF l <= k + n THEN 0 ELSE l - k - n) /\ m + 1 = l - k /\ m \in Int
    <2>1. PICK a, b, c : a = l + -(k + n) /\ b = l + -(k + 1) /\ c = l - 1
      OBVIOUS
    <2>2. a \in Int /\ b \in Int /\ c \in Int
      BY <1>2, <2>1
    <2>3. Max({a, 0}) = IF a >= 0 THEN a ELSE 0
      BY ONLY <2>2, MaxMinOf
    <2>4. Min({b, c}) = IF b <= c THEN b ELSE c
      BY ONLY <2>2, MaxMinOf
    <2>5. f = (IF a >= 0 THEN a ELSE 0) /\ m = IF b <= c THEN b ELSE c
      BY ONLY <1>5, <2>1, <2>3, <2>4
    <2> QED BY ONLY <1>2, <2>1, <2>5, k \in Nat, n \in Nat \ {0}
  <1>7. u = SubSeq(r, f + 1, m + 1)
    <2>1. -(k + n) < 0 /\ -(k + 1) < 0
      BY <1>2
    <2>2. u = LRange(r, -(k + n), -(k + 1))
      BY <1>1
    <2> QED BY <1>3, <1>5, <2>1, <2>2 DEF LRange
  <1>8. \A i \in f + 1 .. m + 1 : r[i] \in S
    BY <1>2, <1>3, <1>6
  <1>9. /\ u \in Seq(S)
        /\ Len(u) = IF f + 1 <= m + 1 THEN (m + 1) - (f + 1) + 1 ELSE 0
        /\ \A i \in 1 .. (m + 1) - (f + 1) + 1 : u[i] = r[(f + 1) + i - 1]
    <2>1. PICK a, b : a = f + 1 /\ b = m + 1
      OBVIOUS
    <2>2. a \in Int /\ b \in Int /\ \A i \in a .. b : r[i] \in S
      BY <1>6, <1>8, <2>1
    <2>3. /\ SubSeq(r, a, b) \in Seq(S)
          /\ Len(SubSeq(r, a, b)) = IF a <= b THEN b - a + 1 ELSE 0
          /\ \A i \in 1 .. b - a + 1 : SubSeq(r, a, b)[i] = r[a + i - 1]
      BY ONLY <2>2, SubSeqProperties
    <2> QED BY <1>7, <2>1, <2>3
  <1>10. Len(u) = Len(q) /\ Len(q) \in Nat /\ (Len(q) > 0 => f + Len(q) = l - k)
    <2>1. PICK x, y, c : x = Len(u) /\ y = Len(q) /\ c = Cut(k + n, l)
      OBVIOUS
    <2>2. c = IF k + n <= l THEN k + n ELSE l
      BY <2>1 DEF Cut
    <2>3. x = IF f + 1 <= m + 1 THEN (m + 1) - (f + 1) + 1 ELSE 0
      BY <1>9, <2>1
    <2>4. y = IF k <= l THEN c - k ELSE 0
      BY <1>2, <2>1
    <2>5. /\ k \in Nat /\ l \in Nat /\ f \in Nat /\ m \in Int /\ m + 1 = l - k
          /\ f = IF l <= k + n THEN 0 ELSE l - k - n
      BY <1>2, <1>6
    <2>6. x = y /\ y \in Nat /\ (y > 0 => f + y = l - k)
      BY ONLY <2>2, <2>3, <2>4, <2>5, n \in Nat \ {0}
    <2> QED BY <2>1, <2>6
  <1>11. /\ Reverse(u) \in Seq(S)
         /\ Len(Reverse(u)) = Len(q)
         /\ \A i \in 1 .. Len(q) : Reverse(u)[i] = u[(Len(q) - i) + 1]
    BY <1>9, <1>10, ReverseFacts
  <1>12. ASSUME NEW i \in 1 .. Len(q) PROVE Reverse(u)[i] = q[i]
    <2>1. PICK j : j = (Len(q) - i) + 1
      OBVIOUS
    <2>2. j \in 1 .. Len(q) /\ j \in 1 .. (m + 1) - (f + 1) + 1 /\ f + Len(q) = l - k
      <3>1. PICK c : c = Len(q)
        OBVIOUS
      <3>2. c \in Nat /\ i \in 1 .. c /\ j = (c - i) + 1
        BY ONLY <1>10, <2>1, <3>1, i \in 1 .. Len(q)
      <3>3. f + c = l - k /\ m + 1 = l - k /\ m \in Int /\ f \in Nat /\ k \in Nat /\ l \in Nat
        BY ONLY <1>2, <1>6, <1>10, <3>1, <3>2, k \in Nat
      <3>4. j \in 1 .. c /\ j \in 1 .. (m + 1) - (f + 1) + 1
        BY ONLY <3>2, <3>3
      <3> QED BY ONLY <3>1, <3>3, <3>4
    <2>3. u[j] = r[(f + 1) + j - 1] /\ (f + 1) + j - 1 = f + j
      <3>1. u[j] = r[(f + 1) + j - 1]
        BY <1>9, <2>2
      <3>2. f \in Nat /\ j \in Int
        BY <1>6, <1>10, <2>2
      <3> QED BY <3>1, <3>2
    <2>4. f + j \in 1 .. l /\ (l - (f + j)) + 1 = k + i
      <3>1. PICK c : c = Len(q)
        OBVIOUS
      <3>2. c \in Nat /\ i \in 1 .. c /\ j = (c - i) + 1 /\ f + c = l - k
        BY <1>10, <2>1, <2>2, <3>1
      <3>3. k \in Nat /\ l \in Nat /\ f \in Nat
        BY <1>2, <1>6
      <3> QED BY ONLY <3>2, <3>3
    <2>5. r[f + j] = s[k + i]
      BY <1>3, <2>4
    <2> QED BY <1>2, <1>11, <2>1, <2>3, <2>5 DEF Piece
  <1> QED BY <1>1, <1>2, <1>9, <1>11, <1>12, SeqEqual

\* A page of pending, of any size: the list is read from its end.
LEMMA PendingPage ==
    ASSUME NEW S, \A t \in S : Decodes(t), Line \in Seq(S), NEW n \in Nat \ {0}, NEW p \in Nat \ {0}
    PROVE  ListPendingTasks(n, p) = PageOf(Line, n, p)
  <1>1. ListPendingTasks(n, p) = ListPending(n, p - 1)
    BY DEF ListPendingTasks, PageSize, Page
  <1>2. PICK s : s = Line
    OBVIOUS
  <1>3. CASE Default
    <2>1. PageOf(s, n, p) \in Seq(S)
      BY <1>2, PageFacts
    <2>2. \A i \in 1 .. Len(PageOf(s, n, p)) : Decodes(PageOf(s, n, p)[i])
      BY <2>1, ElementOfSeq
    <2>3. Decoded(PageOf(s, n, p)) = PageOf(s, n, p)
      BY <2>1, <2>2, DecodedAll
    <2> QED BY <1>1, <1>2, <1>3, <2>3, FrontPage DEF ListPending
  <1>4. CASE ~Default
    <2>0. PICK k, q : k = n * (p - 1) /\ q = PageOf(s, n, p)
      OBVIOUS
    <2>1. PICK d, e, u : d = -(k + n) /\ e = -(k + 1) /\ u = LRange(Reverse(s), d, e)
      OBVIOUS
    <2>2. u \in Seq(S) /\ Reverse(u) = q
      <3>1. s \in Seq(S)
        BY <1>2
      <3>2. k \in Nat /\ q \in Seq(S) /\ Piece(q, s, k, n)
        BY ONLY <2>0, <3>1, n \in Nat \ {0}, p \in Nat \ {0}, PageFacts
      <3> QED BY ONLY <2>1, <3>1, <3>2, BackPage, n \in Nat \ {0}
    <2>3. \A i \in 1 .. Len(u) : Decodes(u[i])
      BY <2>2, ElementOfSeq
    <2>4. Decoded(u) = u
      BY <2>2, <2>3, DecodedAll
    <2>5. ListPending(n, p - 1) = Reverse(Decoded(u))
      <3>1. k \in Nat
        BY <1>2, <2>0, PageFacts
      <3>2. -Stop(n, p - 1) - 1 = d /\ -Start(n, p - 1) - 1 = e
        BY <2>0, <2>1, <3>1 DEF Start, Stop
      <3> QED BY <1>2, <1>4, <2>1, <3>2 DEF ListPending
    <2> QED BY <1>1, <1>2, <2>0, <2>2, <2>4, <2>5
  <1> QED BY <1>3, <1>4

\* A page of a zset, of any size.
LEMMA ZSetPage ==
    ASSUME NEW S, \A t \in S : Decodes(t), NEW o \in Seq(S),
           NEW n \in Nat \ {0}, NEW p \in Nat \ {0}
    PROVE  ListZSetTasks(o, n, p) = PageOf(o, n, p)
  <1>1. ListZSetTasks(o, n, p) = Decoded(LRange(o, Start(n, p - 1), Stop(n, p - 1)))
    BY DEF ListZSetTasks, ListZSetEntries, PageSize, Page
  <1>2. PageOf(o, n, p) \in Seq(S)
    BY PageFacts
  <1>3. \A i \in 1 .. Len(PageOf(o, n, p)) : Decodes(PageOf(o, n, p)[i])
    BY <1>2, ElementOfSeq
  <1> QED BY <1>1, <1>2, <1>3, DecodedAll, FrontPage

\* The page behind the last is empty.
LEMMA PageBehind ==
    ASSUME NEW S, NEW s \in Seq(S), NEW n \in Nat \ {0}, NEW N \in Nat, Len(s) <= N
    PROVE  PageOf(s, n, N + 1) = << >>
  <1>1. PICK k : k = n * N
    OBVIOUS
  <1>2. k \in Nat /\ N <= k /\ N + 1 \in Nat \ {0} /\ (N + 1) - 1 = N /\ Len(s) \in Nat
    BY <1>1, LenProperties
  <1>3. PICK q : q = PageOf(s, n, N + 1)
    OBVIOUS
  <1>4. /\ q \in Seq(S)
        /\ Len(q) = IF k <= Len(s) THEN Cut(k + n, Len(s)) - k ELSE 0
    <2>1. PICK p : p = N + 1
      OBVIOUS
    <2>2. p \in Nat \ {0} /\ k = n * (p - 1) /\ q = PageOf(s, n, p)
      BY <1>1, <1>2, <1>3, <2>1
    <2>3. q \in Seq(S) /\ Piece(q, s, k, n)
      BY ONLY <2>2, s \in Seq(S), n \in Nat \ {0}, PageFacts
    <2> QED BY ONLY <2>3 DEF Piece
  <1>5. Len(q) = 0
    BY <1>2, <1>4 DEF Cut
  <1> QED BY <1>3, <1>4, <1>5, EmptySeq

\* No more tasks are in the line than there are, and each of them decodes.
LEMMA LineLength ==
    ASSUME IInv, Spread(pending)
    PROVE  /\ Line \in Seq(Ids(pending))
           /\ Len(Line) <= Cardinality(Task)
           /\ \A t \in Ids(pending) : Decodes(t)
  <1>1. PICK n, s : Arranged(pending, n, s)
    BY SpreadFinite, ArrangedExists
  <1>2. Line = [i \in 1 .. n |-> s[i].id] /\ n \in Nat
    <2>1. LineOf(pending) = [i \in 1 .. n |-> s[i].id]
      BY <1>1, LineIs
    <2> QED BY <1>1, <2>1 DEF Line, Arranged
  <1>3. \A i \in 1 .. n : s[i].id \in Ids(pending)
    BY <1>1 DEF Arranged, Ids
  <1>4. Line \in Seq(Ids(pending)) /\ DOMAIN Line = 1 .. n
    BY <1>2, <1>3, IsASeq
  <1>5. Len(Line) = n
    BY <1>2, <1>4, LenProperties
  <1>6. Cardinality(pending) = n
    BY <1>1, ArrangedNumber
  <1>7. Cardinality(pending) = Cardinality(Ids(pending))
    <2>1. "pending" \in States
      BY DEF States
    <2>2. CurrentStats["pending"] = Cardinality(pending)
      BY DEF CurrentStats
    <2> QED BY <2>1, <2>2, CountsExact, ShownAre
  <1>8. Ids(pending) \in SUBSET Task
    BY DEF Ids, IInv, TypeOK, Entry
  <1>9. Cardinality(Ids(pending)) <= Cardinality(Task)
    BY <1>8, TaskAssumption, FS_Subset
  <1>10. \A t \in Ids(pending) : Decodes(t)
    BY DEF Ids, Decodes, IInv, Consistent, IndexMatchesState, QueueIndex, HasState
  <1> QED BY <1>4, <1>5, <1>6, <1>7, <1>9, <1>10

\* The pages of pending, of any size, are the line.
LEMMA PendingPages ==
    ASSUME IInv, Spread(pending), NEW n \in Nat \ {0}
    PROVE  /\ Pages(ListPendingTasks, n) = Line
           /\ ListPendingTasks(n, Cardinality(Task) + 1) = << >>
  <1>1. PICK N, S, s : N = Cardinality(Task) /\ S = Ids(pending) /\ s = Line
    OBVIOUS
  <1>2. s \in Seq(S) /\ Len(s) <= N /\ N \in Nat /\ N + 1 \in Nat \ {0}
    BY <1>1, LineLength, TaskAssumption, FS_CardinalityType
  <1>3. \A p \in Nat \ {0} : ListPendingTasks(n, p) = PageOf(s, n, p)
    BY <1>1, LineLength, PendingPage
  <1>4. [p \in 1 .. N |-> ListPendingTasks(n, p)] = [p \in 1 .. N |-> PageOf(s, n, p)]
    BY <1>2, <1>3
  <1>5. FlattenSeq([p \in 1 .. N |-> PageOf(s, n, p)]) = s
    BY <1>2, PagesJoined
  <1>6. Pages(ListPendingTasks, n) = FlattenSeq([p \in 1 .. N |-> ListPendingTasks(n, p)])
    BY <1>1 DEF Pages
  <1>7. ListPendingTasks(n, N + 1) = << >>
    BY <1>2, <1>3, PageBehind
  <1> QED BY <1>1, <1>4, <1>5, <1>6, <1>7

\* The pages of a zset, of any size, are its members in their order.
LEMMA ZSetPages ==
    ASSUME NEW z, Members(z) \in SUBSET Task, \A t \in Members(z) : Decodes(t),
           NEW o \in ZOrders(z), NEW n \in Nat \ {0}
    PROVE  /\ FlattenSeq([p \in 1 .. Cardinality(Task) |-> ListZSetTasks(o, n, p)]) = o
           /\ ToSet(o) = Members(z)
           /\ \A i, j \in DOMAIN o : i < j => o[i] # o[j] /\ z[o[i]] <= z[o[j]]
  <1>1. PICK N, S, c : N = Cardinality(Task) /\ S = Members(z) /\ c = Cardinality(S)
    OBVIOUS
  <1>2. IsFiniteSet(S) /\ c \in Nat /\ N \in Nat /\ c <= N
    BY <1>1, TaskAssumption, FS_Subset, FS_CardinalityType
  <1>3. /\ o \in [1 .. c -> S]
        /\ \A i, j \in 1 .. c : i # j => o[i] # o[j]
        /\ \A i, j \in DOMAIN o : i < j => z[o[i]] <= z[o[j]]
    BY <1>1 DEF ZOrders, SetToSeqs
  <1>4. o \in Seq(S) /\ Len(o) = c
    <2>1. o \in Seq(S)
      BY <1>2, <1>3, SeqDef
    <2> QED BY <1>2, <1>3, <2>1, LenProperties
  <1>5. ToSet(o) = S
    <2>1. o \in Injection(1 .. c, S)
      BY <1>3 DEF Injection, IsInjective
    <2>2. Cardinality(1 .. c) = c
      BY <1>2, FS_Interval
    <2>3. o \in Surjection(1 .. c, S)
      BY <1>1, <1>2, <2>1, <2>2, FS_Injection
    <2> QED BY <1>3, <2>3 DEF Surjection, ToSet
  <1>6. \A p \in 1 .. N : ListZSetTasks(o, n, p) = PageOf(o, n, p)
    BY <1>1, <1>2, <1>4, ZSetPage
  <1>7. [p \in 1 .. N |-> ListZSetTasks(o, n, p)] = [p \in 1 .. N |-> PageOf(o, n, p)]
    BY <1>6
  <1>8. FlattenSeq([p \in 1 .. N |-> PageOf(o, n, p)]) = o
    BY <1>2, <1>4, PagesJoined
  <1> QED BY <1>1, <1>2, <1>3, <1>5, <1>7, <1>8

\* The pages of every listing are exact after any sequence of scripts: no task is
\* left out, shown twice or out of its order at the boundary of two pages, also in
\* the list that is kept newest first and read from its end, whatever the sizes of
\* page that callers ask for.
THEOREM PagesTheorem == Spec => []PagesExact
  <1>1. IInv /\ Spread(pending) => PagesExact
    <2> SUFFICES ASSUME IInv, Spread(pending) PROVE PagesExact
      OBVIOUS
    <2>1. \A n \in PageSizes : n \in Nat \ {0}
      BY PageSizesAssumption
    <2>2. \A s : s \notin {"archived", "aggregating"} => Shown(s) = ReportedAs(s)
      BY DEF Shown, Hidden, ReportedAs
    <2>3. ToSet(Line) = ReportedAs("pending")
      BY <2>2, LineIds, ShownAre DEF Line
    <2>4. ASSUME NEW s, NEW z, Members(z) = ReportedAs(s), \A t \in Members(z) : Decodes(t),
                 NEW o \in ZOrders(z), NEW n \in PageSizes
          PROVE  /\ ListsOnce(ZPages(o, n), s)
                 /\ \A i, j \in DOMAIN ZPages(o, n) :
                      i < j => z[ZPages(o, n)[i]] <= z[ZPages(o, n)[j]]
      <3>1. Members(z) \in SUBSET Task
        BY <2>4 DEF ReportedAs
      <3>2. n \in Nat \ {0}
        BY <2>1
      <3>3. /\ FlattenSeq([p \in 1 .. Cardinality(Task) |-> ListZSetTasks(o, n, p)]) = o
            /\ ToSet(o) = Members(z)
            /\ \A i, j \in DOMAIN o : i < j => o[i] # o[j] /\ z[o[i]] <= z[o[j]]
        BY <2>4, <3>1, <3>2, ZSetPages
      <3>4. ZPages(o, n) = o
        BY <3>3 DEF Pages, ZPages
      <3> QED BY <2>4, <3>3, <3>4 DEF ListsOnce
    <2>5. \A t \in ReportedAs("scheduled") \cup ReportedAs("retry") :
            GetTaskInfo(t, 0).nextProcessAt # Nil
      <3>1. \A t \in ReportedAs("scheduled") : hash[t].state = "scheduled" /\ scheduled[t] # Nil
        BY <2>2, ShownAre DEF Members, ReportedAs, GetTaskInfo
      <3>2. \A t \in ReportedAs("retry") : hash[t].state = "retry" /\ retry[t] # Nil
        BY <2>2, ShownAre DEF Members, ReportedAs, GetTaskInfo
      <3> QED BY <3>1, <3>2 DEF GetTaskInfo
    <2>6. \A n \in PageSizes : /\ Pages(ListPendingTasks, n) = Line
                               /\ ListPendingTasks(n, Cardinality(Task) + 1) = << >>
      BY <2>1, PendingPages
    <2>7. /\ Members(scheduled) = ReportedAs("scheduled")
          /\ Members(retry) = ReportedAs("retry")
          /\ Members(completed) = ReportedAs("completed")
      BY <2>2, ShownAre
    <2>8. \A z \in {scheduled, retry, completed} : \A t \in Members(z) : Decodes(t)
      BY DEF Members, Decodes, IInv, TypeOK, Consistent, IndexMatchesState, QueueIndex, HasState
    <2>9. \A n \in PageSizes :
            /\ \A o \in ZOrders(scheduled) : ListsOnce(ZPages(o, n), "scheduled")
            /\ \A o \in ZOrders(retry) : ListsOnce(ZPages(o, n), "retry")
            /\ \A o \in ZOrders(completed) : ListsOnce(ZPages(o, n), "completed")
      BY <2>4, <2>7, <2>8
    <2>10. \A n \in PageSizes, z \in {scheduled, retry} : \A o \in ZOrders(z) :
             \A i, j \in DOMAIN ZPages(o, n) : i < j => z[ZPages(o, n)[i]] <= z[ZPages(o, n)[j]]
      BY <2>4, <2>7, <2>8
    <2> QED BY <2>3, <2>5, <2>6, <2>9, <2>10 DEF PagesExact
  <1> QED BY <1>1, Invariance, SpreadAlways, PTL
=============================================================================
