------------------------------ MODULE RdbState ------------------------------
(***************************************************************************)
(* The keys that asynq keeps in Redis for ONE queue, and the Redis         *)
(* commands its Lua scripts are built from (internal/rdb).  A script runs  *)
(* atomically in Redis, so every script is one action of the modules that  *)
(* extend this one; its ARGV, the caller's clock reading included, are the *)
(* parameters of the action.  Clock readings are therefore unordered:      *)
(* two clients with skewed clocks, or one delayed call, are both covered.  *)
(***************************************************************************)
EXTENDS Integers, FiniteSets

CONSTANTS
    Task,               \* task IDs
    Msg,                \* encoded task messages
    Key,                \* uniqueness keys  asynq:{<qname>}:unique:...
    Group,              \* group names
    SetID,              \* aggregation set IDs
    UniqueKey,          \* TaskMessage.UniqueKey, a function Msg -> Key \cup {Nil}
    Nil,                \* Redis nil: an absent key, field or member
    Default,            \* TRUE for base.DefaultQueueName: pending is a zset,
                        \* FALSE for every other queue: pending is a list
    MaxTime,            \* bound on clock readings
    MaxScore,           \* receiverTargetMaximumQueueScore; for a list, a bound
    MaxCount,           \* math.MaxInt64, where the totals wrap
    ForwardLimit,       \* tasks moved by one run of forwardCmd
    MaxArchiveSize,     \* maxArchiveSize
    ArchivedExpiration  \* archivedExpirationInDays

ASSUME UniqueKeyAssumption == UniqueKey \in [Msg -> Key \cup {Nil}]
ASSUME DefaultAssumption == Default \in BOOLEAN
ASSUME TaskAssumption == IsFiniteSet(Task)
ASSUME BoundsAssumption ==
    /\ MaxTime \in Nat
    /\ MaxScore \in Nat
    /\ MaxCount \in Nat \ {0}
    /\ ForwardLimit \in Nat \ {0}
    /\ MaxArchiveSize \in Nat \ {0}
    /\ ArchivedExpiration \in Nat \ {0}

Time == 0 .. MaxTime

VARIABLES
    hash,               \* asynq:{<qname>}:t:<task_id>, one hash per task
    pending,            \* asynq:{<qname>}:pending, entries ordered by score
    active,             \* asynq:{<qname>}:active
    lease,              \* asynq:{<qname>}:lease
    scheduled,          \* asynq:{<qname>}:scheduled
    retry,              \* asynq:{<qname>}:retry
    archived,           \* asynq:{<qname>}:archived
    completed,          \* asynq:{<qname>}:completed
    group,              \* asynq:{<qname>}:g:<gname>
    groups,             \* asynq:{<qname>}:groups
    aggset,             \* asynq:{<qname>}:g:<gname>:<set_id>
    aggsets,            \* asynq:{<qname>}:aggregation_sets
    lock,               \* uniqueness locks, the ID of the holder
    paused,             \* asynq:{<qname>}:paused
    processed,          \* asynq:{<qname>}:processed
    failed              \* asynq:{<qname>}:failed

groupVars == <<group, groups, aggset, aggsets>>
statVars  == <<processed, failed>>
zsetVars  == <<scheduled, retry, archived, completed>>
vars == <<hash, pending, active, lease, zsetVars, groupVars, lock, paused, statVars>>

-----------------------------------------------------------------------------
(* Types.                                                                   *)

States == {"pending", "active", "scheduled", "retry",
           "archived", "completed", "aggregating"}

\* A task hash.  state = Nil with msg = Nil is a hash that HSET created for
\* a field no property is about ("result").
Hash == [state: States \cup {Nil}, msg: Msg \cup {Nil},
         unique_key: Key \cup {Nil}, group: Group \cup {Nil}]

ASSUME NilAssumption ==
    /\ Nil \notin Int
    /\ Nil \notin Task
    /\ Nil \notin Key
    /\ Nil \notin Group
    /\ Nil \notin Msg
    /\ Nil \notin Hash
    /\ Nil \notin States

\* A sorted set of task IDs: the score of each member, Nil for the others.
ZSet == [Task -> Int \cup {Nil}]

\* An element of pending: a zset member with its score, or a list element
\* with its position.  A list may hold an ID twice; that no ID ever is, is a
\* property (NoDuplicatePending) and not built in.
Entry == [id: Task, score: Int]

\* The key of an aggregation set; base.AggregationSetKey.
AggKey == Group \X SetID

TypeOK ==
    /\ hash \in [Task -> Hash \cup {Nil}]
    /\ pending \subseteq Entry
    /\ active \subseteq Task
    /\ lease \in ZSet
    /\ scheduled \in ZSet
    /\ retry \in ZSet
    /\ archived \in ZSet
    /\ completed \in ZSet
    /\ group \in [Group -> ZSet]
    /\ groups \subseteq Group
    /\ aggset \in [AggKey -> ZSet]
    /\ aggsets \in [AggKey -> Int \cup {Nil}]
    /\ lock \in [Key -> Task \cup {Nil}]
    /\ paused \in BOOLEAN
    /\ processed \in 0 .. MaxCount
    /\ failed \in 0 .. MaxCount

-----------------------------------------------------------------------------
(* Redis commands.                                                          *)

EmptyZ == [t \in Task |-> Nil]
Members(z) == {t \in Task : z[t] # Nil}

\* ZRANGEBYSCORE z -inf s
UpTo(z, s) == {t \in Members(z) : z[t] <= s}

\* ZREM of a set of members; DEL of a zset is ZRem of all its members.
ZRem(z, ts) == [t \in Task |-> IF t \in ts THEN Nil ELSE z[t]]
ZAddAll(z, ts, s) == [t \in Task |-> IF t \in ts THEN s ELSE z[t]]

\* The sets that ZRANGE z 0 k-1 may return: the k members of lowest score.
\* Members of equal score are ordered by their IDs, which are arbitrary.
LowestOf(z, from, k) ==
    {ts \in SUBSET from :
        /\ Cardinality(ts) = k
        /\ \A t \in ts, u \in from \ ts : z[t] <= z[u]}
Lowest(z, k) == LowestOf(z, Members(z), k)

\* HEXISTS and field access on task hashes.
Exists(t) == hash[t] # Nil
StateOf(t) == IF Exists(t) THEN hash[t].state ELSE Nil
GroupOf(t) == IF Exists(t) THEN hash[t].group ELSE Nil

\* HSET key "state" s: creates the hash when it is absent.
NewHash(m, s) == [state |-> s, msg |-> m, unique_key |-> Nil, group |-> Nil]
HSetState(t, s) == IF Exists(t) THEN [hash[t] EXCEPT !.state = s] ELSE NewHash(Nil, s)
HSetMsgState(t, m, s) ==
    IF Exists(t) THEN [hash[t] EXCEPT !.state = s, !.msg = m] ELSE NewHash(m, s)

Ids(l) == {e.id : e \in l}
LRem(l, t) == {e \in l : e.id # t}

\* The element of pending that is served next, and the one served last.
\* The scripts of the default queue refuse an end whose score two members
\* share (ZCOUNT # 1); list positions are never shared.
Heads(l) == {h \in l : \A e \in l \ {h} : h.score < e.score}
Tails(l) == {h \in l : \A e \in l \ {h} : e.score < h.score}

\* Scores of the default queue stay within +-MaxScore: a script that would
\* leave this range replies QUEUE SCORE EXHAUSTED and changes nothing.
Scores == (-MaxScore) .. MaxScore

\* Mutants: tail + 0 for the next score; a requeued task goes behind the tail.
AtTail(l) == IF l = {} THEN {0} ELSE {h.score : h \in Tails(l)}
BehindTail(l) == IF l = {} THEN {0} ELSE {h.score + 1 : h \in Tails(l)}

\* The score of an element pushed behind the tail (LPUSH, or ZADD of tail + 1)
\* or in front of the head (RPUSH, or ZADD of head - 1).
AfterTail(l)  == IF l = {} THEN {0} ELSE {h.score + 1 : h \in Tails(l)}
BeforeHead(l) == IF l = {} THEN {0} ELSE {h.score - 1 : h \in Heads(l)}

\* ZADD moves a member that is there already; LPUSH adds a second copy.
Cleared(l, ts) == IF Default THEN {e \in l : e.id \notin ts} ELSE l
PushOne(l, t) ==
    {Cleared(l, {t}) \cup {[id |-> t, score |-> s]} : s \in AfterTail(l) \cap Scores}
PushFront(l, t) ==
    {Cleared(l, {t}) \cup {[id |-> t, score |-> s]} : s \in BeforeHead(l) \cap Scores}

\* The members ts of the zset z pushed one after the other, by score in z.
Positions(l, z, ts) ==
    {p \in [ts -> Scores] :
        /\ \E s \in AfterTail(l) :
             \A t \in ts : s <= p[t] /\ p[t] < s + Cardinality(ts)
        /\ \A t, u \in ts : /\ t # u => p[t] # p[u]
                            /\ z[t] < z[u] => p[t] < p[u]}
PushAll(l, z, ts) ==
    {Cleared(l, ts) \cup {[id |-> t, score |-> p[t]] : t \in ts} :
        p \in Positions(l, z, ts)}

\* Mutant: no wrap at the largest int64.
IncrUnbounded(n) == n + 1

\* The totals: INCR, or SET to 1 at the largest int64.
Incr(n) == IF n = MaxCount THEN 1 ELSE n + 1
\* retryCmd and archiveCmd test the processed total before they advance both;
\* INCR of a failed total that is at the largest int64 is an error.
FailedAfter ==
    IF processed = MaxCount THEN 1 ELSE IF failed = MaxCount THEN failed ELSE failed + 1
\* Mutant: a failure is not counted as processed.
CountFailedOnly == failed' = FailedAfter /\ UNCHANGED processed
CountFailed == processed' = Incr(processed) /\ failed' = FailedAfter
CountProcessed == processed' = Incr(processed) /\ UNCHANGED failed

\* Mutant: the lock is deleted whoever holds it.
ReleasedFromAny(m, t) == [k \in Key |-> IF UniqueKey[m] = k THEN Nil ELSE lock[k]]

\* The lock of message m is deleted when t holds it.
Released(m, t) ==
    [k \in Key |-> IF UniqueKey[m] = k /\ lock[k] = t THEN Nil ELSE lock[k]]

-----------------------------------------------------------------------------
Init ==
    /\ hash = [t \in Task |-> Nil]
    /\ pending = {}
    /\ active = {}
    /\ lease = EmptyZ
    /\ scheduled = EmptyZ
    /\ retry = EmptyZ
    /\ archived = EmptyZ
    /\ completed = EmptyZ
    /\ group = [g \in Group |-> EmptyZ]
    /\ groups = {}
    /\ aggset = [k \in AggKey |-> EmptyZ]
    /\ aggsets = [k \in AggKey |-> Nil]
    /\ lock = [k \in Key |-> Nil]
    /\ paused = FALSE
    /\ processed = 0
    /\ failed = 0
=============================================================================
