----------------------------- MODULE RdbQueries -----------------------------
(***************************************************************************)
(* The Inspector's queries (inspector.go, internal/rdb/inspect.go): each   *)
(* is one script, so its answer is a function of one state of Rdb.  The    *)
(* queue is one that exists; Queues models the others.                     *)
(***************************************************************************)
EXTENDS Rdb, SequencesExt

CONSTANT PageSizes      \* the page sizes that callers ask for

ASSUME PageSizesAssumption == PageSizes \subseteq Nat \ {0}

\* ZRANGE z 0 -1: members of equal score in any order.
ZOrders(z) ==
    {s \in SetToSeqs(Members(z)) : \A i, j \in DOMAIN s : i < j => z[s[i]] <= z[s[j]]}

\* The tasks of pending in the order in which they are served: by score.
LineOf(l) ==
    LET s == CHOOSE s \in SetToSeqs(l) : \A i, j \in DOMAIN s : i < j => s[i].score <= s[j].score
    IN  [i \in DOMAIN s |-> s[i].id]
Line == LineOf(pending)

\* Refinement: the entries of pending by score are a first-in first-out line.
\* Redis never reorders it, no script starts another task than the first, and
\* new tasks never overtake waiting ones.
Fifo == INSTANCE FifoQueue WITH line <- Line, running <- active
FifoSpec == Fifo!Spec

\* LRANGE and ZRANGE: from 0, negative offsets from the end, out of range cut.
LRange(s, start, stop) ==
    LET from == IF start < 0 THEN Max({Len(s) + start, 0}) ELSE start
        to   == Min({IF stop < 0 THEN Len(s) + stop ELSE stop, Len(s) - 1})
    IN SubSeq(s, from + 1, to + 1)

\* The options PageSize and Page of a list call, and Pagination.
PageSize(n) == IF n < 0 THEN 0 ELSE n
Page(n) == IF n < 0 THEN 1 ELSE n
Start(size, page) == size * page
\* Mutant: the first element of the next page belongs to this one.
StopInclusive(size, page) == size * page + size
Stop(size, page) == size * page + size - 1

\* A task whose message does not decode is skipped.
Decodes(t) == Exists(t) /\ hash[t].msg # Nil
Decoded(s) ==
    LET data[i \in 0 .. Len(s)] ==
            IF i = 0 THEN << >>
            ELSE IF Decodes(s[i]) THEN Append(data[i - 1], s[i]) ELSE data[i - 1]
    IN  data[Len(s)]

\* ListPending: the list is kept newest first and read from its end.
ListPending(size, page) ==
    IF Default
    THEN Decoded(LRange(Line, Start(size, page), Stop(size, page)))
    ELSE Reverse(Decoded(LRange(Reverse(Line), -Stop(size, page) - 1, -Start(size, page) - 1)))
ListPendingTasks(n, p) == ListPending(PageSize(n), Page(p) - 1)

\* ListScheduled, ListRetry, ListArchived, ListCompleted and ListAggregating,
\* of the zset in the order s.
ListZSetEntries(s, size, page) == Decoded(LRange(s, Start(size, page), Stop(size, page)))
ListZSetTasks(s, n, p) == ListZSetEntries(s, PageSize(n), Page(p) - 1)

\* getTaskInfoCmd; NextProcessAt of a scheduled or retry task is its score.
GetTaskInfo(t, now) ==
    [state |-> hash[t].state,
     nextProcessAt |-> CASE hash[t].state = "scheduled" -> scheduled[t]
                         [] hash[t].state = "retry"     -> retry[t]
                         [] hash[t].state = "pending"   -> now
                         [] OTHER                       -> 0]

\* groupStatsCmd.
GroupStats == [g \in groups |-> Cardinality(Members(group[g]))]

\* currentStatsCmd: the lengths of the keys, and of the groups that are listed:
\* the sum of their ZCARDs is the number of memberships.
GroupMembers == {m \in groups \X Task : group[m[1]][m[2]] # Nil}
CurrentStats ==
    [pending |-> Cardinality(pending), active |-> Cardinality(active),
     scheduled |-> Cardinality(Members(scheduled)), retry |-> Cardinality(Members(retry)),
     archived |-> Cardinality(Members(archived)), completed |-> Cardinality(Members(completed)),
     aggregating |-> Cardinality(GroupMembers)]
Size ==
    LET n == CurrentStats IN
    n.pending + n.active + n.scheduled + n.retry + n.archived + n.completed + n.aggregating

\* memoryUsageCmd adds the bytes of the sampled hashes, which must be there,
\* and divides by the number of tasks it sampled from the listed groups, or
\* from any few of them (SMEMBERS has no order).
GroupSampleSize == 5
Sampled ==
    Ids(pending) \cup active \cup
        UNION {Members(z) : z \in {scheduled, retry, archived, completed} \cup {group[g] : g \in groups}}
GroupSamples ==
    {gs \in SUBSET groups : gs # {} /\ (gs = groups \/ Cardinality(gs) = GroupSampleSize)}
MemoryUsageDefined ==
    /\ \A t \in Sampled : Exists(t)
    /\ \A gs \in GroupSamples : \E g \in gs : Members(group[g]) # {}

-----------------------------------------------------------------------------
ReportedAs(s) == {t \in Task : Exists(t) /\ GetTaskInfo(t, 0).state = s}

\* The counts of GetQueueInfo are the numbers of tasks that GetTaskInfo reports
\* in each state, and those of GroupStats, of each group.  Archived tasks that
\* were trimmed, tasks in aggregation sets and in groups that are not listed
\* are the only ones left out, and Size counts every other task once, as long as
\* none is completed (see SizeAsDocumented): each task is filed under one key at
\* a time.  GetQueueInfo never fails or divides by zero either: no script leaves
\* an ID without its hash, or a group listed after its last task has left it.
Hidden ==
    {t \in ReportedAs("archived") : archived[t] = Nil} \cup
    {t \in ReportedAs("aggregating") : \A g \in groups : group[g][t] = Nil}
StatsExact ==
    /\ MemoryUsageDefined
    /\ \A s \in States : CurrentStats[s] = Cardinality(ReportedAs(s) \ Hidden)
    /\ ReportedAs("completed") = {} =>
         Size = Cardinality((UNION {ReportedAs(s) : s \in States}) \ Hidden)
    /\ \A g \in groups :
         GroupStats[g] = Cardinality({t \in ReportedAs("aggregating") \ Hidden : hash[t].group = g})

\* The pages of a listing, put together, are the tasks that GetTaskInfo reports
\* in that state, each once, for every page size: pending tasks in the order in
\* which they are served, with an empty page behind the last, scheduled and retry
\* ones, which have a time of processing, by that time.  (The order of completed
\* tasks is not part of it: see CompletedNewestFirst.)
Pages(List(_, _), n) == FlattenSeq([p \in 1 .. Cardinality(Task) |-> List(n, p)])
ZPages(o, n) == Pages(LAMBDA k, p : ListZSetTasks(o, k, p), n)
ListsOnce(all, s) ==
    /\ ToSet(all) = ReportedAs(s)
    /\ \A i, j \in DOMAIN all : i < j => all[i] # all[j]
PagesExact ==
    /\ \A n \in PageSizes :
         /\ Pages(ListPendingTasks, n) = Line
         /\ ListPendingTasks(n, Cardinality(Task) + 1) = << >>
         /\ \A o \in ZOrders(scheduled) : ListsOnce(ZPages(o, n), "scheduled")
         /\ \A o \in ZOrders(retry) : ListsOnce(ZPages(o, n), "retry")
         /\ \A o \in ZOrders(completed) : ListsOnce(ZPages(o, n), "completed")
         /\ \A z \in {scheduled, retry} : \A o \in ZOrders(z) : \A i, j \in DOMAIN ZPages(o, n) :
              i < j => z[ZPages(o, n)[i]] <= z[ZPages(o, n)[j]]
    /\ ToSet(Line) = ReportedAs("pending")
    /\ \A t \in ReportedAs("scheduled") \cup ReportedAs("retry") : GetTaskInfo(t, 0).nextProcessAt # Nil

-----------------------------------------------------------------------------
(* What the code does not keep; see section 5 of the README.                *)

\* Size "is the sum of Pending, Active, Scheduled, Retry, Aggregating and Archived".
SizeAsDocumented ==
    LET n == CurrentStats IN
    Size = n.pending + n.active + n.scheduled + n.retry + n.aggregating + n.archived

\* ListCompletedTasks returns tasks "sorted by expiration time (i.e. CompletedAt +
\* Retention) in descending order".
CompletedNewestFirst ==
    \A n \in PageSizes, o \in ZOrders(completed) : \A i, j \in DOMAIN ZPages(o, n) :
        i < j => completed[ZPages(o, n)[i]] >= completed[ZPages(o, n)[j]]
=============================================================================
