------------------------------- MODULE Queues -------------------------------
(***************************************************************************)
(* Several queues between clients and a server: callers enqueue with       *)
(* options (client.go), every RDB publishes a queue once in asynq:queues   *)
(* (internal/rdb/rdb.go), inspectors remove and pause queues               *)
(* (internal/rdb/inspect.go), the processor polls the queues by priority   *)
(* (processor.go).  Each command to Redis is a step.  A task keeps what    *)
(* its message says, the options its caller gave (asked) and when (at).    *)
(* Failing tasks, leases and uniqueness are in Server and Rdb.             *)
(***************************************************************************)
EXTENDS Dispatch

CONSTANTS
    Task,               \* task IDs
    Caller,             \* goroutines that enqueue one shared *Task
    RDB,                \* instances of rdb.RDB
    RdbOf,              \* the RDB of each caller
    InspectorRdb,       \* the RDB of the inspector
    TaskOpts,           \* the options given to NewTask
    Spare,              \* free capacity of the slice that NewTask was given
    CallOpts,           \* options of the calls of each caller, a set of sequences
    Configs,            \* Config.Queues, a set of functions
    Strict,             \* Config.StrictPriority
    MayBreak,           \* queues whose Dequeue script may reply with an error
    StartTime, MaxTime, \* bounds on the clock
    MaxFaults           \* bound on failures, restarts and uses of the inspector

ASSUME QueuesAssumption ==
    /\ RdbOf \in [Caller -> RDB]
    /\ InspectorRdb \in RDB
    /\ Spare \in Nat /\ MaxFaults \in Nat
    /\ MaxTime \in Nat /\ StartTime \in 0 .. MaxTime
    /\ Strict \in BOOLEAN
    /\ \A cfg \in Configs : IsFiniteSet(DOMAIN cfg) /\ cfg \in [DOMAIN cfg -> Int]

\* Durations and times are numbers, a deadline is not in the first second of 1970.
Kinds == DOMAIN Defaults(0) \cup {"processIn"}
IsOption(o) ==
    /\ o = Opt(o.kind, o.value)
    /\ o.kind \in Kinds
    /\ o.kind = "taskID" => o.value # Nil
    /\ o.kind = "timeout" => o.value \in Nat
    /\ o.kind = "deadline" => o.value \in Nat /\ o.value >= Second
    /\ o.kind \in {"unique", "processAt", "processIn"} => o.value \in Int
IsOptions(opts) == opts \in Seq(ToSet(opts)) /\ \A o \in ToSet(opts) : IsOption(o)

ASSUME OptionsAssumption ==
    IsOptions(TaskOpts) /\ \A c \in Caller : \A opts \in CallOpts[c] : IsOptions(opts)

VARIABLES
    queues,             \* asynq:queues
    published,          \* queuesPublished of each RDB
    task,               \* the tasks in Redis
    paused,             \* queues with a paused key
    backing,            \* what the array of task.opts holds behind its length
    call,               \* what each caller is doing
    insp,               \* the RemoveQueue under way
    qcfg,               \* processor.queueConfig, before it is normalised
    orders,             \* what processor.queues may return
    broken,             \* queues whose Dequeue script always replies with an error
    poll,               \* the queues that the Dequeue under way has still to try
    removed,            \* queues that RemoveQueue has taken from asynq:queues
    faults,             \* failures, restarts and uses of the inspector so far
    now                 \* the clock

redisVars  == <<queues, task, paused>>
clientVars == <<published, backing, call>>
serverVars == <<qcfg, orders, broken, poll>>
queueVars  == <<redisVars, clientVars, serverVars, insp, removed, faults, now>>

NoCall == [stage |-> "idle", asked |-> << >>, shared |-> FALSE, opt |-> Nil, at |-> 0, id |-> Nil]
NoRemoval == [stage |-> "idle", queue |-> Nil, force |-> FALSE]
QueueNames == (UNION {DOMAIN cfg : cfg \in Configs} \ {Blank}) \cup {DefaultQueue}

\* A task is stored under its queue and its ID.
Key == QueueNames \X Task
In(q) == {k \in Key : k[1] = q /\ task[k] # Nil}
Held(q, states) == {k \in In(q) : task[k].state \in states}

\* Mutant: the order of priority for good, without StrictPriority too.
QueueOrdersFixed(normal) == {{o} : o \in SortByPriority(normal)}

\* newProcessor and processor.queues: one order for good, or a new shuffle for
\* every Dequeue.
QueueOrders(normal) ==
    IF Strict THEN {{o} : o \in SortByPriority(normal)} ELSE {Orders(normal)}

Fault == faults < MaxFaults /\ faults' = faults + 1

QueuesInit ==
    /\ queues = {} /\ paused = {} /\ removed = {}
    /\ published = [r \in RDB |-> {}]
    /\ task = [k \in Key |-> Nil]
    /\ backing = << >>
    /\ call = [c \in Caller |-> NoCall]
    /\ insp = NoRemoval
    /\ qcfg \in {QueueConfig(cfg) : cfg \in Configs}
    /\ orders \in QueueOrders(NormalizeQueues(qcfg))
    /\ broken \in SUBSET (MayBreak \cap DOMAIN qcfg)
    /\ poll = << >>
    /\ faults = 0 /\ now = StartTime

-----------------------------------------------------------------------------
(* EnqueueContext, by a caller.                                             *)

Set(c, r) == call' = [call EXCEPT ![c] = r]

\* append(task.opts, opts...): in place where the array has room for all of
\* them, over what another call has put there.
AppendOpts(c, opts) ==
    /\ call[c].stage = "idle"
    /\ LET shared == opts # << >> /\ Len(opts) <= Spare IN
       /\ backing' = IF shared THEN opts \o SubSeq(backing, Len(opts) + 1, Len(backing)) ELSE backing
       /\ Set(c, [NoCall EXCEPT !.stage = "compose", !.asked = TaskOpts \o opts, !.shared = shared])
    /\ UNCHANGED <<redisVars, published, serverVars, insp, removed, faults, now>>

\* The options as the slice of the call shows them now.
Options(c) ==
    IF call[c].shared
    THEN TaskOpts \o SubSeq(backing, 1, Len(call[c].asked) - Len(TaskOpts))
    ELSE call[c].asked

\* A new UUID, or the ID that an option gives.
Free(t) == (\A q \in QueueNames : task[<<q, t>>] = Nil) /\ \A c \in Caller : call[c].id # t
Ids(opt) == IF opt.taskID # Nil THEN {opt.taskID} ELSE {t \in Task : Free(t)}

Compose(c) ==
    /\ call[c].stage = "compose"
    /\ LET opt == ComposeOptions(Options(c), now) IN
       IF opt = Nil THEN Set(c, NoCall)
       ELSE \E t \in Ids(opt) :
              Set(c, [call[c] EXCEPT !.stage = "publish", !.opt = opt, !.at = now, !.id = t])
    /\ UNCHANGED <<redisVars, published, backing, serverVars, insp, removed, faults, now>>

\* Mutant: the queue is marked published before SADD.
PublishMarkFirst(c) ==
    /\ call[c].stage = "publish"
    /\ LET q == call[c].opt.queue  r == RdbOf[c] IN
       /\ published' = [published EXCEPT ![r] = @ \cup {q}]
       /\ \/ /\ queues' = IF q \in published[r] THEN queues ELSE queues \cup {q}
             /\ Set(c, [call[c] EXCEPT !.stage = "run"]) /\ UNCHANGED faults
          \/ q \notin published[r] /\ Fault /\ Set(c, NoCall) /\ UNCHANGED queues
    /\ UNCHANGED <<task, paused, backing, serverVars, insp, removed, now>>

\* The first lines of every enqueue of RDB: SADD unless this RDB has done it,
\* then it is marked.  SADD fails, with or without effect.
Publish(c) ==
    /\ call[c].stage = "publish"
    /\ LET q == call[c].opt.queue  r == RdbOf[c] IN
       \/ /\ q \in published[r]
          /\ Set(c, [call[c] EXCEPT !.stage = "run"])
          /\ UNCHANGED <<queues, published, faults>>
       \/ /\ q \notin published[r]
          /\ queues' = queues \cup {q}
          /\ published' = [published EXCEPT ![r] = @ \cup {q}]
          /\ Set(c, [call[c] EXCEPT !.stage = "run"])
          /\ UNCHANGED faults
       \/ /\ q \notin published[r]
          /\ queues' \in {queues, queues \cup {q}}
          /\ Set(c, NoCall)
          /\ Fault /\ UNCHANGED published
    /\ UNCHANGED <<task, paused, backing, serverVars, insp, removed, now>>

\* The script; it refuses an ID that is in use, and it may fail.
RunScript(c) ==
    /\ call[c].stage = "run"
    /\ LET opt == call[c].opt  k == <<call[c].opt.queue, call[c].id>> IN
       \/ /\ task[k] = Nil
          /\ task' = [task EXCEPT ![k] =
                [msg |-> Message(opt, call[c].at), state |-> InitialState(opt, call[c].at),
                 asked |-> call[c].asked, at |-> call[c].at, start |-> Nil, ctx |-> Nil]]
          /\ UNCHANGED faults
       \/ task[k] # Nil /\ UNCHANGED <<task, faults>>
       \/ task[k] = Nil /\ Fault /\ UNCHANGED task
    /\ Set(c, NoCall)
    /\ UNCHANGED <<queues, paused, published, backing, serverVars, insp, removed, now>>

\* The process of an RDB is started again.
Restart(r) ==
    /\ r # InspectorRdb /\ Fault
    /\ published' = [published EXCEPT ![r] = {}]
    /\ call' = [c \in Caller |-> IF RdbOf[c] = r THEN NoCall ELSE call[c]]
    /\ UNCHANGED <<redisVars, backing, serverVars, insp, removed, now>>

-----------------------------------------------------------------------------
(* The inspector: RemoveQueue is three commands.                            *)

QueueExists(q, force) ==
    /\ insp.stage = "idle" /\ q \in queues /\ Fault
    /\ insp' = [stage |-> "script", queue |-> q, force |-> force]
    /\ UNCHANGED <<redisVars, clientVars, serverVars, removed, now>>

\* removeQueueCmd and removeQueueForceCmd: refused, or what they look at is gone.
\* Neither looks at completed tasks and at groups.
RemoveScript ==
    /\ insp.stage = "script"
    /\ LET q == insp.queue
           refused == IF insp.force THEN Held(q, {"active"}) # {}
                      ELSE Held(q, {"pending", "active", "scheduled"}) # {}
       IN IF refused
          THEN insp' = NoRemoval /\ UNCHANGED task
          ELSE /\ insp' = [insp EXCEPT !.stage = "srem"]
               /\ task' = [k \in Key |-> IF k \in Held(q, {"pending", "scheduled"}) THEN Nil ELSE task[k]]
    /\ UNCHANGED <<queues, paused, clientVars, serverVars, removed, faults, now>>

\* SREM, and the mark of the inspector's own RDB.  It may fail.
RemoveFromSet ==
    /\ insp.stage = "srem"
    /\ \/ /\ queues' = queues \ {insp.queue}
          /\ removed' = removed \cup {insp.queue}
          /\ published' = [published EXCEPT ![InspectorRdb] = @ \ {insp.queue}]
          /\ UNCHANGED faults
       \/ Fault /\ UNCHANGED <<queues, removed, published>>
    /\ insp' = NoRemoval
    /\ UNCHANGED <<task, paused, backing, call, serverVars, now>>

\* Pause and Unpause do not ask whether the queue exists.
Pause(q) ==
    /\ q \notin paused /\ paused' = paused \cup {q} /\ Fault
    /\ UNCHANGED <<queues, task, clientVars, serverVars, insp, removed, now>>
Unpause(q) ==
    /\ q \in paused /\ paused' = paused \ {q}
    /\ UNCHANGED <<queues, task, clientVars, serverVars, insp, removed, faults, now>>

-----------------------------------------------------------------------------
(* The server.                                                              *)

StartPoll(o) ==
    /\ poll = << >>
    /\ o \in orders
    /\ poll' = o
    /\ UNCHANGED <<redisVars, clientVars, qcfg, orders, broken, insp, removed, faults, now>>

\* RDB.Dequeue tries one queue after the other and stops at a task or an error.
Try ==
    /\ poll # << >>
    /\ LET q == Head(poll) IN
       \/ /\ q \in broken
          /\ poll' = << >> /\ UNCHANGED task
       \/ /\ q \notin broken /\ (q \in paused \/ Held(q, {"pending"}) = {})
          /\ poll' = Tail(poll) /\ UNCHANGED task
       \/ /\ q \notin broken \cup paused
          /\ \E k \in Held(q, {"pending"}) :
               task' = [task EXCEPT ![k] = [task[k] EXCEPT
                          !.state = "active", !.start = now, !.ctx = ComputeDeadline(task[k].msg, now)]]
          /\ poll' = << >>
    /\ UNCHANGED <<queues, paused, clientVars, qcfg, orders, broken, insp, removed, faults, now>>

\* The handler succeeds: markAsComplete or markAsDone.
Finish(k) ==
    /\ task[k] # Nil /\ task[k].state = "active"
    /\ task' = [task EXCEPT ![k] = IF task[k].msg.retention > 0
                                   THEN [@ EXCEPT !.state = "completed"] ELSE Nil]
    /\ UNCHANGED <<queues, paused, clientVars, serverVars, insp, removed, faults, now>>

\* Mutant: due a second too soon.
ForwardEarly(k) ==
    /\ task[k] # Nil /\ k[1] \in DOMAIN qcfg
    /\ task[k].state = "scheduled" /\ task[k].msg.due <= (now \div Second) + 1
    /\ task' = [task EXCEPT ![k].state = IF task[k].msg.group = Nil THEN "pending" ELSE "aggregating"]
    /\ UNCHANGED <<queues, paused, clientVars, serverVars, insp, removed, faults, now>>

\* The forwarder, and the janitor and the aggregator, on the queues of the server;
\* the task that a group becomes is enqueued like any other.
Forward(k) ==
    /\ task[k] # Nil /\ k[1] \in DOMAIN qcfg
    /\ task[k].state = "scheduled" /\ task[k].msg.due <= now \div Second
    /\ task' = [task EXCEPT ![k].state = IF task[k].msg.group = Nil THEN "pending" ELSE "aggregating"]
    /\ UNCHANGED <<queues, paused, clientVars, serverVars, insp, removed, faults, now>>
Expire(k) ==
    /\ task[k] # Nil /\ k[1] \in DOMAIN qcfg
    /\ task[k].state \in {"completed", "aggregating"}
    /\ task' = [task EXCEPT ![k] = Nil]
    /\ UNCHANGED <<queues, paused, clientVars, serverVars, insp, removed, faults, now>>

Tick ==
    /\ now < MaxTime /\ now' = now + 1
    /\ UNCHANGED <<redisVars, clientVars, serverVars, insp, removed, faults>>

QueuesNext ==
    \/ \E c \in Caller : \E opts \in CallOpts[c] : AppendOpts(c, opts)
    \/ \E c \in Caller : Compose(c) \/ Publish(c) \/ RunScript(c)
    \/ \E r \in RDB : Restart(r)
    \/ \E q \in QueueNames, force \in BOOLEAN : QueueExists(q, force)
    \/ RemoveScript \/ RemoveFromSet
    \/ \E q \in QueueNames : Pause(q) \/ Unpause(q)
    \/ \E o \in orders : StartPoll(o)
    \/ Try
    \/ \E k \in Key : Finish(k) \/ Forward(k) \/ Expire(k)
    \/ Tick

QueuesSpec == QueuesInit /\ [][QueuesNext]_queueVars

\* The processor's loop runs.  rand.Shuffle yields every
\* order again and again: strong fairness of each order of QueueNames.
QueuesFairSpec ==
    /\ QueuesSpec
    /\ WF_queueVars(Try)
    /\ \A Q \in SUBSET QueueNames : \A o \in SetToSeqs(Q) : SF_queueVars(StartPoll(o))

-----------------------------------------------------------------------------
\* The states of a call and of a task; a call that has its options knows its ID.
QueuesTypeOK ==
    /\ queues \subseteq QueueNames /\ removed \subseteq QueueNames /\ paused \subseteq QueueNames
    /\ published \in [RDB -> SUBSET QueueNames]
    /\ \A k \in Key : task[k] # Nil =>
         /\ task[k].state \in {"pending", "scheduled", "aggregating", "active", "completed"}
         /\ task[k].state = "active" => task[k].start \in 0 .. MaxTime
    /\ \A c \in Caller :
         /\ call[c].stage \in {"idle", "compose", "publish", "run"}
         /\ call[c].stage \in {"publish", "run"} => call[c].id # Nil /\ call[c].opt # Nil
    /\ insp.stage \in {"idle", "script", "srem"}
    /\ poll \in Seq(QueueNames)

\* A stored task has what its own caller asked for last.
FieldsHonoured ==
    \A k \in Key : task[k] # Nil =>
        LET m == task[k].msg  asked == task[k].asked IN
        /\ k[1] = m.queue /\ m.queue = Asked(asked, {"queue"}, DefaultQueue)
        /\ m.group = Asked(asked, {"group"}, Nil)
        /\ m.retention = Asked(asked, {"retention"}, 0) \div Second
        /\ m.unique <=> Asked(asked, {"unique"}, 0) # 0
        /\ m.due = AskedAt(asked, task[k].at) \div Second
        /\ Asked(asked, {"taskID"}, k[2]) = k[2]

\* The context of a task ends at the earlier of the two limits that were asked
\* for, less than two seconds before it, or after the default timeout where
\* neither was given.  Timeouts of less than a second, and Timeout(0) without a
\* deadline, are apart: see TimeoutKept and ZeroIsNoLimit.
Limits(k) ==
    LET T == Asked(task[k].asked, {"timeout"}, 0)
        D == Asked(task[k].asked, {"deadline"}, Nil)
    IN (IF T = 0 THEN {} ELSE {task[k].start + T}) \cup (IF D = Nil THEN {} ELSE {D})
Active(k) == task[k] # Nil /\ task[k].state = "active"
DeadlineHonoured ==
    \A k \in Key : Active(k) /\ Asked(task[k].asked, {"timeout"}, 0) \notin 1 .. Second - 1 =>
        IF Limits(k) = {}
        THEN Asked(task[k].asked, {"timeout"}, Nil) = Nil => task[k].ctx = task[k].start + DefaultTimeout
        ELSE task[k].ctx <= Min(Limits(k)) /\ task[k].ctx > Min(Limits(k)) - 2 * Second

\* A task runs at most one second before the time it was scheduled for.
NotEarly ==
    \A k \in Key : Active(k) => task[k].start > AskedAt(task[k].asked, task[k].at) - Second

\* A task has, and runs within, what its own caller asked for: a later option
\* overrides an earlier one, the times that are cut to seconds by EnqueueContext, by
\* the script and by computeDeadline add up, and two calls that share one *Task do
\* not mix their options as long as the options of one of the two at most fit the
\* spare capacity behind the task's own (QueuesSharedOpts.cfg has two that do).
OptionsHonoured == FieldsHonoured /\ DeadlineHonoured /\ NotEarly

\* A queue with tasks that no inspector has removed is listed, whichever calls
\* fail and whichever clients restart between the SADD and the script.
ListedBeforeFilled == \A q \in QueueNames \ removed : In(q) # {} => q \in queues

\* A uniform shuffle puts a queue first as often as Config.Queues gives it a
\* share of the priorities, also after they are divided by their gcd.
SharesKept ==
    \A cfg \in Configs :
        LET given == QueueConfig(cfg)
            names == Names(NormalizeQueues(given))
        IN \A q \in DOMAIN given :
             Cardinality({i \in DOMAIN names : names[i] = q}) * SumFunction(given)
                 = given[q] * Len(names)

\* Queues and handlers are treated as they were configured: a queue by its share of
\* the priorities, a task by the longest pattern, whatever the order of registration.
ConfigHonoured == SharesKept /\ RoutesToLongest

\* A queue of the server that has pending tasks and is not paused has one of
\* them started, even if another queue is never empty or always fails.
EveryServed ==
    \A q \in QueueNames :
        (q \in DOMAIN qcfg \ broken /\ Held(q, {"pending"}) # {})
            ~> (Held(q, {"active"}) # {} \/ Held(q, {"pending"}) = {} \/ q \in paused)

-----------------------------------------------------------------------------
(* What the code does not keep; see section 5 of the README.                *)

\* Every queue that holds tasks is listed.
QueuesListed == \A q \in QueueNames : In(q) # {} => q \in queues

\* A task does not run longer than the timeout it was given.
TimeoutKept ==
    \A k \in Key : Active(k) /\ Asked(task[k].asked, {"timeout"}, 0) > 0 =>
        task[k].ctx <= task[k].start + Asked(task[k].asked, {"timeout"}, 0)

\* "Zero duration means no limit." (client.go, of Timeout): where no deadline is
\* given, a task with a timeout of zero runs past the default timeout.
ZeroIsNoLimit ==
    \A k \in Key : /\ Active(k) /\ Limits(k) = {}
                   /\ Asked(task[k].asked, {"timeout"}, Nil) = 0
        => task[k].ctx > task[k].start + DefaultTimeout
=============================================================================
