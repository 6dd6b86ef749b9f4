# A TLA+ verification of asynq

asynq is a distributed task queue in Go: clients enqueue tasks in Redis, servers
dequeue and run them, and an Inspector manages them.  All shared state is in Redis
and is changed by Lua scripts, each of which Redis runs atomically; everything else
is goroutines that call those scripts, with timers, leases and retries.  This
directory models the scripts and the goroutines that use them, checks the models
with TLC on small instances, and proves their main safety properties with TLAPS for
every instance.

## 1. Inventory

| Component | State | Operations | Talks to |
|---|---|---|---|
| Broker (`internal/rdb/rdb.go`, `receiver_target_queue.go`) | per queue: task hashes, `pending`, `active`, `lease`, `scheduled`, `retry`, `archived`, `completed`, groups, aggregation sets, uniqueness locks, totals, `paused` | one script per operation | Redis |
| Inspector (`inspector.go`, `internal/rdb/inspect.go`) | the same keys | run, archive, delete, update, remove, pause; counts, pages, task info | Redis |
| Set of queues (`asynq:queues`) | the queues, and in each RDB those it has published | publish at the first enqueue, RemoveQueue | Redis, clients, Inspector |
| Client (`client.go`) | the options of a `*Task` that goroutines may share | EnqueueContext: compose options, make the message, one of six scripts | broker |
| Processor (`processor.go`) | the priorities of the queues, tokens, one goroutine per execution, its `base.Lease` | exec, requeue, markAsDone, markAsComplete, retry, archive | broker, heartbeater (channels `starting`, `finished`), syncer (channel) |
| Heartbeater (`heartbeat.go`) | `workers`, by task ID | beat: check leases, ExtendLease, Reset | broker, leases of workers |
| Recoverer (`recoverer.go`) | the list it is working on | list expired leases, retry or archive; reclaim aggregation sets | broker |
| Syncer (`syncer.go`) | failed requests with deadlines | retry, drop | broker |
| Forwarder, janitor (`forwarder.go`, `janitor.go`) | none | forward due tasks, delete expired completed tasks | broker |
| Aggregator (`aggregator.go`) | running checks | check, read set, enqueue, delete set | broker |
| Server (`server.go`) | lifecycle state | Start, Stop, Shutdown | all of the above |
| Scheduler, periodic task manager | cron entries, config hash to entry | Register, Unregister, sync | client |
| Semaphore (`x/rate`) | a zset of tokens | Acquire, Release | Redis |
| Receiver-target tasks (fork, `receiver_target_queue.go`) | marked tasks, sources, receipts, envelopes | enqueue, native commands, release, settle, finalize by compare-and-set | Redis |
| ServeMux (`servemux.go`) | patterns, longest first | Handle, match | processor |
| Context, log, tools | none that is shared | | |

What is hard here: many scripts edit the same dozen keys one by one, in every
order; a script that fails half-way is not rolled back; executions are guarded by
leases whose copies in the worker and in Redis drift apart; the heartbeater, the
recoverer and the syncer act on what they read some time ago; processes crash and
replies get lost between any two steps.  `PROJECT.json` lists these hazards at
their lines with the properties that are about them.

What makes each part correct:

- broker: the keys of a task agree (`IndexMatchesState`), no task is lost
  (`NoTaskLost`) or queued twice (`NoDuplicatePending`), active tasks are leased
  (`LeaseMatchesActive`), locks are kept by their holder (`LockDiscipline`), the
  totals count each execution once (`CountedOnce`), the archive is bounded
  (`ArchiveBounded`), and pending is first-in first-out (`FifoSpec`);
- Inspector: it never touches what a worker runs (`ActiveUntouched`); its counts are
  those of the tasks' states and can always be computed (`StatsExact`), and its pages
  show every task once (`PagesExact`);
- groups: a task is in one aggregation set, which has a deadline (`AggregatedOnce`);
- aggregator: a check works on a set that is still its own (`OwnsSet`), no task is
  dropped whatever fails (`NoneDropped`), and every task is aggregated
  (`EveryAggregated`);
- client and queues: a task gets the options of its own call, does not start early and
  ends in time (`OptionsHonoured`); a queue is listed before it is filled
  (`ListedBeforeFilled`) and served even if another one fails (`EveryServed`); queues
  keep their share, and a task goes to the handler of the longest pattern
  (`ConfigHonoured`);
- processor, heartbeater, recoverer: a worker that believes in its lease has it, to the
  second (`LeaseBacked`), and is the only one (`LeaseExclusive`); every task ends
  (`EverySettled`), also one that a crash left active;
- lifecycle: who waits on a channel has a receiver and the connection is closed last
  (`ShutdownOrdered`), nothing is dequeued after Stop
  (`NothingPulled`), every call returns (`CallsReturn`);
- periodic task manager: the entries are those of the last configs, each once and
  each one removable (`EntriesInSync`), they follow the provider
  (`CatchesUp`), and Shutdown ends with nothing left behind but what it could not
  clear (`ShutdownReturns`, `StoppedClean`);
- semaphore: handlers at work never outnumber the tokens (`HoldersBounded`), keep
  their token (`TokenBacked`), and a token in the set is owed to one that took it
  (`TokenOwned`);
- receiver-target tasks: a task keeps its source (`MarkedHasSource`), the capacity
  ledger is what is stored (`LedgerExact`), a delivery has one owner
  (`DeliveredOnce`), and a released effect is gone (`ReleaseMeansRetired`) for good
  (`RetiredForever`).

## 2. Modules

| Module | Models |
|---|---|
| `RdbState` | the Redis keys of one queue, the Redis commands, the types |
| `RdbTasks` | the scripts of `rdb.go` and the default-queue scripts of `receiver_target_queue.go` on ordinary tasks |
| `RdbGroups` | the scripts of groups and aggregation sets |
| `RdbInspect` | the scripts of `inspect.go` that change state |
| `Rdb` | all of them, called in any order; the broker's properties |
| `FifoQueue` | the abstract promise of pending and active: a first-in first-out line |
| `RdbQueries` | the Inspector's counts, pages and task info, as functions of the state of `Rdb`, and the refinement mapping to `FifoQueue` |
| `Server` | servers on one queue: processor, workers, heartbeater, recoverer, syncer, forwarder, crashes, lost calls, time; it calls the actions of `RdbTasks` |
| `Aggregator` | the checks of the aggregators on one queue, with clients, the recoverer, failed and late calls, crashes; it calls the actions of `RdbTasks` and `RdbGroups` |
| `Client` | composeOptions, the message of EnqueueContext, computeDeadline, as operators |
| `Dispatch` | the queue configuration, the order of polling, the patterns of ServeMux, as operators |
| `Queues` | several queues: callers with options, the set of queues and its caches, RemoveQueue, pause, the polling of the processor |
| `Lifecycle` | Start, Stop and Shutdown of one server by several callers, its goroutines and their unbuffered channels |
| `Periodic` | periodic task manager and scheduler, cron jobs, heartbeats of entries |
| `Semaphore` | the token set of `x/rate` and the handlers that use it |
| `ReceiverTarget` | operations on marked tasks: snapshot reads, one script each, deliveries, leases, releases |
| `RdbProofs`, `ServerProofs`, `ReceiverProofs`, `AggregatorProofs`, `LifecycleProofs`, `PeriodicProofs`, `QueuesProofs`, `SemaphoreProofs` | the inductive invariants of these components, and their theorems |
| `MCRdb`, `MCAggregator`, `MCQueues`, `MCServer`, `MCLifecycle`, `MCPeriodic`, `MCSemaphore`, `MCReceiverTarget` | instances for TLC |

`Rdb` composes `RdbTasks`, `RdbGroups` and `RdbInspect`; `Server` composes the
goroutines with `RdbTasks`, and `Aggregator` with `RdbTasks` and `RdbGroups`.  `Queues`
composes `Client` and `Dispatch` with the set of queues.  `Lifecycle` refines what `Server` does in one step of
its `Shutdown` and `Stopped`: which goroutine ends when, and who waits for whom.  The
others stand alone, since they share no key with the queues: the semaphore and the
manager use keys of their own, and marked tasks have transactions of their own.

**State.**  A task hash is a record of the four fields the scripts read (`state`,
`msg`, `unique_key`, `group`) or `Nil`.  A zset is a function from task IDs to
scores or `Nil`.  `pending` is a set of entries with a score: a zset in the default
queue, and for the other queues a list whose positions are the scores, which may
hold an ID twice.  In the default queue `active` is also a zset, and a script refuses
when its scores run out; the model keeps `active` a set and does not refuse, which
only adds behaviours.  `LREM` of one copy and of all copies are the same while
`NoDuplicatePending` holds.  Payload, result, `pending_since`, the daily counters and
error texts are left out: no script branches on them.

**Time in `Rdb`.**  Every clock reading is a parameter of its action and arbitrary,
so skewed clocks and delayed calls are included.

**Time in `Server`.**  Timestamps are kept relative to the clock, so "now" is 0 and
`Tick` lowers each of them by one, down to the age from which the code's tests no
longer tell them apart.  Time is unbounded and the state space is finite, which
liveness needs.  All servers read the same clock.  A tick is a part of a second and
`frac` is the part the clock shows: the scores of `lease` and `retry` and the cutoff of
the recoverer are cut to whole seconds (`Unix`), as the code does before it calls Redis,
while `base.Lease` and the deadlines of the syncer's requests are not.

**Calls in `Server`.**  A call is one step in which the script runs or not and the
caller sees a reply or an error: all four combinations occur, the bad ones at most
`MaxFaults` times.  A worker's own call is made only while its context lives (until
the lease it saw expires), and a call with a cancelled context fails before it is
sent, as go-redis does.  The handler's result, the cancellation of its context, the
notification that the lease expired and the abort at shutdown are the ways `Return`
can happen.

**Aggregator.**  A check lists the groups, and for each runs the check, reads the set in
two commands, enqueues the aggregate and deletes the set, each in a step of its own.
The message of an aggregate is the set of tasks it was made from.  A call fails before
or after its script ran, its command may arrive when the set was long reclaimed
(`inflight`), and a check may stall past its deadline (`Stall`); `MaxFaults` counts all
of these.  Without a stall a check ends in time (`Prompt`).  Time is kept as in `Server`.

**Queues.**  A task is filed under its queue and its ID with its state and what its
message says; the keys of a state are in `Rdb`.  A call is four steps: append the
options, compose, publish the queue, run the script.  RemoveQueue is three commands.
`backing` is the array behind `task.opts`, of which `Spare` elements are free.  MaxRetry
is left to `Server`, and the receiver-target option, with its branch of EnqueueContext, to
`ReceiverTarget`.  The clock
counts parts of a second.  A poll tries the queues of one shuffle in turn.  `broken`,
chosen at the start among `MayBreak`, are queues whose script answers every poll with an
error, as it does when a key is not of the type the script expects.  The ASSUMEs say what the
types of Go give: an option has a value of its kind, a config is a finite map to integers, and
patterns and type names are strings (sequences).  A deadline in the first second of 1970,
which the client writes as if there were none, is left out.  Leases, failing tasks and uniqueness are left to `Server`
and `Rdb`.

**RdbQueries.**  A query is one script, so its answer is a function of one state.  Members
of equal score may come in any order, and `PagesExact` is about each of them.  Latency,
memory and the daily figures are left out, except that memory can be computed.

**Lifecycle.**  A goroutine with a timer is idle in its select, busy in the work of a
case, in its last work after it received from `done`, or ended.  A send waits until
its receiver is in the select.  What the work does in Redis is left to `Server`.  A
handler need not return; the abort timer of `processor.shutdown` ends its worker.

**Periodic.**  A config is three sequences of characters, which `hash` joins as the
code writes them one after another, and `rest`, the headers and options of the task and
the options of the config, which no hash covers.  Cron fires an entry at any
time, one job of an entry at a time (cron may start the next before the last has
returned).  The calls that clear the published entries and the histories may fail, before
or after they took effect, and only log it (`uncleared`); what is published expires by
its TTL too.  Each map update of `remove` and `add` is a step, as jobs and heartbeats run
between them.

**Semaphore.**  The clock counts parts of a second, because the score of a token is
cut to whole seconds.  A call is atomic; a reply of Acquire may be lost.  A call with a
done context sends nothing; a ZREM that was sent in time and arrives after its
context ended is not modelled.

**ReceiverTarget.**  A call reads the task, the source and the queue memberships in
separate steps (the memberships in one), then runs one EVAL that compares them and
applies the operation; other goroutines run in between, a reply may be lost and the
script sent again, a context or a server may end.  A digest is the values it binds.
Each server has a worker and a heartbeat goroutine; the worker also plays the client,
the forwarder and the recoverer.  The effect's commit is made by the handler outside
this repository (`Commit`, external).  The ledger counts rows.  Of its bytes only what
a script compares is kept, the length of the state's name and of the score.
`EarlyRelease` lets Release be called before the commit; `Prompt` leaves every call and
one beat per server the time to end within a tick, and loses no reply.  Left out:
ordinary tasks in the same queue, pause, a change of epoch, the byte ledger, the limit
of 2^53 and the statistics.

Every definition that models code is mapped to its lines in `PROJECT.json`.

## 3. Runs

| Run | Shows | Bounds |
|---|---|---|
| `rdb_full` | all invariants and action properties of the broker on a list queue, and the Inspector's queries | 2 tasks, plain and unique message, 1 group, 2 aggregation sets, clock 0..1, archive of 1, pages of 1 and 2; 75,228 states |
| `rdb_default` | the same keys on the default queue, no two equal scores, refinement of `FifoQueue` | 3 tasks, scores -3..3; 5,436 states |
| `server_one` | leases of one server | 1 task, 2 workers, half seconds, 1 crash or shutdown, 1 fault, lease and cutoff of a second; 3,297,272 states |
| `server_live` | liveness under fairness | 1 task, 1 worker, half seconds, 1 crash or shutdown, 1 fault, lease and retry delay of half a second, cutoff of a second; 299,436 states |
| `aggregator` | the aggregator and the recoverer of several servers; every task is aggregated | 2 tasks, 1 group of at most 2, 2 checks, 2 faults, 6 aggregates, timeout of 1 tick; 194,326 states |
| `queues` | options, deadlines, the set of queues and polling | 2 callers on one client, 1 inspector, 2 queues (priorities 4 and 6, or one dropped), 1 ID, one list of options per caller, of which one fits the spare elements, half seconds 1..2, one queue that may always fail, 1 further fault; 166,119 states |
| `lifecycle` | channels and calls of one server, checked for deadlock; calls return | 2 callers, all components, 1 token, 2 tasks, 1 aggregation check; 308,235 states |
| `periodic` | entries follow the provider, and a shutdown at any point is clean | 5 lists of different configs (one that cron refuses, one that is invalid, one that changes headers), 2 changes, 4 entries, any clear may fail; 208,849 states |
| `semaphore` | tokens and their holders | 2 tokens, 3 tasks, 4 executions, half seconds, clock 0..4 |
| `receiver_target` | one marked task under two servers, every interleaving of reads and scripts | 4 operations on the source, 45 rows, no clock; 839,096 states |
| `receiver_capacity` | two marked tasks that compete for the ledger, with expiring leases | 1 server, 3 operations on each source, 60 rows, clock 0..2; 1,418,077 states |
| `server_sync` | ends in a violation, see 5 | |

`TypeOK` is checked by `rdb_full` and proved.  `ServerTypeOK` and `ReceiverTypeOK` are
proved, `LifecycleTypeOK` and `SemaTypeOK` are conjuncts of proved invariants.  These and
`PeriodicTypeOK`, `AggregatorTypeOK` and `QueuesTypeOK` hold in the instances of the runs:
add them to the configuration to check them.  `PagesExact` on the default queue is checked in
the same way with `RdbDefault.cfg`.

Why the bounds are enough: the broker's properties relate one task to its keys, or
two tasks to each other; two tasks, two sets and an archive that holds one make every
trim, batch limit, conflict and wrap happen (`MaxCount` is 1, so a total wraps at
the second execution, and moves of the totals are seen at the first).  Two clock
values separate "due" from "not yet".  In the default queue three tasks and seven
scores reach both ends of the range and a queue with a middle.  For leases, two
workers of one task are what exclusion is about, and with `MaxRetry` 1 an execution
can be retried and archived; half seconds make a score that is cut differ from the
worker's own expiry.  A deadlock is not an error in most runs: a bound that
is used up may leave nothing to do.  `lifecycle` does check it, with `Terminated` as
the one state in which nothing is left to do.

For the aggregator, two checks are what two servers, or two rounds of one, amount to; two
faults allow a crash or a lost reply and a stall in one behaviour, and the aggregates
suffice for every repetition that two faults cause.  For the queues, one ID can be in
both queues at once; the clock starts in the middle of a second, so that a time that is
cut, the start of the next second and a deadline inside one all occur; the priorities
have a gcd that is neither one nor the smallest.  The patterns are a chain of three
prefixes, registered in every order.

For the semaphore, three tasks compete for two tokens, and one task has two
executions, which is what sharing a token needs; half seconds make a cut deadline
differ from its context's.  For marked tasks, two servers that are both between their
reads and their script are the race each transaction is about; four operations reach
enqueue, dequeue, retry, forward, and enqueue, dequeue, done, release with the
script of another server sent before any of them and arriving after; 45 rows are little
more than one task needs at a time, 60 rows refuse a second task in pending.  One marked task in
work keeps its lease: `ReceiverBatch.cfg` with `Task = {t1}`, `MaxRev = 5` and `MaxTime = 3`
passes (52,819 states).

**Fairness.**  `server_live`: weak fairness of each goroutine's steps and of the
clock, since goroutines are scheduled and timers fire.  The handler returns because
`computeDeadline` always gives its context a deadline.  Strong fairness of `Starting`
and `Finish`: the worker waits on a channel of the heartbeater, whose select picks
among ready cases at random and so serves it between two beats.  A server that went
down is started again.  Crashes and faults are finite in number.  `IsFailure` is the
default function (a custom one may retry for ever without counting).

`lifecycle`: weak fairness of work in progress and of the end of a goroutine whose
`done` was closed or sent; strong fairness of a caller and of a worker, which wait on
channels of selects that are reached again and again and pick at random.  Timers
need not fire and handlers need not return, except the timer of the abort, once it
is armed.  `aggregator`: weak fairness of each check, of the ticker, of the recoverer and of the clock;
clients need not add tasks.  `queues`: weak fairness of a poll, strong fairness of each
order of polling, since `rand.Shuffle` yields every order again and again; callers,
forwarder, clock and handlers need not run.  `periodic`: weak fairness of the manager, of the jobs and of each step of
Shutdown; strong fairness of the manager's receive from `done`, for the same reason.

## 4. Proofs

**The broker (`RdbProofs`).**  For all sets of tasks, messages, keys, groups and set IDs, both kinds of queue and
all bounds, from the ASSUMEs of `RdbState` and `Rdb` only:

- `TypeCorrect`, `IndexTheorem`, `NoDuplicateTheorem`, `LeaseTheorem`,
  `AggregationTheorem`, `NoTaskLostTheorem`: `Spec => []P` for the invariants of
  `rdb_full`;
- `ActiveUntouchedTheorem`, `LockTheorem`, `CountedOnceTheorem`: the action properties;
- `ArchiveTheorem` (`ArchiveBounded`) and `ServableTheorem` (`QueueServable`);
- `FifoTheorem` (`Spec => FifoSpec`): the scripts implement the line of `FifoQueue`;
- `StatsTheorem` (`StatsExact`) and `PagesTheorem` (`PagesExact`), for any set of page
  sizes (the constant `PageSizes`).

They rest on `Invariance`: `Spec => []IInv`, where `IInv` conjoins the type
invariant, the index (each ID filed has the matching hash), its converse (`Filed`),
uniqueness in pending, leases, and aggregation.  None is inductive alone: that a
script moves a task *out* of the one set it was in needs the index, the index after
a push needs that the task was nowhere else, and the converse needs that no other
set held it.  One lemma per action shows that it preserves each part; lemmas about
`PushOne`, `PushFront`, `PushAll`, `ZRem` and `LowestOf` carry what the Redis
commands do.  `CountedOnce` needs of `IInv` that a task is active only once: the script that
counts removes it from active, and no other key has it.  The bound of the archive needs no
history, as each script trims what it adds to; it needs that tasks are finitely many
(`TaskAssumption`), so that the members can be counted.  A queue is servable because two
entries never share a score (`Spread`), which a push keeps as it takes a score beyond
the end it pushes to, and because a finite set of scores has a first and a last.

The refinement maps pending to its entries in the order of their scores.  `Arranged`
says that a sequence is such an order; with different scores there is exactly one
(`ArrangedExists`, `ArrangedUnique`), so that a push appends to the
line or puts in front of it, a pop takes its head, and a removal leaves the others in their
order.  The counts need two facts above `IInv`: a listed group has a member
(`ListedNotEmpty`, an invariant of its own), and a task is filed under one key at a time,
so that the numbers of members of disjoint sets add up to the number of their tasks.  The pages
need of `IInv` that what is filed has a message, so that no entry is skipped, and is filed once: a page is a piece of the line, consecutive pieces
are joined by induction over the number of pages, and on a list queue the offsets from the end
and the final reversal give the same pieces.

**Leases (`ServerProofs`).**  For one server with any workers, tasks, lease duration, number
of crashes and of failed or lost calls: `LeaseBackedTheorem` and `LeaseExclusiveTheorem`.
`ServerProofs` extends `RdbProofs` and cites its lemmas about the scripts, which hold for
every integer as the reading of a clock; the constants of `Rdb` that `Server` does not use are
parameters that do not matter.  The inductive invariant `LeaseInv` adds to `IInv` what each
goroutine relies on while the others run: the heartbeater's entry of a task is a worker
with that task (`Tracked`); between ExtendLease and Reset, Redis has the lease that the
worker is about to be given (`BeatsOK`); a task in the recoverer's list is active and
nobody holds it (`ListedOK`); and a request that the syncer can still apply was applied
before, or is about a lease that nobody holds and the recoverer has not found
(`RequestsOK`).  Without the last two, a late Retry or Archive could be about the next
execution of its task.  `ClockOK` bounds what a cut to seconds takes away, so that a score
is less than a second behind the worker's expiry; exclusion then needs that the
recoverer's cutoff is at least a second (an ASSUME of `Server`; the code has 30).  Two hypotheses, and each is needed:
`SingleServer` (`ServerRecoverRace.cfg`) and `ArchiveKeeps`, an archive larger than the number
of tasks, so that nothing is trimmed (`ServerTrimmed.cfg`, see 5).  Only the recoverer's
steps use the first and only the calls of Archive the second.

**Receiver-target tasks (`ReceiverProofs`).**  For any finite set of tasks, any servers,
operations in flight, capacity and lease duration: `ReceiverTypeTheorem`, `MarkedTheorem`,
`LedgerTheorem`, `DeliveredOnceTheorem`, `RetiredTheorem`, and `ReleaseTheorem` under the hypothesis that
Release is called after the commit (`~EarlyRelease`; `ReceiverEarlyRelease.cfg` shows that it
is needed).  The reads of a call say nothing about the store at the moment of its script;
what `ReceiverInv` keeps of a call is its shape and the one fact that stays true, that a
source found retired is gone.  Everything else comes from the comparisons in the script.  A
delivery is of a revision that its source has passed, or its source is gone for good
(`Passed`), so no revision is reached twice, and a release does not begin the count again.
That the ledger is exact is about a sum over the tasks: the lemmas at the beginning of
the module show, for the fold that the model uses, that a sum changes by what one term
changes.  They are by induction over the subsets of a finite set, which is stated with a
set in place of a predicate and follows from the well-foundedness of strict inclusion.

**The aggregator (`AggregatorProofs`).**  For any finite set of tasks and any groups, sets, checks,
timeouts and faults: `OwnsSetTheorem` and `NoneDroppedTheorem`.  `AggregatorInv` says that
groups and sets hold tasks of clients only (`StoreOK`); that the set of a check has lost all
of the tasks read or none, that it is not stale while the context lives, and that before
the delete is sent an aggregate was enqueued (`ChecksOK`); the same for a delete that nobody
waits for any more (`CommandsOK`); and that no set is known to two checks or commands (`Apart`).  `OwnsSet`
is not inductive by itself: that a reclaim by the recoverer does not touch a live check
compares two deadlines, and that another check does not needs `Apart`.

**Lifecycle (`LifecycleProofs`).**  For any callers, workers, checks and tasks:
`ShutdownTheorem` and `NothingPulledTheorem`.  `LifecycleInv` says how far Start and Shutdown
have come (`Launched`, `Closing`: the components before the position of Shutdown are over,
the others are not, and past the processor all tokens are drained, so that no worker is
left to use a channel), that each is in progress once at most (`CallsOK`), and where the
processor, the aggregator and the workers are while they hold a token or run a check
(`Working`).

**Periodic tasks (`PeriodicProofs`).**  `StoppedTheorem` for any lists of configs, by the stages of
Shutdown (`StoppedInv`), with what a failed clear leaves kept apart.  `SyncTheorem` under two
hypotheses, each needed: configs that differ in spec, type or payload have different hashes
(`HashInjective`; without it `PeriodicUnhashed.cfg` with `Shifted`) and no list has two that
agree in them (`EachOnce`; without it `PeriodicTwice.cfg`).  It says nothing of headers and
options, which no hash covers.  `SyncInv` keeps the manager's map and the
entries inverse to each other at every step of a sync (`Paired`), and says of what is
still to be removed and added how it relates to the list.

**The set of queues (`QueuesProofs`).**  `ListedTheorem` for any queues, clients and calls.
`ListedInv`: an RDB marks only queues that a SADD has reached, and so has each call that is
about to run its script, as it does not look again.

`OptionsTheorem` for any lists of options, any time and any number of callers that
share one `*Task`, under the hypothesis `OwnOptions`: the options of one caller at most
fit the spare elements of the task's slice.  Without it the property fails
(`QueuesSharedOpts.cfg`); `Queues.cfg` satisfies it, with one caller whose options are
written in place.  `PlaceInv` says that this caller finds there what it wrote.  What the fold of composeOptions leaves in a field is
given in closed form, by the last option of that kind (`Result`, `ComposedIs`); the lemmas
`WholeSeconds` and `ContextEnds` bound what the cuts to seconds of EnqueueContext, of the
script and of computeDeadline take away together.  `OptionsInv` says of a call under
way, at each of its stages, and of a stored task what they have of the options that the
caller gave, and of a task that is pending or active that its time has come.

`ConfigTheorem` for any finite configs, patterns and type names, from the ASSUMEs of
`Dispatch` and `Queues`; it is about operators and has no state.  For ServeMux, appendSorted keeps the patterns
longest first and loses none, so the first that fits is the longest.  For the shares, the gcd
divides each priority (`Euclid`, `Gcd2Divides`, `GcdDivides`), each name is listed as often as
its divided priority (`NamesTimes`), and the two sums are in the same ratio (`SumTimes`).

Recursive functions and folds over sets are reached by induction that is stated with a set in place of a
predicate: over numbers (`LeastNumber`, `IndexInduction`) and over a finite set along the
elements that CHOOSE takes from it (`ChoiceInduction`), from which the fold of the library
has its values (`FoldExists`).

**The semaphore (`SemaphoreProofs`).**  For any finite set of tasks, any executions,
timeouts, number of tokens and parts of a second, from the ASSUME of `Semaphore`: `TokenSafety`
(`SemaSpec => []TokenBacked`), `HolderSafety` (`SemaSpec => []HoldersBounded`) and `OwnedSafety`
(`SemaSpec => []TokenOwned`).  The inductive invariant `SemaInv` adds to the types and to
`TokenBacked` that a task has at most one live execution (`OneLive`: what the queue's lease
gives; without it the release of one execution takes the token of another) and that the
set holds at most `MaxTokens` tokens (`TokensBounded`).  The holders then inject into the
tokens by their task, and the bound follows by cardinality.

**Model-checked only.**  Liveness under fairness (`EverySettled`, `EveryAggregated`,
`EveryServed`, `CatchesUp`, `ShutdownReturns`, `CallsReturn`) and the property with ENABLED
(`SyncCanApply`) are out of the prover's reach.  Every invariant and every action property of
the passing runs is stated by a theorem.  `PeriodicTypeOK`, `AggregatorTypeOK` and `QueuesTypeOK` are
not proved; the proofs use only the parts of them that their invariants repeat.  No module
uses RECURSIVE.

## 5. What the code does not keep

Each of these but item 15, which the proof of the leases came upon, contradicts what a
comment of the code says of it.  The first is a run of
the project; each of the others is one call of TLC with the configuration and the
property named (in place of those the configuration lists).

1. `server_sync`: the closures of markAsDone, markAsComplete and retry use a context
   that is cancelled when they are queued; the syncer can never apply them.
2. `RdbArchiveOrphan.cfg`, `ArchivedIsListed`: the Inspector's archive scripts trim the
   archived set without deleting the hashes; the tasks are then unreachable and never
   deleted.
3. `ReceiverBatch.cfg`, `HeldLeased`: ExtendLease refuses a batch of several IDs with a
   marked task among them, and the heartbeater sends all tasks of a queue in one batch;
   a server that works on two of them beats in time and loses both leases.
4. `RdbGroupStranded.cfg`, `GroupsListed`: a reclaimed aggregation set returns to a group
   that is no longer listed; the aggregator does not see it until a new task joins.
5. `RdbLockLeak.cfg`, `LockMeansDuplicate`: a unique enqueue refused for its task ID keeps
   the lock.
6. `ServerRecoverRace.cfg`, `RecoversExpired`: two servers list the same expired task; the
   later Retry takes it from a worker with a valid lease.  With more than one server
   `LeaseBacked` and `LeaseExclusive` fail for this reason, so `server_one` states them
   for one.
7. `ServerTracking.cfg`, `RunningTracked`: the end of one execution removes a later one of
   the same task ID from the heartbeater.
8. `PeriodicTwice.cfg`, `NoStaleEntry`: of two equal configs in one GetConfigs, the entry of
   the first can never be unregistered.
9. `PeriodicUnhashed.cfg`, `NoStaleEntry`: the headers and options of a task are no part
   of the hash, so that a config in which only they change keeps its old entry.  With
   `Shifted` for `Unhashed`: two configs whose fields read the same when joined have one
   hash, and the old entry is kept for the new config.  (`periodic_task_manager.go`:
   GetConfigs is called "to sync the scheduler's entries with the configs returned by
   the provider".)
10. `ReceiverEarlyRelease.cfg`, `ReleaseMeansRetired`: the three reads that recognise a
    retired source are taken at three moments; a Release that overlaps the enqueue and
    the commit answers success with the source in place.
11. `ReceiverStale.cfg`, `DeliversStored`: a Dequeue that is overtaken by a dequeue, retry
    and forward of the same task succeeds, and returns the message of before the retry.
12. `QueuesRemoved.cfg`, `QueuesListed`: RemoveQueue forgets the queue in its own client
    only and is not atomic; a client that has published the queue fills it again, and
    Inspectors do not see it.  Without force it also passes over completed tasks and
    groups, with force over the same, and the `paused` key stays.
13. `QueuesSubSecond.cfg`, `TimeoutKept`: a timeout of less than a second becomes 0 in the
    message, and with no deadline the task gets the default of 30 minutes.  The same
    configuration, `ZeroIsNoLimit`: so does a task with `Timeout(0)`, of which
    `client.go:168` says "Zero duration means no limit."
14. `QueuesSharedOpts.cfg`, `OptionsHonoured`: two goroutines that enqueue one `*Task` whose
    options slice has spare capacity write into the same array; one call uses the
    options of the other.
15. `ServerTrimmed.cfg`, `LeaseBacked`: the reply of Archive is lost and the syncer sends it
    again while the old lease is valid; if the archived task was trimmed by another
    archival, enqueued again and dequeued, the second Archive takes it from its worker.

16. `RdbFull.cfg`, `SizeAsDocumented`: `QueueInfo.Size` counts completed tasks;
    `inspector.go:99` says it "is the sum of Pending, Active, Scheduled, Retry,
    Aggregating and Archived."
17. `RdbFull.cfg`, `CompletedNewestFirst`: `inspector.go:498` says of completed tasks that
    they are "sorted by expiration time (i.e. CompletedAt + Retention) in descending
    order"; they are listed in ascending order, and archived tasks likewise.

One more was met and is not stated: `Page(0)` is taken as the page before the first, whose
offsets count from the end.

The properties of the passing runs are stated with these apart: one server, an archive
larger than the number of tasks where leases are concerned, configs that
the hash tells apart, a Release that follows the commit, queues that were not removed,
timeouts of a second or more or none given, at most one caller whose options fit the spare
capacity, a size without completed tasks, and no order of completed tasks.

## 6. Not modelled, and the plan

In this order:

1. The guards on marked tasks in the scripts on ordinary tasks and of the Inspector.
2. The syncer's timer, which each request arms anew.
3. Proofs: the type invariants of `Periodic`, `Aggregator` and `Queues` as theorems.

Left out for good: informational keys (server, worker and scheduler state) and how the
Inspector reads them back, middleware of ServeMux, the ping of
the health checker and the messages of the pub/sub connection (their goroutines are in
`Lifecycle`), logging, the command line tools and metrics: they change nothing that
another part reads.
