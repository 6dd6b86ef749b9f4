--------------------------- MODULE ReceiverTarget ---------------------------
(***************************************************************************)
(* The receiver-target ("marked") tasks of the default queue               *)
(* (internal/rdb/receiver_target_queue.go and its callers in rdb.go).      *)
(*                                                                         *)
(* Every operation on a marked task is optimistic.  The caller first takes *)
(* a snapshot with several separate reads (the task hash, its source       *)
(* record, the queue memberships), computes from it what the operation     *)
(* expects to find and how much storage it will take, and then sends ONE   *)
(* script that checks the expectations and applies the operation.  Between *)
(* any two reads, and between the last read and the script, every other    *)
(* goroutine may run; a lost reply makes the Redis client send the same    *)
(* script again.                                                           *)
(*                                                                         *)
(* The script (the generated kernel, wrapped by the atomic source) applies *)
(* the operation, settles its receipt and finalizes the source in one      *)
(* EVAL, so receipts and envelopes exist only inside it: a source found by *)
(* a reader is always finalized.  Digests are modelled by the values they  *)
(* bind: an evidence digest by the source record it was computed from.     *)
(*                                                                         *)
(* Not modelled: ordinary tasks of the same queue, a paused queue, the     *)
(* runtime epoch changing, the bytes of the capacity ledger (its rows      *)
(* are), the score limit of 2^53, the statistics counters.                 *)
(***************************************************************************)
EXTENDS Integers, FiniteSets, FiniteSetsExt

CONSTANTS
    Task,           \* ids of marked tasks, one effect each
    Server,         \* processes that use the broker
    LeaseDuration,  \* ticks a lease lasts
    RowLimit,       \* rows the capacity ledger admits
    MaxRev,         \* bound: operations on one source
    MaxTime,        \* bound: clock ticks
    EarlyRelease,   \* Release may be called before the effect has committed
    Prompt          \* no reply is lost, and a tick leaves every call, and one beat
                    \* per server, time to finish

ASSUME ReceiverAssumption ==
    /\ IsFiniteSet(Task) /\ Task # {}
    /\ LeaseDuration \in Nat \ {0}
    /\ RowLimit \in Nat /\ MaxRev \in Nat /\ MaxTime \in Nat
    /\ EarlyRelease \in BOOLEAN /\ Prompt \in BOOLEAN

VARIABLES
    task,       \* the task hash and its queue membership, per id
    source,     \* the finalized source record, per id
    inbox,      \* external: the effect's inbox state, per id
    rows,       \* the capacity ledger
    call,       \* the call each goroutine is in
    held,       \* deliveries a server is working on, each with its lease
    beaten,     \* servers whose heartbeater has beaten in this tick
    released,   \* ids for which some Release has returned nil
    now

vars == <<task, source, inbox, rows, call, held, beaten, released, now>>

-----------------------------------------------------------------------------
(* Records.  A task's score is its pending score or its due time; a source *)
(* has 12 fields after the initial enqueue and 14 after any later one.     *)

Absent == [state |-> "absent", gen |-> 0, msg |-> 0, score |-> 0, lease |-> 0]

NoSource == [gen |-> 0, rev |-> 0, ack |-> "none"]

\* Worker goroutines also play the clients, forwarders and recoverers.
Goroutine == Server \X {"worker", "heartbeat"}

Idle == [step |-> "idle", op |-> "none", task |-> CHOOSE t \in Task : TRUE,
         state |-> "absent", arg |-> 0, next |-> 0, msg |-> 0,
         picked |-> 0, seen |-> "absent", src |-> NoSource, score |-> 0]

TaskFields(state) == CASE state = "absent"  -> 0
                       [] state = "pending" -> 7
                       [] OTHER             -> 6

Members(state) == CASE state = "absent" -> 0
                    [] state = "active" -> 2
                    [] OTHER            -> 1

SourceRows(s) == CASE s.rev = 0 -> 0
                   [] s.rev = 1 -> 12
                   [] OTHER     -> 14

ReceiptRows == 23

\* The length of a state's name and of a score's decimal text.
StateBytes(state) == CASE state = "absent"    -> 0
                       [] state = "retry"     -> 5
                       [] state = "active"    -> 6
                       [] state = "pending"   -> 7
                       [] state = "scheduled" -> 9

ScoreBytes(n) == IF n < 0 THEN 2 ELSE 1

\* The score a task gets at either end of the pending queue.
PendingScores == {task[t].score : t \in {u \in Task : task[u].state = "pending"}}

EndpointScore(append) ==
    IF PendingScores = {} THEN 0
    ELSE IF append THEN Max(PendingScores) + 1 ELSE Min(PendingScores) - 1

-----------------------------------------------------------------------------
(* The operations.                                                         *)

Enqueues == {"initial-enqueue", "recovery-enqueue"}

\* The native operations of a worker, which quote the lease they found.
LeaseOps == {"requeue", "lease-extension", "retry", "done"}

\* The state a native operation leaves the task in; an enqueue's is its
\* placement, which it carries in k.state.
NextState(k) ==
    CASE k.op \in Enqueues                          -> k.state
      [] k.op \in {"dequeue", "lease-extension"}    -> "active"
      [] k.op \in {"requeue", "due-forward"}        -> "pending"
      [] k.op = "retry"                             -> "retry"
      [] k.op = "done"                              -> "absent"

\* The score of the task after the operation, from the queue as it is now.
NextScore(k) ==
    CASE NextState(k) = "pending"             -> EndpointScore(k.op # "requeue")
      [] NextState(k) \in {"scheduled", "retry"} -> k.next
      [] OTHER                                -> 0

\* The change in storage of a task that goes from state before to state
\* after, with a new score of the given length.
Usage(before, after, bytes) ==
    [rows  |-> TaskFields(after) - TaskFields(before),
     bytes |-> StateBytes(after) - StateBytes(before) + bytes]

\* What the caller computed from its snapshot: a lease extension leaves the
\* fields it saw as they are.
OperandDelta(k) ==
    Usage(k.seen, IF k.op = "lease-extension" THEN k.seen ELSE NextState(k),
          ScoreBytes(k.score))

\* Mutant: the script takes the caller's delta for its own.
KernelTrusts(k) == OperandDelta(k)

\* What the script computes from the task it finds.
KernelDelta(k) ==
    Usage(task[k.task].state, NextState(k), ScoreBytes(NextScore(k)))

-----------------------------------------------------------------------------
(* The script.                                                             *)

\* The rows of the ledger after the operation is applied and finalized:
\* the task's, and the source's 12 or 14 fields.
RowsAfter(k) ==
    rows + KernelDelta(k).rows
         + Members(NextState(k)) - Members(task[k.task].state)
         + (IF k.op = "initial-enqueue" THEN 12 ELSE 14) - SourceRows(source[k.task])

\* While the receipt exists the source has one field less, the receipt 23.
RowsPeak(k) == RowsAfter(k) - 1 + ReceiptRows

\* Mutant: any operation whose receipt is the last one acknowledged.
ReplayedAny(k) ==
    /\ source[k.task].rev = k.src.rev + 1
    /\ source[k.task].ack = k.op

\* A repeated initial enqueue whose acknowledgement is still the last one.
Replayed(k) ==
    /\ k.op = "initial-enqueue"
    /\ source[k.task].rev = 1
    /\ source[k.task].ack = k.op

\* The evidence digest binds the source's acknowledgement, revision and
\* generation; an initial enqueue expects no source.
EvidenceHolds(k) == source[k.task] = k.src

\* Mutant: the inbox is not consulted.
EnqueueAnyInbox(k) ==
    task[k.task].state = "absent" /\ (k.op = "initial-enqueue" \/ k.src.rev > 0)

EnqueueAdmitted(k) ==
    /\ task[k.task].state = "absent"
    /\ IF k.op = "initial-enqueue"
       THEN inbox[k.task] = "reserved"
       ELSE k.src.rev > 0

NativeAdmitted(k) ==
    LET x == task[k.task] IN
    /\ k.src.rev > 0
    /\ x.state = k.state
    /\ x.gen = k.src.gen
    /\ k.op = "retry" \/ x.msg = k.msg
    /\ k.op \in LeaseOps => x.lease = k.arg
    /\ k.op \in {"dequeue", "due-forward"} => x.score = k.arg
    /\ k.op = "dequeue" => \A p \in PendingScores : x.score <= p

Admitted(k) ==
    /\ EvidenceHolds(k)
    /\ IF k.op \in Enqueues THEN EnqueueAdmitted(k) ELSE NativeAdmitted(k)
    /\ OperandDelta(k) = KernelDelta(k)
    /\ RowsPeak(k) <= RowLimit

\* apply_transaction, then settle and finalize.
Apply(k) ==
    LET gen == source[k.task].gen + (IF k.op \in Enqueues THEN 1 ELSE 0)
    IN /\ task' = [task EXCEPT ![k.task] =
                      IF k.op = "done" THEN Absent
                      ELSE [state |-> NextState(k), gen |-> gen, msg |-> k.msg,
                            score |-> NextScore(k),
                            lease |-> IF NextState(k) = "active" THEN k.next ELSE 0]]
       /\ source' = [source EXCEPT ![k.task] =
                        [gen |-> gen, rev |-> @.rev + 1, ack |-> k.op]]
       /\ rows' = RowsAfter(k)

\* A source is gone, its task too, and the effect has committed.
Retired(t) ==
    source[t] = NoSource /\ task[t] = Absent /\ inbox[t] = "committed"

\* Mutant: the snapshot is taken at its word.
ReleaseUnfenced(k) == k.src.rev > 0 /\ inbox[k.task] = "committed"

ReleaseAdmitted(k) ==
    /\ k.src.rev > 0 /\ source[k.task] = k.src
    /\ task[k.task] = Absent
    /\ inbox[k.task] = "committed"
    /\ rows + 13 - SourceRows(source[k.task]) + ReceiptRows <= RowLimit

\* Mutant: the source's rows stay on the ledger.
ReleaseKeepsRows(k) ==
    /\ source' = [source EXCEPT ![k.task] = NoSource]
    /\ UNCHANGED <<task, rows>>

\* release_transaction: the fence closes, and finalize deletes the source.
ReleaseSource(k) ==
    /\ source' = [source EXCEPT ![k.task] = NoSource]
    /\ rows' = rows - SourceRows(source[k.task])
    /\ UNCHANGED task

-----------------------------------------------------------------------------
(* The calls: each begins with its first read and ends with a return.      *)

unstored == <<task, source, inbox, rows>>

Begin(g, k) ==
    /\ call[g] = Idle
    /\ call' = [call EXCEPT ![g] = k]
    /\ UNCHANGED <<unstored, held, beaten, released, now>>

\* The call goes on to another read, or returns with an error.
Continue(g, k) ==
    /\ call' = [call EXCEPT ![g] = k]
    /\ UNCHANGED <<unstored, held, beaten, released, now>>

\* A heartbeater that returns has beaten, whatever came of it.
Return(g, k) ==
    /\ call' = [call EXCEPT ![g] = Idle]
    /\ beaten' = IF k.op = "lease-extension" THEN beaten \union {g[1]} ELSE beaten

Fail(g) ==
    /\ Return(g, call[g])
    /\ UNCHANGED <<unstored, held, released, now>>

\* EnqueueReceiverTarget: the placement is chosen, and the tail read, first.
EnqueueReceiverTarget(s, t, place) ==
    /\ Begin(<<s, "worker">>,
             [Idle EXCEPT !.step = "exists", !.op = "initial-enqueue", !.task = t,
                          !.state = place, !.next = now + 1,
                          !.score = IF place = "pending" THEN EndpointScore(TRUE) ELSE now + 1])

\* receiverTargetRecoveryCommand: with the task there, or no source, the
\* initial command stands; otherwise the source is to be enqueued again.
RecoveryReadTask(g) ==
    LET k == call[g] IN
    /\ k.step = "exists"
    /\ Continue(g, [k EXCEPT !.step = IF task[k.task].state # "absent"
                                      THEN "eval" ELSE "recover"])

RecoveryReadSource(g) ==
    LET k == call[g] IN
    /\ k.step = "recover"
    /\ Continue(g, IF source[k.task] = NoSource
                   THEN [k EXCEPT !.step = "eval"]
                   ELSE [k EXCEPT !.step = "eval", !.op = "recovery-enqueue",
                                  !.src = source[k.task],
                                  !.score = IF k.state = "pending" THEN EndpointScore(TRUE)
                                            ELSE k.score])

\* Mutant: the first of the three reads, of the source, is left out.
ReleaseSkipsSource(s, t) ==
    /\ EarlyRelease \/ inbox[t] = "committed"
    /\ Begin(<<s, "worker">>,
             [Idle EXCEPT !.op = "release", !.task = t, !.step = "retired-task"])

\* ReleaseReceiverTarget: three reads tell whether the source is retired.
ReleaseReceiverTarget(s, t) ==
    /\ EarlyRelease \/ inbox[t] = "committed"
    /\ Begin(<<s, "worker">>,
             [Idle EXCEPT !.op = "release", !.task = t,
                          !.step = IF source[t] = NoSource THEN "retired-task" ELSE "release"])

RetiredReadTask(g) ==
    LET k == call[g] IN
    /\ k.step = "retired-task"
    /\ Continue(g, [k EXCEPT !.step = IF task[k.task] = Absent
                                      THEN "retired-inbox" ELSE "release"])

RetiredReadInbox(g) ==
    LET k == call[g] IN
    /\ k.step = "retired-inbox"
    /\ IF inbox[k.task] = "committed"
       THEN /\ Return(g, k)
            /\ released' = released \union {k.task}
            /\ UNCHANGED <<unstored, held, now>>
       ELSE Continue(g, [k EXCEPT !.step = "release"])

\* receiverTargetReleaseCommand needs the source.
ReleaseReadSource(g) ==
    LET k == call[g] IN
    /\ k.step = "release"
    /\ IF source[k.task] = NoSource THEN Fail(g)
       ELSE Continue(g, [k EXCEPT !.step = "eval", !.src = source[k.task]])

\* Dequeue: the selection script names the head of the queue, and the
\* message the worker will be given.
Dequeue(s) ==
    \E t \in Task :
        /\ task[t].state = "pending" /\ task[t].score = Min(PendingScores)
            /\ Begin(<<s, "worker">>,
                 [Idle EXCEPT !.step = "task", !.op = "dequeue", !.task = t,
                              !.state = "pending", !.arg = task[t].score,
                              !.picked = task[t].msg, !.next = now + LeaseDuration])

\* forward: the selection script names a task that is due.
Forward(s, t) ==
    /\ task[t].state \in {"scheduled", "retry"} /\ task[t].score <= now
    /\ Begin(<<s, "worker">>,
             [Idle EXCEPT !.step = "task", !.op = "due-forward", !.task = t,
                          !.state = task[t].state, !.arg = task[t].score])

\* The marker and the lease are read; without a lease the call fails.
BeginLeased(g, op, t, next, msg) ==
    /\ task[t].state = "active"
    /\ Begin(g, [Idle EXCEPT !.step = "task", !.op = op, !.task = t, !.state = "active",
                             !.arg = task[t].lease, !.next = next, !.msg = msg])

\* A worker ends a delivery whose lease is valid.  A marked task cannot be
\* archived: Archive is refused and the processor retries the task instead.
Finish(s, d, op) ==
    /\ d.lease >= now
    /\ BeginLeased(<<s, "worker">>, op, d.task, now, d.msg + 1)

\* A worker whose lease has run out leaves the task to the recoverer.
Abandon(s, d) ==
    /\ d.lease < now
    /\ held' = [held EXCEPT ![s] = @ \ {d}]
    /\ UNCHANGED <<unstored, call, beaten, released, now>>

\* The recoverer retries a task whose lease ran out one duration ago, also where it
\* tries Archive first: that is refused, and becomes a retry.
Recover(s, t) ==
    /\ task[t].lease + LeaseDuration <= now
    /\ BeginLeased(<<s, "worker">>, "retry", t, now, task[t].msg + 1)

\* The tasks a beat extends: those in work whose lease is still valid.
Extendable(s) == {d.task : d \in {e \in held[s] : e.lease >= now}}

\* Mutant: the lease is extended to the present.
ExtendLeaseNow(s) ==
    \E t \in Extendable(s) : BeginLeased(<<s, "heartbeat">>, "lease-extension", t, now, 0)

\* beat: one ExtendLease for all of them.  Marked tasks are refused unless
\* they come alone, and a task that is no longer active has no lease.
ExtendLease(s) ==
    LET g == <<s, "heartbeat">> IN
    /\ held[s] # {} /\ call[g] = Idle
    /\ \/ /\ Cardinality(Extendable(s)) = 1
          /\ \E t \in Extendable(s) :
                BeginLeased(g, "lease-extension", t, now + LeaseDuration, 0)
       \/ /\ \/ Cardinality(Extendable(s)) # 1
             \/ \E t \in Extendable(s) : task[t].state # "active"
          /\ beaten' = beaten \union {s}
          /\ UNCHANGED <<unstored, call, held, released, now>>

\* receiverTargetNativeSnapshot reads the task hash ...
ReadTask(g) ==
    LET k == call[g] x == task[k.task] IN
    /\ k.step = "task"
    /\ IF x.state = "absent" THEN Fail(g)
       ELSE Continue(g, [k EXCEPT !.step = "source", !.seen = x.state,
                                  !.src = [NoSource EXCEPT !.gen = x.gen],
                                  !.msg = IF k.op = "retry" THEN k.msg ELSE x.msg])

\* ... and then its source, which must be of the task's generation.
ReadSource(g) ==
    LET k == call[g] IN
    /\ k.step = "source"
    /\ IF source[k.task].rev = 0 \/ source[k.task].gen # k.src.gen THEN Fail(g)
       ELSE Continue(g, [k EXCEPT !.step = "members", !.src = source[k.task]])

\* receiverTargetNativeDelta reads the memberships and the queue's end.
ReadMembers(g) ==
    LET k == call[g] x == task[k.task] IN
    /\ k.step = "members"
    /\ IF \/ x.state # k.state
          \/ k.op \in LeaseOps /\ x.lease # k.arg
          \/ k.op \in {"dequeue", "due-forward"} /\ x.score # k.arg
       THEN Fail(g)
       ELSE Continue(g, [k EXCEPT !.step = "eval", !.score = NextScore(k)])

\* The deliveries ds of a server after operation k of its own went through.
Delivered(ds, k) ==
    CASE k.op = "dequeue" ->
           ds \union {[task |-> k.task, rev |-> k.src.rev + 1, msg |-> k.picked, lease |-> k.next]}
      [] k.op = "lease-extension" ->
           {[d EXCEPT !.lease = IF d.task = k.task /\ @ >= now THEN k.next ELSE @] : d \in ds}
      [] k.op \in {"requeue", "retry", "done"} ->
           {d \in ds : d.task # k.task}
      [] OTHER -> ds

\* The script runs.  Its reply reaches the caller, or is lost and the Redis
\* client sends the script once more.
Eval(g) ==
    LET k == call[g]
        done == IF k.op = "release"
                THEN ReleaseAdmitted(k) \/ Retired(k.task)
                ELSE Admitted(k) \/ Replayed(k)
    IN /\ k.step = "eval"
       /\ source[k.task].rev < MaxRev \/ k.op = "release" \/ ~Admitted(k)
       /\ CASE k.op = "release" /\ ReleaseAdmitted(k) -> ReleaseSource(k)
            [] k.op # "release" /\ ~Replayed(k) /\ Admitted(k) -> Apply(k)
            [] OTHER -> UNCHANGED <<task, source, rows>>
       /\ \/ /\ ~Prompt                                      \* reply lost
             /\ UNCHANGED <<call, held, beaten, released>>
             /\ <<task, source, rows>>' # <<task, source, rows>>
          \/ /\ Return(g, k)
             /\ held' = [held EXCEPT ![g[1]] = IF done THEN Delivered(held[g[1]], k) ELSE @]
             /\ released' = IF done /\ k.op = "release" THEN released \union {k.task}
                            ELSE released
       /\ UNCHANGED <<inbox, now>>

\* The caller's context ends; a command it sent may still have run.
GiveUp(g) ==
    /\ ~Prompt /\ call[g] # Idle
    /\ Fail(g)

\* The server dies with its calls and its deliveries.
Crash(s) ==
    /\ held[s] # {}
    /\ held' = [held EXCEPT ![s] = {}]
    /\ call' = [g \in Goroutine |-> IF g[1] = s THEN Idle ELSE call[g]]
    /\ UNCHANGED <<unstored, beaten, released, now>>

\* External: the handler of a delivery commits the effect.
Commit(s, d) ==
    /\ inbox[d.task] = "reserved"
    /\ inbox' = [inbox EXCEPT ![d.task] = "committed"]
    /\ UNCHANGED <<task, source, rows, call, held, beaten, released, now>>

Tick ==
    /\ now < MaxTime
    /\ Prompt => /\ \A g \in Goroutine : call[g] = Idle
                 /\ \A s \in Server : held[s] # {} => s \in beaten
    /\ now' = now + 1
    /\ beaten' = {}
    /\ UNCHANGED <<unstored, call, held, released>>

-----------------------------------------------------------------------------

Init ==
    /\ task = [t \in Task |-> Absent]
    /\ source = [t \in Task |-> NoSource]
    /\ inbox = [t \in Task |-> "reserved"]
    /\ rows = 0
    /\ call = [g \in Goroutine |-> Idle]
    /\ held = [s \in Server |-> {}]
    /\ beaten = {}
    /\ released = {}
    /\ now = 0

ReadStep(g) ==
    \/ RecoveryReadTask(g) \/ RecoveryReadSource(g)
    \/ RetiredReadTask(g)  \/ RetiredReadInbox(g) \/ ReleaseReadSource(g)
    \/ ReadTask(g) \/ ReadSource(g) \/ ReadMembers(g)

Next ==
    \/ \E s \in Server, t \in Task :
          \/ \E place \in {"pending", "scheduled"} : EnqueueReceiverTarget(s, t, place)
          \/ ReleaseReceiverTarget(s, t)
          \/ Forward(s, t)
          \/ Recover(s, t)
    \/ \E s \in Server :
          \/ Dequeue(s)
          \/ ExtendLease(s)
          \/ Crash(s)
          \/ \E d \in held[s] :
                \/ Commit(s, d)
                \/ Abandon(s, d)
                \/ \E op \in {"requeue", "retry", "done"} : Finish(s, d, op)
    \/ \E g \in Goroutine : ReadStep(g) \/ Eval(g) \/ GiveUp(g)
    \/ Tick

ReceiverSpec == Init /\ [][Next]_vars

-----------------------------------------------------------------------------
(* Properties.                                                             *)

TaskState == {"absent", "pending", "active", "scheduled", "retry"}

Op == Enqueues \union LeaseOps \union {"dequeue", "due-forward", "release"}

SourceRecord == [gen : 0..MaxRev, rev : 0..MaxRev, ack : Op \union {"none"}]

\* Every record has its shape, revisions stay below their bound and the
\* ledger stays within its limit, which the script's projection enforces.
ReceiverTypeOK ==
    /\ \A t \in Task :
          /\ task[t].state \in TaskState /\ task[t].score \in Int
          /\ {task[t].gen, task[t].msg, task[t].lease} \subseteq Nat
          /\ source[t] \in SourceRecord
          /\ inbox[t] \in {"reserved", "committed"}
    /\ rows \in 0..RowLimit
    /\ \A g \in Goroutine : call[g].src \in SourceRecord /\ call[g].seen \in TaskState
    /\ \A s \in Server : \A d \in held[s] : d.task \in Task /\ d.rev \in 1..MaxRev
    /\ beaten \subseteq Server /\ released \subseteq Task /\ now \in 0..MaxTime

\* A marked task in the queue always has its source, of its own generation:
\* no release, decided on an older snapshot, takes the source from under a
\* task that a recovery enqueued meanwhile.
MarkedHasSource ==
    \A t \in Task : task[t].state # "absent" =>
        source[t].rev > 0 /\ source[t].gen = task[t].gen

\* The capacity ledger is what the stored hashes and memberships take, to
\* the row, although every operation's delta was computed by its caller from
\* a snapshot that may be torn.
LedgerExact ==
    rows = SumFunction([t \in Task |-> TaskFields(task[t].state) + Members(task[t].state)
                                           + SourceRows(source[t])])

\* One revision of a task is delivered to one server at most: of two servers
\* that selected the same head of the queue, and computed the same receipt,
\* one is refused.
DeliveredOnce ==
    \A s, r \in Server : s # r =>
        \A d \in held[s], e \in held[r] : d.task = e.task => d.rev # e.rev

\* Release answers success only for a source that is gone for good.
ReleaseMeansRetired == \A t \in released : Retired(t)

\* A retired effect is never enqueued again, not even by an initial enqueue
\* that was sent before the effect ran and arrives after its release.
RetiredForever == [][\A t \in Task : Retired(t) => Retired(t)']_vars

\* While servers beat in every tick, no delivery in work loses its lease
\* (beat "extends lease for workers", heartbeat.go).
HeldLeased ==
    \A s \in Server : \A d \in held[s] :
        task[d.task].state = "active" => task[d.task].lease >= now

\* A worker is given the message that is stored for the task it was given
\* (its Retried is "the number of times we've retried this task so far").
DeliversStored ==
    \A s \in Server : \A d \in held[s] :
        task[d.task].state = "active" /\ source[d.task].rev = d.rev
            => d.msg = task[d.task].msg

=============================================================================
