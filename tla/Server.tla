------------------------------- MODULE Server -------------------------------
(***************************************************************************)
(* Servers that work on one queue: the processor and its workers, the      *)
(* heartbeater, the recoverer, the syncer and the forwarder of each server *)
(* are goroutines that share the Redis state of RdbTasks and call its      *)
(* scripts.  A server may crash between any two steps, a call to Redis may *)
(* fail before or after its script ran, and time passes anywhere.          *)
(*                                                                         *)
(* Every timestamp is kept relative to the clock: "now" is 0, a timestamp  *)
(* in the past is negative, and a tick lowers all of them by one, down to  *)
(* the age from which no test tells them apart.  A tick is a fraction of a *)
(* second: what is stored in Redis is cut to whole seconds, what the       *)
(* goroutines keep is not.  Servers share one clock.                       *)
(***************************************************************************)
EXTENDS RdbTasks

CONSTANTS
    Servers,            \* server processes
    Worker,             \* worker goroutines, at most Config.Concurrency each
    ServerOf,           \* the server of each worker
    Second,             \* ticks of the clock in a second
    LeaseDuration,      \* rdb.LeaseDuration (30s)
    Cutoff,             \* recoverLeaseExpiredTasks: 30s past the expiry
    MaxRetry,           \* TaskMessage.Retry
    RetryDelay,         \* Config.RetryDelayFunc
    Retention,          \* TaskMessage.Retention, 0 for none
    IsFailure,          \* the possible results of Config.IsFailure
    MaxCrashes,         \* bound on crashes and shutdowns
    MaxFaults           \* bound on failed calls to Redis

ASSUME ServerAssumption ==
    /\ ServerOf \in [Worker -> Servers]
    /\ Second \in Nat \ {0}
    /\ LeaseDuration \in Nat \ {0}
    /\ Cutoff \in Nat /\ Cutoff >= Second
    /\ MaxRetry \in Nat
    /\ RetryDelay \in Nat
    /\ Retention \in Nat
    /\ IsFailure \subseteq BOOLEAN /\ IsFailure # {}
    /\ MaxCrashes \in Nat
    /\ MaxFaults \in Nat

\* A message is its Retried count; Retried = Retry is the last attempt.
ASSUME RetriedAssumption == Msg = 0 .. MaxRetry /\ Nil \notin Worker

VARIABLES
    status,             \* of each server: "up", "stopping" or "down"
    worker,             \* the goroutine of exec for each worker
    workers,            \* heartbeater.workers: task ID -> worker
    beat,               \* heartbeater.beat in progress
    listed,             \* recoverer: the messages listed and not yet handled
    requests,           \* syncer: the requests to be retried
    crashes, faults,    \* how many so far
    frac                \* ticks since the last whole second

goVars == <<status, worker, workers, beat, listed, requests>>
allVars == <<vars, goVars, crashes, faults, frac>>

-----------------------------------------------------------------------------
Op == {"done", "complete", "retry", "archive", "requeue"}

\* exec: expireAt is that of the worker's base.Lease, op the call that ends the
\* execution, deadline that of its context.
WorkerState ==
    [phase: {"idle", "starting", "running", "writing", "finishing"},
     task: Task \cup {Nil}, msg: Msg \cup {Nil},
     expireAt: Int, op: Op \cup {Nil}, deadline: Int]
Idle == [phase |-> "idle", task |-> Nil, msg |-> Nil,
         expireAt |-> -1, op |-> Nil, deadline |-> -1]

\* syncRequest; cancelled: its function calls Redis with a context whose
\* cancel function has been called.
Request == [task: Task, msg: Msg, op: Op \ {"requeue"},
            deadline: Int, cancelled: BOOLEAN]

Beat == [stage: {"idle", "extend", "reset"}, ids: SUBSET Task, until: Int]
NoBeat == [stage |-> "idle", ids |-> {}, until |-> -1]

\* time.Time.Unix, of the time d ticks from now: the last whole second.
Unix(d) == d - ((frac + d) % Second)

WorkersOf(s) == {w \in Worker : ServerOf[w] = s}

\* base.Lease.IsValid
IsValid(w) == worker[w].expireAt >= 0

ServerTypeOK ==
    /\ TypeOK
    /\ status \in [Servers -> {"up", "stopping", "down"}]
    /\ worker \in [Worker -> WorkerState]
    /\ workers \in [Servers -> [Task -> Worker \cup {Nil}]]
    /\ beat \in [Servers -> Beat]
    /\ listed \in [Servers -> [Task -> Msg \cup {Nil}]]
    /\ requests \in [Servers -> SUBSET Request]
    /\ crashes \in 0 .. MaxCrashes
    /\ faults \in 0 .. MaxFaults
    /\ frac \in 0 .. Second - 1

ServerInit ==
    /\ Init
    /\ status = [s \in Servers |-> "up"]
    /\ worker = [w \in Worker |-> Idle]
    /\ workers = [s \in Servers |-> [t \in Task |-> Nil]]
    /\ beat = [s \in Servers |-> NoBeat]
    /\ listed = [s \in Servers |-> [t \in Task |-> Nil]]
    /\ requests = [s \in Servers |-> {}]
    /\ crashes = 0
    /\ faults = 0
    /\ frac \in 0 .. Second - 1

\* One more call to Redis fails.
Fault == faults < MaxFaults /\ faults' = faults + 1
NoFault == UNCHANGED faults

-----------------------------------------------------------------------------
(* The processor.                                                           *)

\* exec: take a token, dequeue, and offer the worker to the heartbeater.  Redis
\* gets the end of the lease in whole seconds, the worker's base.Lease does not.
DequeueTask(w) ==
    /\ status[ServerOf[w]] = "up"
    /\ worker[w].phase = "idle"
    /\ Dequeue(Unix(LeaseDuration))
    /\ \E t \in active' \ active :
         worker' = [worker EXCEPT ![w] =
            [Idle EXCEPT !.phase = "starting", !.task = t, !.msg = hash[t].msg,
                         !.expireAt = LeaseDuration]]
    /\ NoFault
    /\ UNCHANGED <<status, workers, beat, listed, requests, crashes, frac>>

\* The script ran but its reply is lost: the task is active and no worker knows.
DequeueReplyLost(s) ==
    /\ status[s] = "up"
    /\ \E w \in WorkersOf(s) : worker[w].phase = "idle"
    /\ Dequeue(Unix(LeaseDuration))
    /\ Fault
    /\ UNCHANGED <<goVars, crashes, frac>>

\* The heartbeater receives from starting between two beats; then the handler
\* runs.
Starting(w) ==
    LET s == ServerOf[w] IN
    /\ worker[w].phase = "starting"
    /\ beat[s].stage = "idle"
    /\ workers' = [workers EXCEPT ![s][worker[w].task] = w]
    /\ worker' = [worker EXCEPT ![w].phase = "running"]
    /\ NoFault
    /\ UNCHANGED <<vars, status, beat, listed, requests, crashes, frac>>

\* What is left to do is to tell the heartbeater.
Finishing(w) ==
    [Idle EXCEPT !.phase = "finishing", !.task = worker[w].task,
                 !.expireAt = worker[w].expireAt]

\* Start the call op, unless the lease is no longer valid: then nothing is
\* written and the task is left to the recoverer.
Settle(w, op) ==
    worker' = [worker EXCEPT ![w] =
        IF IsValid(w)
        THEN [worker[w] EXCEPT !.phase = "writing", !.op = op,
                               !.deadline = worker[w].expireAt]
        ELSE Finishing(w)]

\* handleSucceededMessage
Succeed(w) == Settle(w, IF Retention > 0 THEN "complete" ELSE "done")

\* handleFailedMessage: an ordinary error, SkipRetry, or RevokeTask.
Fail(w) ==
    \/ Settle(w, IF worker[w].msg >= MaxRetry THEN "archive" ELSE "retry")
    \/ Settle(w, "archive")
    \/ Settle(w, "done")

\* The select of exec: the handler returned, its context is done, the lease
\* was notified as expired, or the shutdown timeout is over.  The context
\* always has a deadline (computeDeadline), so this comes to pass.
Return(w) ==
    /\ worker[w].phase = "running"
    /\ \/ Succeed(w)
       \/ Fail(w)
       \/ status[ServerOf[w]] = "stopping" /\ Settle(w, "requeue")
    /\ NoFault
    /\ UNCHANGED <<vars, status, workers, beat, listed, requests, crashes, frac>>

\* The script behind each call.
Apply(op, t, m) ==
    \/ op = "done" /\ Done(t, m)
    \/ op = "complete" /\ MarkAsComplete(t, m, Retention)
    \/ op = "requeue" /\ Requeue(t)
    \/ op = "archive" /\ Archive(t, m, 0)
    \/ op = "retry" /\ \E f \in IsFailure :
                          Retry(t, IF f THEN m + 1 ELSE m, Unix(RetryDelay), f)

\* markAsDone, markAsComplete and retry defer the cancel of the context that
\* the function they hand to the syncer calls Redis with; archive's function
\* makes a context of its own.
Cancelled(op) == op # "archive"

\* A failed call goes to the syncer, until the lease as it is by then expires; a
\* failed requeue is only logged.
Resync(w) ==
    LET r == worker[w] IN
    requests' = IF r.op = "requeue" THEN requests
                ELSE [requests EXCEPT ![ServerOf[w]] = @ \cup
                    {[task |-> r.task, msg |-> r.msg, op |-> r.op,
                      deadline |-> r.expireAt, cancelled |-> Cancelled(r.op)]}]

\* The call to Redis: it is made only while its context lives, that is until
\* the lease expires; the script refuses a task that is not active.
Write(w) ==
    LET r == worker[w] IN
    /\ r.phase = "writing"
    /\ worker' = [worker EXCEPT ![w] = Finishing(w)]
    /\ \/ /\ r.deadline >= 0
          /\ Apply(r.op, r.task, r.msg)
          /\ \/ NoFault /\ UNCHANGED requests
             \/ Fault /\ Resync(w)
       \/ /\ \/ (r.deadline < 0 \/ r.task \notin active) /\ NoFault
             \/ Fault
          /\ Resync(w)
          /\ UNCHANGED vars
    /\ UNCHANGED <<status, workers, beat, listed, crashes, frac>>

\* The deferred calls: the heartbeater receives from finished, and forgets the
\* task ID, whichever worker is stored under it; the token is released.
Finish(w) ==
    LET s == ServerOf[w] IN
    /\ worker[w].phase = "finishing"
    /\ beat[s].stage = "idle"
    /\ workers' = [workers EXCEPT ![s][worker[w].task] = Nil]
    /\ worker' = [worker EXCEPT ![w] = Idle]
    /\ NoFault
    /\ UNCHANGED <<vars, status, beat, listed, requests, crashes, frac>>

-----------------------------------------------------------------------------
(* The heartbeater: one beat checks the leases, extends the valid ones in   *)
(* Redis, and then resets the workers' own.                                 *)

ToExtend(s) == {t \in Task : workers[s][t] # Nil /\ IsValid(workers[s][t])}

\* The worker of an expired lease is notified (NotifyExpiration): one of the
\* ways to Return, which is enabled anyhow.
BeatCheck(s) ==
    /\ status[s] # "down"
    /\ beat[s].stage = "idle"
    /\ ToExtend(s) # {}
    /\ beat' = [beat EXCEPT ![s] =
                  [stage |-> "extend", ids |-> ToExtend(s), until |-> -1]]
    /\ NoFault
    /\ UNCHANGED <<vars, status, worker, workers, listed, requests, crashes, frac>>

\* ExtendLease writes whole seconds and returns the time as it is.
BeatExtend(s) ==
    LET b == beat[s] IN
    /\ b.stage = "extend"
    /\ \/ /\ ExtendLease(b.ids, Unix(LeaseDuration))
          /\ \/ /\ NoFault
                /\ beat' = [beat EXCEPT ![s].stage = "reset", ![s].until = LeaseDuration]
             \/ Fault /\ beat' = [beat EXCEPT ![s] = NoBeat]
       \/ Fault /\ beat' = [beat EXCEPT ![s] = NoBeat] /\ UNCHANGED vars
    /\ UNCHANGED <<status, worker, workers, listed, requests, crashes, frac>>

\* Mutant: Reset does not test IsValid.
ResetExpiry(w, until) == until

\* base.Lease.Reset: an expired lease stays expired.
Reset(w, until) == IF IsValid(w) THEN until ELSE worker[w].expireAt

BeatReset(s) ==
    LET b == beat[s] IN
    /\ b.stage = "reset"
    /\ worker' = [w \in Worker |->
                    IF \E t \in b.ids : workers[s][t] = w
                    THEN [worker[w] EXCEPT !.expireAt = Reset(w, b.until)] ELSE worker[w]]
    /\ beat' = [beat EXCEPT ![s] = NoBeat]
    /\ NoFault
    /\ UNCHANGED <<vars, status, workers, listed, requests, crashes, frac>>

-----------------------------------------------------------------------------
(* The recoverer lists what has expired, then handles the messages of the   *)
(* list one by one, as it read them.                                        *)

\* Mutant: the cutoff lies in the future, not in the past.
ExpiredEarly == UpTo(lease, Unix(Cutoff))

Expired == UpTo(lease, Unix(-Cutoff))

ListExpired(s) ==
    /\ status[s] # "down"
    /\ \A t \in Task : listed[s][t] = Nil
    /\ Expired # {}
    /\ listed' = [listed EXCEPT ![s] =
                    [t \in Task |-> IF t \in Expired /\ Exists(t) THEN hash[t].msg ELSE Nil]]
    /\ NoFault
    /\ UNCHANGED <<vars, status, worker, workers, beat, requests, crashes, frac>>

\* A call that fails is logged; the task is listed again at the next run.
Recover(s, t) ==
    LET m == listed[s][t] IN
    /\ m # Nil
    /\ listed' = [listed EXCEPT ![s][t] = Nil]
    /\ \/ /\ Apply(IF m >= MaxRetry THEN "archive" ELSE "retry", t, m)
          /\ NoFault \/ Fault
       \/ UNCHANGED vars /\ (IF t \in active THEN Fault ELSE NoFault)
    /\ UNCHANGED <<status, worker, workers, beat, requests, crashes, frac>>

-----------------------------------------------------------------------------
(* The syncer retries a request until it succeeds or its deadline is over;  *)
(* when the server stops, once more.                                        *)

WorkersIdle(s) == \A w \in WorkersOf(s) : worker[w].phase = "idle"

\* A call with a cancelled context fails before it is sent.  A request whose call
\* fails is kept: before its script ran, nothing has changed.
SyncApply(s, r) ==
    /\ r \in requests[s]
    /\ r.deadline >= 0
    /\ ~r.cancelled
    /\ Apply(r.op, r.task, r.msg)
    /\ \/ NoFault /\ requests' = [requests EXCEPT ![s] = @ \ {r}]
       \/ Fault /\ UNCHANGED requests
    /\ UNCHANGED <<status, worker, workers, beat, listed, crashes, frac>>

SyncDrop(s, r) ==
    /\ r \in requests[s]
    /\ r.deadline < 0 \/ (status[s] = "stopping" /\ WorkersIdle(s))
    /\ requests' = [requests EXCEPT ![s] = @ \ {r}]
    /\ NoFault
    /\ UNCHANGED <<vars, status, worker, workers, beat, listed, crashes, frac>>

-----------------------------------------------------------------------------
(* Clients, the forwarder, the life of a server, and the clock.             *)

EnqueueTask(t) ==
    /\ Enqueue(t, 0)
    /\ NoFault
    /\ UNCHANGED <<goVars, crashes, frac>>

\* Mutant: no forwarder while the server is up.
ForwardWhenStopping(s) ==
    /\ status[s] = "stopping"
    /\ ForwardRetry(Unix(0))
    /\ NoFault
    /\ UNCHANGED <<goVars, crashes, frac>>

Forward(s) ==
    /\ status[s] = "up"
    /\ ForwardRetry(Unix(0))
    /\ NoFault
    /\ UNCHANGED <<goVars, crashes, frac>>

\* Shutdown: stop the forwarder and the processor, then wait for the workers.
Shutdown(s) ==
    /\ status[s] = "up"
    /\ crashes < MaxCrashes
    /\ status' = [status EXCEPT ![s] = "stopping"]
    /\ crashes' = crashes + 1
    /\ NoFault
    /\ UNCHANGED <<vars, worker, workers, beat, listed, requests, frac>>

\* What a process that ends leaves behind: nothing but Redis.
Gone(s) ==
    /\ status' = [status EXCEPT ![s] = "down"]
    /\ worker' = [w \in Worker |-> IF ServerOf[w] = s THEN Idle ELSE worker[w]]
    /\ workers' = [workers EXCEPT ![s] = [t \in Task |-> Nil]]
    /\ beat' = [beat EXCEPT ![s] = NoBeat]
    /\ listed' = [listed EXCEPT ![s] = [t \in Task |-> Nil]]
    /\ requests' = [requests EXCEPT ![s] = {}]
    /\ NoFault
    /\ UNCHANGED <<vars, frac>>

\* Then the recoverer, the syncer and at last the heartbeater.
Stopped(s) ==
    /\ status[s] = "stopping"
    /\ WorkersIdle(s)
    /\ \A t \in Task : listed[s][t] = Nil
    /\ requests[s] = {}
    /\ beat[s].stage = "idle"
    /\ Gone(s)
    /\ UNCHANGED crashes

Crash(s) ==
    /\ status[s] # "down"
    /\ crashes < MaxCrashes
    /\ crashes' = crashes + 1
    /\ Gone(s)

Restart(s) ==
    /\ status[s] = "down"
    /\ status' = [status EXCEPT ![s] = "up"]
    /\ NoFault
    /\ UNCHANGED <<vars, worker, workers, beat, listed, requests, crashes, frac>>

Older(x, floor) == IF x # Nil /\ x > floor THEN x - 1 ELSE x
OlderZ(z, floor) == [t \in Task |-> Older(z[t], floor)]

\* The ages from which Expired, whose cutoff is cut too, takes every lease, and the
\* forwarder every task of retry.
LeaseFloor == 1 - Cutoff - Second
RetryFloor == 1 - Second

\* Deadlines matter until they are over.  No janitor runs here and no trim looks
\* at ages, so completed and archived do not age.
Tick ==
    /\ frac' = (frac + 1) % Second
    /\ lease' = OlderZ(lease, LeaseFloor)
    /\ retry' = OlderZ(retry, RetryFloor)
    /\ worker' = [w \in Worker |->
                    [worker[w] EXCEPT !.expireAt = Older(worker[w].expireAt, -1),
                                      !.deadline = Older(worker[w].deadline, -1)]]
    /\ beat' = [s \in Servers |-> [beat[s] EXCEPT !.until = Older(beat[s].until, -1)]]
    /\ requests' = [s \in Servers |->
                      {[r EXCEPT !.deadline = Older(r.deadline, -1)] : r \in requests[s]}]
    /\ UNCHANGED <<hash, pending, active, scheduled, archived, completed, groupVars,
                   lock, paused, statVars, status, workers, listed, crashes, faults>>

-----------------------------------------------------------------------------
ServerStep(s) ==
    \/ DequeueReplyLost(s)
    \/ BeatCheck(s) \/ BeatExtend(s) \/ BeatReset(s)
    \/ ListExpired(s)
    \/ \E t \in Task : Recover(s, t)
    \/ \E r \in requests[s] : SyncApply(s, r) \/ SyncDrop(s, r)
    \/ Forward(s)
    \/ Shutdown(s) \/ Stopped(s) \/ Crash(s) \/ Restart(s)
WorkerStep(w) ==
    DequeueTask(w) \/ Starting(w) \/ Return(w) \/ Write(w) \/ Finish(w)

ServerNext ==
    \/ \E t \in Task : EnqueueTask(t)
    \/ \E w \in Worker : WorkerStep(w)
    \/ \E s \in Servers : ServerStep(s)
    \/ Tick

ServerSpec == ServerInit /\ [][ServerNext]_allVars

\* Every goroutine that can step does in the end, timers fire, a handler
\* returns (its context has a deadline), a stopped server is started again.
\* The heartbeater's select serves its channels as well as its timer, so a
\* worker that waits for it again and again is received in the end.
Fairness ==
    /\ WF_allVars(Tick)
    /\ \A w \in Worker :
        /\ WF_allVars(DequeueTask(w))
        /\ SF_allVars(Starting(w))
        /\ WF_allVars(Return(w))
        /\ WF_allVars(Write(w))
        /\ SF_allVars(Finish(w))
    /\ \A s \in Servers :
        /\ WF_allVars(BeatExtend(s))
        /\ WF_allVars(BeatReset(s))
        /\ WF_allVars(ListExpired(s))
        /\ \A t \in Task : WF_allVars(Recover(s, t))
        /\ WF_allVars(\E r \in requests[s] : SyncApply(s, r) \/ SyncDrop(s, r))
        /\ WF_allVars(Forward(s))
        /\ WF_allVars(Stopped(s))
        /\ WF_allVars(Restart(s))
FairSpec == ServerSpec /\ Fairness

-----------------------------------------------------------------------------
(* Properties.                                                              *)

\* w runs its task under a lease that it takes for valid.
Holds(w) == worker[w].phase \in {"starting", "running", "writing"} /\ IsValid(w)

\* With one server, and while no archived task is trimmed, a worker that takes its
\* lease for valid has it: the task is active, and the lease in Redis, which is in
\* whole seconds, ends less than a second before the worker's own.  So whatever the
\* worker writes is about its own execution, never about a later one.
LeaseBacked ==
    \A w \in Worker : Holds(w) =>
        LET t == worker[w].task IN
        t \in active /\ lease[t] > worker[w].expireAt - Second

\* With one server, and while no archived task is trimmed, no two workers run a
\* task, each under a valid lease.
LeaseExclusive ==
    \A v, w \in Worker : v # w /\ Holds(v) /\ Holds(w) =>
        worker[v].task # worker[w].task

\* A task is never stuck: it is done, or completed or archived in the end,
\* whatever crashes and lost calls its executions meet.  The recoverer finds what a
\* crash or a lost reply of Dequeue left active without a worker.
Ended(t) == StateOf(t) \in {Nil, "archived", "completed"}
EverySettled == \A t \in Task : Exists(t) ~> Ended(t)

-----------------------------------------------------------------------------
(* What the code does not keep; see section 5 of the README.                *)

\* The recoverer, which fails a task with ErrLeaseExpired, takes none away from a
\* worker whose lease is valid.
RecoversExpired ==
    [][\A s \in Servers, t \in Task :
          listed[s][t] # Nil /\ listed'[s][t] = Nil /\ t \in active \ active'
          => ~ \E w \in Worker : Holds(w) /\ worker[w].task = t]_allVars

\* A request that waits in the syncer can be applied until its deadline.
SyncCanApply ==
    \A s \in Servers : \A r \in requests[s] :
        r.deadline >= 0 /\ r.task \in active => ENABLED SyncApply(s, r)

\* A beat extends the lease of every running worker.
RunningTracked ==
    \A w \in Worker : worker[w].phase = "running" =>
        workers[ServerOf[w]][worker[w].task] = w
=============================================================================
