---------------------------- MODULE ServerProofs ----------------------------
(***************************************************************************)
(* Proofs about the leases of Server, for one server with any workers,     *)
(* tasks, lease durations, crashes and failed calls.  RdbProofs shows what *)
(* the scripts keep; here they are called by the goroutines of Server.     *)
(***************************************************************************)
EXTENDS Server, RdbProofs

\* The theorems are about one server: two recoverers list the same task, and the
\* later one takes it from its next worker (RecoversExpired).
SingleServer == \E s \in Servers : Servers = {s}

\* No archived task is trimmed: a task ID that is archived, trimmed and enqueued
\* again within the life of one request of the syncer is archived by that request.
ArchiveKeeps == Cardinality(Task) < MaxArchiveSize

-----------------------------------------------------------------------------
(* The clock: what is stored in Redis is cut to whole seconds.              *)

ClockOK == frac \in 0 .. Second - 1

\* Unix cuts less than a second.
LEMMA UnixFacts ==
    ASSUME ClockOK, NEW d \in Int
    PROVE  Unix(d) \in Int /\ Unix(d) <= d /\ Unix(d) > d - Second
  <1>1. Second \in Nat \ {0} /\ frac + d \in Int
    BY ServerAssumption DEF ClockOK
  <1>2. (frac + d) % Second \in 0 .. Second - 1
    BY <1>1
  <1> QED BY <1>1, <1>2 DEF Unix

\* The clock stays within the second.
LEMMA ClockNext ==
    ASSUME ClockOK, [ServerNext]_allVars
    PROVE  ClockOK'
  <1>1. CASE Tick
    <2>1. Second \in Nat \ {0} /\ frac + 1 \in Int
      BY ServerAssumption DEF ClockOK
    <2>2. (frac + 1) % Second \in 0 .. Second - 1
      BY <2>1
    <2> QED BY <1>1, <2>2 DEF Tick, ClockOK
  <1>2. ASSUME NEW t \in Task, EnqueueTask(t) PROVE UNCHANGED frac
    BY <1>2 DEF EnqueueTask
  <1>3. ASSUME NEW w \in Worker, WorkerStep(w) PROVE UNCHANGED frac
    BY <1>3 DEF WorkerStep, DequeueTask, Starting, Return, Write, Finish
  <1>4. ASSUME NEW s \in Servers, ServerStep(s) PROVE UNCHANGED frac
    BY <1>4 DEF ServerStep, DequeueReplyLost, BeatCheck, BeatExtend, BeatReset, ListExpired,
                Recover, SyncApply, SyncDrop, Forward, Shutdown, Stopped, Crash, Gone, Restart
  <1> QED BY <1>1, <1>2, <1>3, <1>4 DEF ServerNext, allVars, ClockOK

-----------------------------------------------------------------------------
(* The queue: what a step of it does to active, lease and the archive.      *)

\* The clock of Server is at 0 whenever a task is archived.
ArchivedAtZero == \A t \in Task : archived[t] # Nil => archived[t] >= 0
QueueInv == IInv /\ ArchivedAtZero

\* An archived task stays archived.
ArchivedKept ==
    \A t \in Task : StateOf(t) = "archived" => StateOf(t)' = "archived"

\* t is dequeued under a fresh lease.
Taken(t) ==
    /\ t \notin active
    /\ active' = active \cup {t}
    /\ lease' = [lease EXCEPT ![t] = Unix(LeaseDuration)]

\* A trim removes nothing while there are fewer tasks than the archive holds.
LEMMA NothingTrimmed ==
    ASSUME ArchiveKeeps, NEW z \in ZSet, \A t \in Task : z[t] # Nil => z[t] >= 0,
           NEW gone \in Trims(z, 0)
    PROVE  gone = {}
  <1>1. UpTo(z, 0 - ArchivedExpiration) = {}
    BY BoundsAssumption, NilAssumption DEF UpTo, Members, ZSet
  <1>2. /\ IsFiniteSet(Task) /\ Members(z) \subseteq Task
        /\ Cardinality(Members(z)) <= Cardinality(Task)
        /\ Cardinality(Task) \in Nat /\ Cardinality(Members(z)) \in Nat
    BY TaskAssumption, FS_Subset, FS_CardinalityType DEF Members
  <1>3. Members(z) \ {} = Members(z)
    OBVIOUS
  <1>4. Cardinality(Members(z)) - MaxArchiveSize + 1 <= 0
    BY <1>2, BoundsAssumption DEF ArchiveKeeps
  <1> QED BY <1>1, <1>3, <1>4 DEF Trims

\* An enqueue takes an ID without a hash, so it disturbs no task that is there.
LEMMA EnqueueStep ==
    ASSUME QueueInv, NEW t \in Task, Enqueue(t, 0)
    PROVE  QueueInv' /\ UNCHANGED <<active, lease>> /\ ArchivedKept
  <1>1. 0 \in Msg
    BY RetriedAssumption, ServerAssumption
  <1>2. IInv'
    BY <1>1, EnqueueInv DEF QueueInv
  <1>3. UNCHANGED <<active, lease, archived>>
    BY DEF Enqueue, zsetVars
  <1>4. ArchivedKept
    BY NilAssumption DEF QueueInv, IInv, TypeOK, Enqueue, ArchivedKept, StateOf, Exists, States
  <1> QED BY <1>2, <1>3, <1>4 DEF QueueInv, ArchivedAtZero

\* Dequeue takes a task that is not active, with its message.
LEMMA DequeueStep ==
    ASSUME QueueInv, ClockOK, Dequeue(Unix(LeaseDuration))
    PROVE  /\ QueueInv' /\ ArchivedKept
           /\ \E t \in Task : Taken(t) /\ hash[t].msg \in Msg
  <1>1. IInv'
    <2>1. Unix(LeaseDuration) \in Int
      BY ServerAssumption, UnixFacts
    <2> QED BY <2>1, DequeueInv DEF QueueInv
  <1>2. PICK h \in pending :
            /\ active' = active \cup {h.id}
            /\ hash' = [hash EXCEPT ![h.id] = HSetState(h.id, "active")]
            /\ lease' = [lease EXCEPT ![h.id] = Unix(LeaseDuration)]
            /\ archived' = archived
    BY DEF Dequeue, Heads, zsetVars
  <1>3. h.id \in Task /\ HasState(h.id, "pending")
    BY DEF QueueInv, IInv, Consistent, TypeOK, IndexMatchesState, QueueIndex, Entry
  <1>4. h.id \notin active
    BY <1>3 DEF QueueInv, IInv, Consistent, IndexMatchesState, QueueIndex, HasState
  <1>5. hash[h.id].msg \in Msg
    BY <1>3 DEF QueueInv, IInv, TypeOK, HasState, Exists, Hash
  <1>6. ArchivedKept
    BY <1>2, <1>3, NilAssumption
       DEF QueueInv, IInv, TypeOK, ArchivedKept, StateOf, Exists, HasState
  <1> QED BY <1>1, <1>2, <1>3, <1>4, <1>5, <1>6 DEF QueueInv, ArchivedAtZero, Taken
\* A call that ends an execution takes its task, and no other, from active; after
\* Archive the task is archived.
LEMMA ApplyStep ==
    ASSUME QueueInv, ClockOK, ArchiveKeeps, NEW t \in Task, NEW m \in Msg, NEW op \in Op,
           op = "retry" => m < MaxRetry, Apply(op, t, m)
    PROVE  /\ QueueInv' /\ LeaveActive(t) /\ ArchivedKept
           /\ op = "archive" => StateOf(t)' = "archived"
  <1>1. StateOf(t) = "active" /\ Leased(t) /\ LeaveActive(t) /\ Exists(t)
    BY DEF QueueInv, IInv, Consistent, IndexMatchesState, QueueIndex, LeaseMatchesActive,
           HasState, StateOf, Leased, LeaveActive, Apply, Done, MarkAsComplete, Requeue,
           Retry, Archive
  <1>2. hash \in [Task -> Hash \cup {Nil}] /\ archived \in ZSet
    BY DEF QueueInv, IInv, TypeOK
  <1>3. ASSUME archived' = archived,
               \A u \in Task : u # t => hash'[u] = hash[u]
        PROVE  ArchivedKept /\ ArchivedAtZero'
    BY <1>1, <1>3 DEF QueueInv, ArchivedKept, ArchivedAtZero, StateOf, Exists
  <1>4. CASE op = "done" /\ Done(t, m)
    <2>1. IInv'
      BY <1>4, DoneInv DEF QueueInv
    <2> QED BY <1>1, <1>2, <1>3, <1>4, <2>1 DEF Done, QueueInv, zsetVars
  <1>5. CASE op = "complete" /\ MarkAsComplete(t, m, Retention)
    <2>1. IInv'
      BY <1>5, MarkAsCompleteInv, ServerAssumption DEF QueueInv
    <2> QED BY <1>1, <1>2, <1>3, <1>5, <2>1 DEF MarkAsComplete, QueueInv
  <1>6. CASE op = "requeue" /\ Requeue(t)
    <2>1. IInv'
      BY <1>6, RequeueInv DEF QueueInv
    <2> QED BY <1>1, <1>2, <1>3, <1>6, <2>1 DEF Requeue, QueueInv, zsetVars
  <1>7. CASE op = "retry" /\ \E f \in IsFailure :
                               Retry(t, IF f THEN m + 1 ELSE m, Unix(RetryDelay), f)
    <2>1. PICK f \in BOOLEAN : Retry(t, IF f THEN m + 1 ELSE m, Unix(RetryDelay), f)
      BY <1>7, ServerAssumption
    <2>2. (IF f THEN m + 1 ELSE m) \in Msg
      BY <1>7, ServerAssumption, RetriedAssumption
    <2>3. IInv'
      <3>1. Unix(RetryDelay) \in Int
        BY ServerAssumption, UnixFacts
      <3> QED BY <2>1, <2>2, <3>1, RetryInv DEF QueueInv
    <2> QED BY <1>1, <1>2, <1>3, <1>7, <2>1, <2>3 DEF Retry, QueueInv
  <1>8. CASE op = "archive" /\ Archive(t, m, 0)
    <2>1. IInv'
      BY <1>8, ArchiveInv DEF QueueInv
    <2> DEFINE z == [archived EXCEPT ![t] = 0]
    <2>2. z \in ZSet /\ \A u \in Task : z[u] # Nil => z[u] >= 0
      BY <1>2 DEF ZSet, QueueInv, ArchivedAtZero
    <2>3. archived' = ZRem(z, {})
          /\ hash' = [u \in Task |-> IF u = t THEN HSetMsgState(t, m, "archived") ELSE hash[u]]
      <3>1. PICK gone \in Trims(z, 0) :
              /\ archived' = ZRem(z, gone)
              /\ hash' = [u \in Task |->
                    IF u = t THEN IF t \in gone THEN NewHash(m, "archived")
                                  ELSE HSetMsgState(t, m, "archived")
                    ELSE IF u \in gone THEN Nil ELSE hash[u]]
        BY <1>1, <1>8 DEF Archive
      <3>2. gone = {}
        BY <2>2, NothingTrimmed
      <3> QED BY <3>1, <3>2
    <2>4. ArchivedAtZero'
      BY <2>2, <2>3 DEF ArchivedAtZero, ZRem
    <2>5. StateOf(t)' = "archived" /\ ArchivedKept
      <3>1. HSetMsgState(t, m, "archived") # Nil
            /\ HSetMsgState(t, m, "archived").state = "archived"
        BY <1>1, <1>2, HSetMsgFacts, NilAssumption DEF States, QueueInv, IInv
      <3> QED BY <1>2, <2>3, <3>1 DEF StateOf, Exists, ArchivedKept
    <2> QED BY <1>1, <1>8, <2>1, <2>4, <2>5 DEF QueueInv
  <1> QED BY <1>4, <1>5, <1>6, <1>7, <1>8 DEF Apply

\* The forwarder moves tasks of retry only.
LEMMA ForwardStep ==
    ASSUME QueueInv, ClockOK, ForwardRetry(Unix(0))
    PROVE  QueueInv' /\ UNCHANGED <<active, lease>> /\ ArchivedKept
  <1>1. IInv'
    <2>1. Unix(0) \in Int
      BY UnixFacts
    <2> QED BY <2>1, ForwardRetryInv DEF QueueInv
  <1>2. PICK ts \in SUBSET Members(retry) : ForwardMoved(retry, ts, Unix(0))
    BY DEF ForwardRetry, ForwardBatch, LowestOf, UpTo
  <1>3. \A t \in ts : StateOf(t) = "retry"
    BY DEF QueueInv, IInv, Consistent, IndexMatchesState, QueueIndex, HasState, StateOf,
           Members
  <1>4. \A t \in Task \ ts : hash'[t] = hash[t]
    BY <1>2 DEF ForwardMoved, Grouped
  <1>5. ArchivedKept
    BY <1>3, <1>4 DEF ArchivedKept, StateOf, Exists
  <1>6. UNCHANGED <<active, lease, archived>>
    BY <1>2 DEF ForwardMoved
  <1> QED BY <1>1, <1>5, <1>6 DEF QueueInv, ArchivedAtZero

\* An extension changes nothing but leases that are there.
LEMMA ExtendStep ==
    ASSUME QueueInv, ClockOK, NEW ts \in SUBSET Task, ExtendLease(ts, Unix(LeaseDuration))
    PROVE  /\ QueueInv' /\ UNCHANGED active /\ ArchivedKept
           /\ \A t \in Task : lease'[t] = IF t \in ts /\ lease[t] # Nil
                                          THEN Unix(LeaseDuration) ELSE lease[t]
  <1>1. IInv'
    <2>1. Unix(LeaseDuration) \in Int
      BY ServerAssumption, UnixFacts
    <2> QED BY <2>1, ExtendLeaseInv DEF QueueInv
  <1> QED BY <1>1 DEF ExtendLease, zsetVars, QueueInv, ArchivedAtZero, ArchivedKept, StateOf,
                      Exists

\* A timestamp ages by one, down to its floor; nil does not.
LEMMA OlderFacts ==
    ASSUME NEW floor \in Int
    PROVE  /\ Older(Nil, floor) = Nil
           /\ \A x \in Int : /\ Older(x, floor) = IF x > floor THEN x - 1 ELSE x
                             /\ Older(x, floor) \in Int
    BY NilAssumption DEF Older

\* So does the clock, which ages leases and the scores of retry.
LEMMA TickStep ==
    ASSUME QueueInv, Tick
    PROVE  /\ QueueInv' /\ UNCHANGED active /\ ArchivedKept
           /\ \A t \in Task : lease'[t] = Older(lease[t], LeaseFloor)
  <1> USE NilAssumption, ServerAssumption
  <1>1. lease \in ZSet /\ retry \in ZSet
    BY DEF QueueInv, IInv, TypeOK
  <1>2. /\ lease' \in ZSet /\ retry' \in ZSet
        /\ \A t \in Task : /\ lease'[t] = Older(lease[t], LeaseFloor)
                           /\ lease'[t] # Nil <=> lease[t] # Nil
                           /\ retry'[t] # Nil <=> retry[t] # Nil
    <2>1. /\ lease' = [t \in Task |-> Older(lease[t], LeaseFloor)]
          /\ retry' = [t \in Task |-> Older(retry[t], RetryFloor)]
      BY DEF Tick, OlderZ
    <2>2. LeaseFloor \in Int /\ RetryFloor \in Int
      BY DEF LeaseFloor, RetryFloor
    <2>3. \A t \in Task : /\ lease[t] = Nil \/ lease[t] \in Int
                          /\ retry[t] = Nil \/ retry[t] \in Int
      BY <1>1 DEF ZSet
    <2>4. \A t \in Task : /\ Older(lease[t], LeaseFloor) \in Int \cup {Nil}
                          /\ Older(lease[t], LeaseFloor) # Nil <=> lease[t] # Nil
                          /\ Older(retry[t], RetryFloor) \in Int \cup {Nil}
                          /\ Older(retry[t], RetryFloor) # Nil <=> retry[t] # Nil
      BY <2>2, <2>3, OlderFacts
    <2> QED BY <2>1, <2>4 DEF ZSet
  <1>3. UNCHANGED <<hash, pending, active, scheduled, archived, completed, group, groups,
                    aggset, aggsets, lock, paused, processed, failed>>
    BY DEF Tick, groupVars, statVars
  <1>4. TypeOK'
    BY <1>2, <1>3 DEF QueueInv, IInv, TypeOK
  <1>5. IndexMatchesState' /\ NoTaskLost'
    BY <1>2, <1>3 DEF QueueInv, IInv, Consistent, IndexMatchesState, QueueIndex, GroupIndex,
                      HasState, Exists, NoTaskLost, Filed, Ids
  <1>6. NoDuplicatePending' /\ LeaseMatchesActive' /\ AggregatedOnce'
    BY <1>2, <1>3 DEF QueueInv, IInv, Consistent, NoDuplicatePending, LeaseMatchesActive,
                      AggregatedOnce
  <1> QED BY <1>2, <1>3, <1>4, <1>5, <1>6 DEF QueueInv, IInv, Consistent, ArchivedAtZero,
                                              ArchivedKept, StateOf, Exists
-----------------------------------------------------------------------------
(* The inductive invariant.                                                 *)

GoTypes ==
    /\ status \in [Servers -> {"up", "stopping", "down"}]
    /\ worker \in [Worker -> WorkerState]
    /\ workers \in [Servers -> [Task -> Worker \cup {Nil}]]
    /\ beat \in [Servers -> Beat]
    /\ listed \in [Servers -> [Task -> Msg \cup {Nil}]]
    /\ requests \in [Servers -> SUBSET Request]
    /\ crashes \in 0 .. MaxCrashes
    /\ faults \in 0 .. MaxFaults

\* A worker has a task and its message until it has written the result, and the
\* context of its call ends no later than its lease.
WorkerOK(r) ==
    /\ r.expireAt <= LeaseDuration
    /\ r.phase # "idle" => r.task \in Task
    /\ r.phase \in {"starting", "running", "writing"} => r.msg \in Msg
    /\ r.phase = "writing" =>
        /\ r.op \in Op
        /\ r.op = "retry" => r.msg < MaxRetry
        /\ r.deadline <= r.expireAt
WorkersOK == \A w \in Worker : WorkerOK(worker[w])

\* The worker that the heartbeater has under a task ID runs that task.
Tracked ==
    \A s \in Servers, t \in Task : workers[s][t] # Nil =>
        /\ ServerOf[workers[s][t]] = s
        /\ worker[workers[s][t]].task = t
        /\ worker[workers[s][t]].phase \in {"running", "writing", "finishing"}

\* Until the heartbeater resets the leases that it has extended, Redis has them,
\* cut to whole seconds.
BeatOK(s, t, w) ==
    beat[s].stage = "reset" /\ t \in beat[s].ids /\ workers[s][t] = w /\ IsValid(w) =>
        /\ worker[w].expireAt <= beat[s].until
        /\ Holds(w) => lease[t] > beat[s].until - Second
BeatsOK ==
    /\ \A s \in Servers : beat[s].until <= LeaseDuration
    /\ \A s \in Servers, t \in Task, w \in Worker : BeatOK(s, t, w)

\* Nobody runs a task under a valid lease while it waits for the recoverer.
Held(t) == \E w \in Worker : Holds(w) /\ worker[w].task = t
ListedOK == \A s \in Servers, t \in Task : listed[s][t] # Nil => t \in active /\ ~Held(t)

\* A request that the syncer can still apply was applied already, or is about a
\* lease that nobody holds and the recoverer has not found expired.
Live(r) == ~r.cancelled /\ r.deadline >= 0
Owed(r) ==
    /\ r.task \in active
    /\ lease[r.task] > r.deadline - Second
    /\ ~Held(r.task)
    /\ \A s \in Servers : listed[s][r.task] = Nil
RequestOK(r) ==
    /\ r.cancelled <=> r.op # "archive"
    /\ r.deadline <= LeaseDuration
    /\ Live(r) => StateOf(r.task) = "archived" \/ Owed(r)
RequestsOK == \A s \in Servers : \A r \in requests[s] : RequestOK(r)

LeaseInv ==
    /\ QueueInv
    /\ GoTypes /\ WorkersOK /\ Tracked /\ BeatsOK
    /\ LeaseBacked /\ LeaseExclusive
    /\ ListedOK /\ RequestsOK

-----------------------------------------------------------------------------
(* Steps by their effect on leases.                                         *)

\* Whoever holds a lease after the step held it before.
HoldersKept ==
    \A w \in Worker : Holds(w)' =>
        /\ Holds(w)
        /\ worker'[w].task = worker[w].task
        /\ worker'[w].expireAt = worker[w].expireAt

\* A lease in Redis is renewed or not touched.
LeaseRenewed(t) ==
    \/ lease'[t] = lease[t]
    \/ lease[t] # Nil /\ lease'[t] \in Int /\ lease'[t] > LeaseDuration - Second

\* A holder's task is active and has a lease in Redis.
LEMMA HolderFacts ==
    ASSUME LeaseInv, NEW w \in Worker, Holds(w)
    PROVE  /\ worker[w].task \in Task
           /\ worker[w].task \in active
           /\ lease[worker[w].task] \in Int
           /\ lease[worker[w].task] > worker[w].expireAt - Second
           /\ worker[w].expireAt \in 0 .. LeaseDuration
           /\ StateOf(worker[w].task) = "active"
  <1>1. worker[w].task \in Task /\ worker[w].expireAt \in 0 .. LeaseDuration
    BY ServerAssumption
       DEF LeaseInv, GoTypes, WorkersOK, WorkerOK, WorkerState, Holds, IsValid
  <1>2. worker[w].task \in active /\ lease[worker[w].task] > worker[w].expireAt - Second
    BY DEF LeaseInv, LeaseBacked
  <1>3. lease[worker[w].task] \in Int
    BY <1>1, <1>2 DEF LeaseInv, QueueInv, IInv, Consistent, LeaseMatchesActive, TypeOK, ZSet
  <1>4. StateOf(worker[w].task) = "active"
    BY <1>1, <1>2 DEF LeaseInv, QueueInv, IInv, Consistent, IndexMatchesState, QueueIndex,
                      HasState, StateOf
  <1> QED BY <1>1, <1>2, <1>3, <1>4

\* The recoverer and the syncer have no more to do than before.
ListShrinks ==
    \A s \in Servers, t \in Task : listed'[s][t] = Nil \/ listed'[s][t] = listed[s][t]
RequestsKept == \A q \in Request : RequestOK(q) => RequestOK(q)'

\* Steps that take no task from active and give none to a worker.
LEMMA Quiet ==
    ASSUME LeaseInv, active' = active, HoldersKept, ArchivedKept, ListShrinks,
           \A t \in Task : LeaseRenewed(t)
    PROVE  LeaseBacked' /\ LeaseExclusive' /\ ListedOK' /\ RequestsKept
  <1>1. LeaseBacked'
    <2>1. ASSUME NEW w \in Worker, Holds(w)'
          PROVE  worker'[w].task \in active' /\ lease'[worker'[w].task] > worker'[w].expireAt - Second
      <3>1. Holds(w) /\ worker'[w].task = worker[w].task
            /\ worker'[w].expireAt = worker[w].expireAt
        BY <2>1 DEF HoldersKept
      <3>2. LeaseRenewed(worker[w].task)
        BY <3>1, HolderFacts
      <3> QED BY <3>1, <3>2, HolderFacts, ServerAssumption DEF LeaseRenewed
    <2> QED BY <2>1 DEF LeaseBacked
  <1>2. LeaseExclusive'
    BY DEF LeaseInv, LeaseExclusive, HoldersKept
  <1>3. \A t : Held(t)' => Held(t)
    BY DEF Held, HoldersKept
  <1>4. ListedOK'
    BY <1>3 DEF LeaseInv, ListedOK, ListShrinks
  <1>5. ASSUME NEW r \in Request, RequestOK(r)
        PROVE  RequestOK(r)'
    <2>1. r.task \in Task
      BY DEF Request
    <2>2. Owed(r) => Owed(r)'
      <3>1. Owed(r) => lease[r.task] \in Int
        BY <2>1 DEF Owed, LeaseInv, QueueInv, IInv, Consistent, LeaseMatchesActive, TypeOK, ZSet
      <3> QED BY <1>3, <1>5, <2>1, <3>1, ServerAssumption
              DEF Owed, LeaseRenewed, RequestOK, Request, ListShrinks
    <2> QED BY <1>5, <2>1, <2>2 DEF RequestOK, Live, ArchivedKept
  <1> QED BY <1>1, <1>2, <1>4, <1>5 DEF RequestsKept

\* The requests that stay are as good as they were.
LEMMA RequestsStay ==
    ASSUME LeaseInv, RequestsKept, \A s \in Servers : requests'[s] \subseteq requests[s]
    PROVE  RequestsOK'
    BY DEF LeaseInv, GoTypes, RequestsOK, RequestsKept

\* A beat in progress is not disturbed by a step that changes neither the
\* heartbeater nor the leases of the workers it knows, but to renew them in Redis.
LEMMA BeatsKept ==
    ASSUME LeaseInv,
           \A s \in Servers : \/ beat'[s] = NoBeat
                             \/ /\ beat'[s] = beat[s]
                                /\ beat[s].stage = "reset" => workers'[s] = workers[s],
           \A s \in Servers, t \in Task, w \in Worker :
             workers[s][t] = w /\ IsValid(w)' =>
                /\ IsValid(w) /\ worker'[w].expireAt = worker[w].expireAt
                /\ Holds(w)' => Holds(w) /\ LeaseRenewed(t)
    PROVE  BeatsOK'
  <1>1. ASSUME NEW s \in Servers, NEW t \in Task, NEW w \in Worker
        PROVE  BeatOK(s, t, w)'
    <2>1. BeatOK(s, t, w) /\ beat[s].until \in Int /\ beat[s].until <= LeaseDuration
      BY DEF LeaseInv, BeatsOK, GoTypes, Beat
    <2> QED BY <2>1, ServerAssumption DEF BeatOK, LeaseRenewed, NoBeat
  <1>2. NoBeat.until <= LeaseDuration
    BY ServerAssumption DEF NoBeat
  <1> QED BY <1>1, <1>2 DEF BeatsOK, LeaseInv
-----------------------------------------------------------------------------
(* One lemma per action.                                                    *)

\* A fault is counted, or none happens.
LEMMA FaultTypes ==
    ASSUME LeaseInv, Fault \/ NoFault
    PROVE  faults' \in 0 .. MaxFaults
    BY ServerAssumption DEF LeaseInv, GoTypes, Fault, NoFault

\* The queue and what each state says of it are the same when its keys are.
LEMMA QueueSame ==
    ASSUME QueueInv, UNCHANGED vars
    PROVE  /\ QueueInv' /\ UNCHANGED <<active, lease>> /\ ArchivedKept
           /\ \A t \in Task : LeaseRenewed(t)
    BY StutterInv DEF QueueInv, ArchivedAtZero, ArchivedKept, StateOf, Exists, LeaseRenewed,
                      vars, zsetVars

\* A step of the queue that no goroutine of the server takes part in.
LEMMA QueueOnly ==
    ASSUME LeaseInv, QueueInv', ArchivedKept, UNCHANGED <<active, lease, goVars, crashes>>,
           NoFault
    PROVE  LeaseInv'
  <1>1. GoTypes' /\ WorkersOK' /\ Tracked'
    BY FaultTypes DEF LeaseInv, GoTypes, WorkersOK, Tracked, goVars
  <1>2. HoldersKept /\ \A w \in Worker : IsValid(w)' = IsValid(w) /\ Holds(w)' = Holds(w)
    BY DEF HoldersKept, Holds, IsValid, goVars
  <1>3. \A t \in Task : LeaseRenewed(t)
    BY DEF LeaseRenewed
  <1>4. LeaseBacked' /\ LeaseExclusive' /\ ListedOK' /\ RequestsOK'
    BY <1>2, <1>3, Quiet, RequestsStay DEF goVars, ListShrinks
  <1>5. BeatsOK'
    BY <1>2, <1>3, BeatsKept DEF goVars
  <1> QED BY <1>1, <1>4, <1>5 DEF LeaseInv

\* A client enqueues a task.
LEMMA EnqueueTaskInv ==
    ASSUME LeaseInv, NEW t \in Task, EnqueueTask(t)
    PROVE  LeaseInv'
    BY EnqueueStep, QueueOnly DEF EnqueueTask, LeaseInv, goVars

\* The forwarder runs.
LEMMA ForwardTaskInv ==
    ASSUME LeaseInv, ClockOK, NEW s \in Servers, Forward(s)
    PROVE  LeaseInv'
    BY ForwardStep, QueueOnly DEF Forward, LeaseInv, goVars

\* A step of a worker that changes its phase only, or leaves its task, and may
\* change what the heartbeater knows of it while no beat is in progress.
LEMMA WorkerMoves ==
    ASSUME LeaseInv, NEW w \in Worker, NEW r \in WorkerState, WorkerOK(r),
           worker' = [worker EXCEPT ![w] = r],
           r.phase \in {"starting", "running", "writing"} =>
             /\ worker[w].phase \in {"starting", "running", "writing"}
             /\ r.task = worker[w].task,
           r.expireAt = worker[w].expireAt \/ r.expireAt = -1,
           UNCHANGED <<vars, status, beat, listed, requests, crashes>>, NoFault,
           workers' \in [Servers -> [Task -> Worker \cup {Nil}]], Tracked',
           \A s \in Servers : beat[s].stage = "reset" => workers'[s] = workers[s]
    PROVE  LeaseInv'
  <1>1. GoTypes' /\ WorkersOK'
    BY FaultTypes DEF LeaseInv, GoTypes, WorkersOK
  <1>2. \A v \in Worker : IsValid(v)' => IsValid(v) /\ worker'[v].expireAt = worker[v].expireAt
    BY DEF IsValid, LeaseInv, GoTypes
  <1>3. HoldersKept
    BY <1>2 DEF HoldersKept, Holds, LeaseInv, GoTypes
  <1>4. QueueInv' /\ UNCHANGED <<active, lease>> /\ ArchivedKept /\ \A t \in Task : LeaseRenewed(t)
    BY QueueSame DEF LeaseInv
  <1>5. LeaseBacked' /\ LeaseExclusive' /\ ListedOK' /\ RequestsOK'
    BY <1>3, <1>4, Quiet, RequestsStay DEF ListShrinks
  <1>6. BeatsOK'
    BY <1>2, <1>3, <1>4, BeatsKept DEF HoldersKept
  <1> QED BY <1>1, <1>4, <1>5, <1>6 DEF LeaseInv

\* A worker without a task.
LEMMA IdleFacts ==
    /\ Idle \in WorkerState /\ WorkerOK(Idle)
    /\ Idle.phase = "idle" /\ Idle.task = Nil /\ Idle.expireAt = -1
  <1>1. Idle \in WorkerState
    BY DEF Idle, WorkerState
  <1> QED BY <1>1, ServerAssumption DEF Idle, WorkerOK

\* A worker that has written its result, or lost its lease, keeps its task and its
\* lease until the heartbeater has received it.
LEMMA FinishingFacts ==
    ASSUME NEW w \in Worker, worker[w] \in WorkerState, worker[w].task \in Task,
           worker[w].expireAt <= LeaseDuration
    PROVE  LET r == Finishing(w) IN
           /\ r \in WorkerState /\ WorkerOK(r) /\ r.phase = "finishing"
           /\ r.task = worker[w].task /\ r.expireAt = worker[w].expireAt
  <1>1. worker[w].expireAt \in Int
    BY DEF WorkerState
  <1>2. /\ Finishing(w) \in WorkerState /\ Finishing(w).phase = "finishing"
        /\ Finishing(w).task = worker[w].task /\ Finishing(w).expireAt = worker[w].expireAt
    BY <1>1, IdleFacts DEF Finishing, WorkerState
  <1> QED BY <1>2 DEF WorkerOK

\* The handler returns.
LEMMA ReturnInv ==
    ASSUME LeaseInv, NEW w \in Worker, Return(w)
    PROVE  LeaseInv'
  <1> USE ServerAssumption, RetriedAssumption, NilAssumption
  <1>1. PICK op \in Op : Settle(w, op) /\ (op = "retry" => worker[w].msg < MaxRetry)
    <2>1. worker[w].msg \in 0 .. MaxRetry
      BY DEF Return, LeaseInv, WorkersOK, WorkerOK
    <2> QED BY <2>1 DEF Return, Succeed, Fail, Op
  <1>2. /\ worker[w] \in WorkerState /\ worker[w].phase = "running" /\ worker[w].task \in Task
        /\ worker[w].msg \in Msg /\ worker[w].expireAt <= LeaseDuration
    BY DEF Return, LeaseInv, GoTypes, WorkersOK, WorkerOK
  <1>3. UNCHANGED <<vars, status, workers, beat, listed, requests, crashes>> /\ NoFault
    BY DEF Return
  <1>4. ASSUME NEW r, r.task = worker[w].task, r.phase \in {"writing", "finishing"},
               worker' = [worker EXCEPT ![w] = r]
        PROVE  workers' \in [Servers -> [Task -> Worker \cup {Nil}]] /\ Tracked'
    BY <1>3, <1>4 DEF LeaseInv, Tracked, GoTypes
  <1>5. CASE IsValid(w)
    <2> DEFINE r == [worker[w] EXCEPT !.phase = "writing", !.op = op,
                                      !.deadline = worker[w].expireAt]
    <2>1. worker' = [worker EXCEPT ![w] = r]
      BY <1>1, <1>5 DEF Settle
    <2>2. /\ r \in WorkerState /\ r.phase = "writing" /\ r.op = op
          /\ r.task = worker[w].task /\ r.msg = worker[w].msg
          /\ r.expireAt = worker[w].expireAt /\ r.deadline = worker[w].expireAt
      BY <1>2 DEF WorkerState
    <2>3. WorkerOK(r)
      BY <1>1, <1>2, <2>2 DEF WorkerOK, WorkerState
    <2> HIDE DEF r
    <2> QED BY <1>2, <1>3, <1>4, <2>1, <2>2, <2>3, WorkerMoves
  <1>6. CASE ~IsValid(w)
    <2>1. PICK r : r = Finishing(w)
      OBVIOUS
    <2>2. /\ r \in WorkerState /\ r.phase = "finishing" /\ WorkerOK(r)
          /\ r.task = worker[w].task /\ r.expireAt = worker[w].expireAt
      BY <1>2, <2>1, FinishingFacts
    <2>3. worker' = [worker EXCEPT ![w] = r]
      BY <1>1, <1>6, <2>1 DEF Settle
    <2>4. r.phase \notin {"starting", "running", "writing"}
      BY <2>2
    <2> QED BY <1>3, <1>4, <2>2, <2>3, <2>4, WorkerMoves
  <1> QED BY <1>5, <1>6
\* The heartbeater receives from starting.
LEMMA StartingInv ==
    ASSUME LeaseInv, NEW w \in Worker, Starting(w)
    PROVE  LeaseInv'
  <1>1. PICK s \in Servers : s = ServerOf[w]
    BY ServerAssumption
  <1>2. PICK t : t = worker[w].task
    OBVIOUS
  <1>3. PICK r : r = [worker[w] EXCEPT !.phase = "running"]
    OBVIOUS
  <1>4. worker[w] \in WorkerState /\ WorkerOK(worker[w]) /\ t \in Task
    BY <1>2 DEF Starting, LeaseInv, GoTypes, WorkersOK, WorkerOK
  <1>5. /\ r \in WorkerState /\ r.phase = "running" /\ r.task = t
        /\ r.msg = worker[w].msg /\ r.expireAt = worker[w].expireAt
    BY <1>2, <1>3, <1>4 DEF WorkerState
  <1>6. WorkerOK(r)
    BY <1>2, <1>4, <1>5 DEF WorkerOK, Starting
  <1>7. /\ worker[w].phase = "starting" /\ beat[s].stage = "idle"
        /\ worker' = [worker EXCEPT ![w] = r]
        /\ workers' = [workers EXCEPT ![s][t] = w]
        /\ UNCHANGED <<vars, status, beat, listed, requests, crashes>> /\ NoFault
    BY <1>1, <1>2, <1>3 DEF Starting
  <1>8. /\ workers' \in [Servers -> [Task -> Worker \cup {Nil}]]
        /\ \A u \in Servers : u # s => workers'[u] = workers[u]
    BY <1>4, <1>7 DEF LeaseInv, GoTypes
  <1>9. Tracked'
    BY <1>1, <1>4, <1>5, <1>7 DEF LeaseInv, Tracked, GoTypes
  <1> QED BY <1>2, <1>5, <1>6, <1>7, <1>8, <1>9, WorkerMoves

\* The heartbeater receives from finished.
LEMMA FinishInv ==
    ASSUME LeaseInv, NEW w \in Worker, Finish(w)
    PROVE  LeaseInv'
  <1>1. PICK s \in Servers : s = ServerOf[w]
    BY ServerAssumption
  <1>2. PICK t : t = worker[w].task
    OBVIOUS
  <1>3. t \in Task
    BY <1>2 DEF Finish, LeaseInv, WorkersOK, WorkerOK
  <1>4. /\ beat[s].stage = "idle"
        /\ worker' = [worker EXCEPT ![w] = Idle]
        /\ workers' = [workers EXCEPT ![s][t] = Nil]
        /\ UNCHANGED <<vars, status, beat, listed, requests, crashes>> /\ NoFault
    BY <1>1, <1>2 DEF Finish
  <1>5. /\ workers' \in [Servers -> [Task -> Worker \cup {Nil}]]
        /\ \A u \in Servers : u # s => workers'[u] = workers[u]
    BY <1>3, <1>4 DEF LeaseInv, GoTypes
  <1>6. Tracked'
    BY <1>1, <1>2, <1>3, <1>4 DEF LeaseInv, Tracked, GoTypes
  <1> QED BY <1>4, <1>5, <1>6, IdleFacts, WorkerMoves
\* A task is taken from pending, for the idle worker w or, if the reply is lost,
\* for nobody: no one held it, since it was not active.
LEMMA Taking ==
    ASSUME LeaseInv, ClockOK, QueueInv', ArchivedKept, NEW t \in Task, Taken(t),
           NEW w \in Worker, worker[w].phase = "idle",
           NEW r \in WorkerState, WorkerOK(r), worker' = [worker EXCEPT ![w] = r],
           r.phase = "idle" \/ (r.task = t /\ r.expireAt = LeaseDuration),
           UNCHANGED <<status, workers, beat, listed, requests, crashes>>, Fault \/ NoFault
    PROVE  LeaseInv'
  <1>1. GoTypes' /\ WorkersOK'
    BY FaultTypes DEF LeaseInv, GoTypes, WorkersOK
  <1>2. \A s \in Servers, u \in Task : workers[s][u] # w
    BY RetriedAssumption DEF LeaseInv, Tracked
  <1>3. Tracked'
    BY <1>2 DEF LeaseInv, Tracked, GoTypes
  <1>4. worker'[w] = r /\ \A v \in Worker : v # w => worker'[v] = worker[v]
    BY DEF LeaseInv, GoTypes
  <1>5. \A v \in Worker : v # w => (Holds(v)' <=> Holds(v)) /\ (IsValid(v)' <=> IsValid(v))
    BY <1>4 DEF Holds, IsValid
  <1>6. Holds(w)' => worker'[w].task = t /\ worker'[w].expireAt = LeaseDuration
    BY <1>4 DEF Holds
  <1>7. ~Holds(w)
    BY DEF Holds
  <1>8. \A v \in Worker : Holds(v) => worker[v].task # t
    BY HolderFacts DEF Taken
  <1>9. /\ lease'[t] \in Int /\ lease'[t] > LeaseDuration - Second
        /\ \A u \in Task : u # t => lease'[u] = lease[u]
    <2>1. Unix(LeaseDuration) \in Int /\ Unix(LeaseDuration) > LeaseDuration - Second
      BY ServerAssumption, UnixFacts
    <2> QED BY <2>1 DEF Taken, LeaseInv, QueueInv, IInv, TypeOK, ZSet
  <1>10. LeaseBacked'
    <2>1. ASSUME NEW v \in Worker, Holds(v)'
          PROVE  worker'[v].task \in active' /\ lease'[worker'[v].task] > worker'[v].expireAt - Second
      <3>1. CASE v = w
        BY <1>6, <1>9, <2>1, <3>1, ServerAssumption DEF Taken
      <3>2. CASE v # w
        BY <1>4, <1>5, <1>8, <1>9, <2>1, <3>2, HolderFacts DEF Taken
      <3> QED BY <3>1, <3>2
    <2> QED BY <2>1 DEF LeaseBacked
  <1>11. LeaseExclusive'
    BY <1>4, <1>5, <1>6, <1>8 DEF LeaseInv, LeaseExclusive
  <1>12. \A u \in Task : u # t /\ Held(u)' => Held(u)
    BY <1>4, <1>5, <1>6 DEF Held
  <1>13. ListedOK'
    BY <1>12 DEF LeaseInv, ListedOK, Taken
  <1>14. ASSUME NEW s \in Servers, NEW q \in requests[s]
         PROVE  RequestOK(q)'
    <2>1. RequestOK(q) /\ q.task \in Task
      BY <1>14 DEF LeaseInv, RequestsOK, GoTypes, Request
    <2>2. Owed(q) => Owed(q)'
      BY <1>9, <1>12, <2>1 DEF Owed, Taken
    <2> QED BY <2>1, <2>2 DEF RequestOK, Live, ArchivedKept
  <1>15. RequestsOK'
    BY <1>14 DEF RequestsOK
  <1>16. BeatsOK'
    <2>1. ASSUME NEW s \in Servers, NEW u \in Task, NEW v \in Worker, workers[s][u] = v,
                 IsValid(v)'
          PROVE  /\ IsValid(v) /\ worker'[v].expireAt = worker[v].expireAt
                 /\ Holds(v)' => Holds(v) /\ LeaseRenewed(u)
      <3>1. v # w /\ worker[v].task = u
        BY <1>2, <2>1, RetriedAssumption DEF LeaseInv, Tracked
      <3> QED BY <1>4, <1>5, <1>8, <1>9, <2>1, <3>1 DEF LeaseRenewed
    <2> QED BY <2>1, BeatsKept
  <1> QED BY <1>1, <1>3, <1>10, <1>11, <1>13, <1>15, <1>16 DEF LeaseInv

\* A worker dequeues a task.
LEMMA DequeueTaskInv ==
    ASSUME LeaseInv, ClockOK, NEW w \in Worker, DequeueTask(w)
    PROVE  LeaseInv'
  <1>1. QueueInv' /\ ArchivedKept
    BY DequeueStep DEF DequeueTask, LeaseInv
  <1>2. PICK t \in Task : Taken(t) /\ hash[t].msg \in Msg
    BY DequeueStep DEF DequeueTask, LeaseInv
  <1>3. active' \ active = {t}
    BY <1>2 DEF Taken
  <1>4. PICK r : r = [Idle EXCEPT !.phase = "starting", !.task = t, !.msg = hash[t].msg,
                                  !.expireAt = LeaseDuration]
    OBVIOUS
  <1>5. worker' = [worker EXCEPT ![w] = r]
    BY <1>3, <1>4 DEF DequeueTask
  <1>6. /\ r \in WorkerState /\ r.phase = "starting" /\ r.task = t /\ r.msg \in Msg
        /\ r.expireAt = LeaseDuration
    <2>1. LeaseDuration \in Int
      BY ServerAssumption
    <2> QED BY <1>2, <1>4, <2>1, IdleFacts DEF WorkerState
  <1>7. WorkerOK(r)
    BY <1>6, ServerAssumption DEF WorkerOK
  <1>8. worker[w].phase = "idle" /\ NoFault
        /\ UNCHANGED <<status, workers, beat, listed, requests, crashes>>
    BY DEF DequeueTask
  <1> QED BY <1>1, <1>2, <1>5, <1>6, <1>7, <1>8, Taking

\* The reply of Dequeue is lost.
LEMMA DequeueReplyLostInv ==
    ASSUME LeaseInv, ClockOK, NEW s \in Servers, DequeueReplyLost(s)
    PROVE  LeaseInv'
  <1>1. QueueInv' /\ ArchivedKept
    BY DequeueStep DEF DequeueReplyLost, LeaseInv
  <1>2. PICK t \in Task : Taken(t)
    BY DequeueStep DEF DequeueReplyLost, LeaseInv
  <1>3. PICK w \in Worker : worker[w].phase = "idle"
    BY DEF DequeueReplyLost, WorkersOf
  <1>4. PICK r : r = worker[w]
    OBVIOUS
  <1>5. r \in WorkerState /\ WorkerOK(r) /\ worker' = [worker EXCEPT ![w] = r]
    BY <1>4 DEF DequeueReplyLost, goVars, LeaseInv, GoTypes, WorkersOK
  <1>6. Fault /\ UNCHANGED <<status, workers, beat, listed, requests, crashes>>
    BY DEF DequeueReplyLost, goVars
  <1> QED BY <1>1, <1>2, <1>3, <1>4, <1>5, <1>6, Taking
\* An execution ends: t leaves active, and nobody holds it any more.
LEMMA Leaving ==
    ASSUME LeaseInv, QueueInv', ArchivedKept, NEW t \in Task, LeaveActive(t), HoldersKept,
           ~Held(t)', ListShrinks, \A s \in Servers : listed'[s][t] = Nil,
           \A v \in Worker : IsValid(v)' =>
             IsValid(v) /\ worker'[v].expireAt = worker[v].expireAt,
           UNCHANGED <<workers, beat>>
    PROVE  /\ LeaseBacked' /\ LeaseExclusive' /\ ListedOK' /\ BeatsOK'
           /\ \A q \in Request :
                RequestOK(q) /\ (Live(q) /\ q.task = t => StateOf(t)' = "archived") =>
                    RequestOK(q)'
  <1>1. \A u \in Task : u # t => lease'[u] = lease[u] /\ (u \in active' <=> u \in active)
    BY DEF LeaveActive, LeaseInv, QueueInv, IInv, TypeOK, ZSet
  <1>2. \A v \in Worker : Holds(v)' => worker[v].task # t
    BY DEF Held, HoldersKept
  <1>3. LeaseBacked'
    BY <1>1, <1>2, HolderFacts DEF LeaseBacked, HoldersKept
  <1>4. LeaseExclusive'
    BY DEF LeaseInv, LeaseExclusive, HoldersKept
  <1>5. \A u : Held(u)' => Held(u)
    BY DEF Held, HoldersKept
  <1>6. ListedOK'
    BY <1>1, <1>5 DEF LeaseInv, ListedOK, ListShrinks
  <1>7. BeatsOK'
    <2>1. ASSUME NEW s \in Servers, NEW u \in Task, NEW v \in Worker, workers[s][u] = v,
                 Holds(v)'
          PROVE  Holds(v) /\ LeaseRenewed(u)
      <3>1. worker[v].task = u
        BY <2>1, RetriedAssumption DEF LeaseInv, Tracked
      <3> QED BY <1>1, <1>2, <2>1, <3>1 DEF LeaseRenewed, HoldersKept
    <2> QED BY <2>1, BeatsKept
  <1>8. ASSUME NEW q \in Request, RequestOK(q),
               Live(q) /\ q.task = t => StateOf(t)' = "archived"
        PROVE  RequestOK(q)'
    <2>1. q.task \in Task
      BY DEF Request
    <2>2. Owed(q) /\ q.task # t => Owed(q)'
      BY <1>1, <1>5, <2>1 DEF Owed, ListShrinks
    <2> QED BY <1>8, <2>1, <2>2 DEF RequestOK, Live, ArchivedKept
  <1> QED BY <1>3, <1>4, <1>6, <1>7, <1>8

\* A holder's task is not waiting for the recoverer or the syncer.
LEMMA HolderAlone ==
    ASSUME LeaseInv, NEW w \in Worker, Holds(w)
    PROVE  /\ \A s \in Servers : listed[s][worker[w].task] = Nil
           /\ \A s \in Servers : \A q \in requests[s] : Live(q) => q.task # worker[w].task
           /\ \A v \in Worker : Holds(v) /\ worker[v].task = worker[w].task => v = w
  <1>1. worker[w].task \in Task /\ StateOf(worker[w].task) = "active" /\ Held(worker[w].task)
    BY HolderFacts DEF Held
  <1>2. \A s \in Servers : \A q \in requests[s] : Live(q) => q.task # worker[w].task
    BY <1>1 DEF LeaseInv, RequestsOK, RequestOK, Owed
  <1> QED BY <1>1, <1>2 DEF LeaseInv, ListedOK, LeaseExclusive
\* What the syncer gets when a call fails.
LEMMA ResyncFacts ==
    ASSUME LeaseInv, NEW w \in Worker, worker[w].phase = "writing",
           Resync(w) \/ UNCHANGED requests
    PROVE  /\ requests' \in [Servers -> SUBSET Request]
           /\ \A s \in Servers : \A q \in requests'[s] :
                \/ q \in requests[s]
                \/ /\ q.task = worker[w].task /\ q.deadline = worker[w].expireAt
                   /\ q.op = worker[w].op /\ (q.cancelled <=> worker[w].op # "archive")
  <1>1. CASE UNCHANGED requests \/ worker[w].op = "requeue"
    BY <1>1 DEF Resync, LeaseInv, GoTypes
  <1>2. CASE Resync(w) /\ worker[w].op # "requeue"
    <2>1. PICK s \in Servers : s = ServerOf[w]
      BY ServerAssumption
    <2>2. PICK q : q = [task |-> worker[w].task, msg |-> worker[w].msg, op |-> worker[w].op,
                        deadline |-> worker[w].expireAt, cancelled |-> Cancelled(worker[w].op)]
      OBVIOUS
    <2>3. /\ worker[w].task \in Task /\ worker[w].msg \in Msg
          /\ worker[w].op \in Op \ {"requeue"} /\ worker[w].expireAt \in Int
      BY <1>2 DEF LeaseInv, GoTypes, WorkersOK, WorkerOK, WorkerState
    <2>4. Cancelled(worker[w].op) \in BOOLEAN
          /\ (Cancelled(worker[w].op) <=> worker[w].op # "archive")
      BY DEF Cancelled
    <2>5. q \in Request
      BY <2>2, <2>3, <2>4 DEF Request
    <2>6. /\ q.task = worker[w].task /\ q.deadline = worker[w].expireAt
          /\ q.op = worker[w].op /\ (q.cancelled <=> worker[w].op # "archive")
      BY <2>2, <2>4
    <2>7. requests' = [requests EXCEPT ![s] = requests[s] \cup {q}]
      BY <1>2, <2>1, <2>2 DEF Resync
    <2>8. requests \in [Servers -> SUBSET Request]
      BY DEF LeaseInv, GoTypes
    <2> QED BY <2>5, <2>6, <2>7, <2>8
  <1> QED BY <1>1, <1>2

\* A worker calls Redis with the result.
LEMMA WriteInv ==
    ASSUME LeaseInv, ClockOK, ArchiveKeeps, NEW w \in Worker, Write(w)
    PROVE  LeaseInv'
  <1>1. PICK t : t = worker[w].task
    OBVIOUS
  <1>2. PICK d : d = worker[w].deadline
    OBVIOUS
  <1>3. PICK op : op = worker[w].op
    OBVIOUS
  <1>4. /\ worker[w].phase = "writing" /\ worker[w] \in WorkerState
        /\ t \in Task /\ worker[w].msg \in Msg /\ worker[w].expireAt <= LeaseDuration
        /\ op \in Op /\ (op = "retry" => worker[w].msg < MaxRetry)
        /\ d \in Int /\ d <= worker[w].expireAt /\ worker[w].expireAt \in Int
    BY <1>1, <1>2, <1>3 DEF Write, LeaseInv, GoTypes, WorkersOK, WorkerOK, WorkerState
  <1>5. PICK f : f = Finishing(w)
    OBVIOUS
  <1>6. /\ f \in WorkerState /\ WorkerOK(f) /\ f.phase = "finishing"
        /\ f.task = t /\ f.expireAt = worker[w].expireAt
    BY <1>1, <1>4, <1>5, FinishingFacts
  <1>7. /\ worker' = [worker EXCEPT ![w] = f]
        /\ UNCHANGED <<status, workers, beat, listed, crashes>>
        /\ Fault \/ NoFault
        /\ Resync(w) \/ UNCHANGED requests
    BY <1>5 DEF Write
  <1>8. /\ requests' \in [Servers -> SUBSET Request]
        /\ \A s \in Servers : \A q \in requests'[s] :
             \/ q \in requests[s]
             \/ /\ q.task = t /\ q.deadline = worker[w].expireAt
                /\ q.op = op /\ (q.cancelled <=> op # "archive")
    BY <1>1, <1>2, <1>3, <1>4, <1>7, ResyncFacts
  <1>9. GoTypes' /\ WorkersOK' /\ Tracked'
    <2>1. GoTypes' /\ WorkersOK'
      BY <1>6, <1>7, <1>8, FaultTypes DEF LeaseInv, GoTypes, WorkersOK
    <2>2. Tracked'
      BY <1>1, <1>6, <1>7 DEF LeaseInv, Tracked, GoTypes
    <2> QED BY <2>1, <2>2
  <1>10. /\ ~Holds(w)' /\ HoldersKept /\ ListShrinks
         /\ \A v \in Worker : IsValid(v)' =>
               IsValid(v) /\ worker'[v].expireAt = worker[v].expireAt
    BY <1>6, <1>7 DEF Holds, IsValid, HoldersKept, ListShrinks, LeaseInv, GoTypes
  <1>11. d >= 0 => Holds(w)
    BY <1>4 DEF Holds, IsValid
  <1>12. Holds(w) => ~Held(t)'
    BY <1>1, <1>10, HolderAlone DEF Held, HoldersKept
  <1>13. CASE d >= 0 /\ Apply(op, t, worker[w].msg)
    <2>1. PICK m \in Msg : m = worker[w].msg
      BY <1>4
    <2>2. /\ QueueInv' /\ LeaveActive(t) /\ ArchivedKept
          /\ op = "archive" => StateOf(t)' = "archived"
      BY <1>4, <1>13, <2>1, ApplyStep DEF LeaseInv
    <2>3. \A s \in Servers : listed'[s][t] = Nil
      BY <1>1, <1>7, <1>11, <1>13, HolderAlone
    <2>4. /\ LeaseBacked' /\ LeaseExclusive' /\ ListedOK' /\ BeatsOK'
          /\ \A q \in Request :
                RequestOK(q) /\ (Live(q) /\ q.task = t => StateOf(t)' = "archived") =>
                    RequestOK(q)'
      BY <1>4, <1>7, <1>10, <1>11, <1>12, <1>13, <2>2, <2>3, Leaving
    <2>5. ASSUME NEW s \in Servers, NEW q \in requests'[s]
          PROVE  RequestOK(q)'
      <3>1. CASE q \in requests[s]
        BY <1>1, <1>8, <1>11, <1>13, <2>4, <2>5, <3>1, HolderAlone
           DEF LeaseInv, RequestsOK
      <3>2. CASE q \notin requests[s]
        BY <1>4, <1>8, <2>2, <2>5, <3>2, ServerAssumption DEF RequestOK, Live
      <3> QED BY <3>1, <3>2
    <2> QED BY <1>9, <2>2, <2>4, <2>5 DEF LeaseInv, RequestsOK
  <1>14. CASE UNCHANGED vars
    <2>1. /\ QueueInv' /\ UNCHANGED <<active, lease>> /\ ArchivedKept
          /\ \A u \in Task : LeaseRenewed(u)
      BY <1>14, QueueSame DEF LeaseInv
    <2>2. LeaseBacked' /\ LeaseExclusive' /\ ListedOK' /\ RequestsKept
      BY <1>10, <2>1, Quiet
    <2>3. BeatsOK'
      BY <1>7, <1>10, <2>1, BeatsKept DEF HoldersKept
    <2>4. ASSUME NEW s \in Servers, NEW q \in requests'[s]
          PROVE  RequestOK(q)'
      <3>1. CASE q \in requests[s]
        BY <1>8, <2>2, <2>4, <3>1 DEF LeaseInv, RequestsOK, RequestsKept
      <3>2. CASE q \notin requests[s]
        <4>1. /\ q.task = t /\ q.deadline = worker[w].expireAt
              /\ q.op = op /\ (q.cancelled <=> op # "archive")
          BY <1>8, <2>4, <3>2
        <4>2. IsValid(w) => /\ t \in active /\ lease[t] > worker[w].expireAt - Second /\ ~Held(t)'
                            /\ \A u \in Servers : listed[u][t] = Nil
          BY <1>1, <1>4, <1>12, HolderFacts, HolderAlone DEF Holds
        <4>3. IsValid(w) => Owed(q)'
          BY <1>7, <2>1, <4>1, <4>2 DEF Owed
        <4> QED BY <1>4, <4>1, <4>3, ServerAssumption DEF RequestOK, Live, IsValid
      <3> QED BY <3>1, <3>2
    <2> QED BY <1>9, <2>1, <2>2, <2>3, <2>4 DEF LeaseInv, RequestsOK
  <1> QED BY <1>1, <1>2, <1>3, <1>13, <1>14 DEF Write
\* A step that leaves the workers as they are.
LEMMA WorkersSame ==
    ASSUME UNCHANGED worker
    PROVE  /\ HoldersKept
           /\ \A v \in Worker : /\ IsValid(v)' <=> IsValid(v)
                                /\ Holds(v)' <=> Holds(v)
                                /\ worker'[v].expireAt = worker[v].expireAt
    BY DEF HoldersKept, Holds, IsValid

\* A beat begins.
LEMMA BeatCheckInv ==
    ASSUME LeaseInv, NEW s \in Servers, BeatCheck(s)
    PROVE  LeaseInv'
  <1>1. PICK b : b = [stage |-> "extend", ids |-> ToExtend(s), until |-> -1]
    OBVIOUS
  <1>2. b \in Beat /\ b.stage = "extend" /\ b.until = -1
    BY <1>1 DEF Beat, ToExtend
  <1>3. /\ beat' = [beat EXCEPT ![s] = b] /\ NoFault
        /\ UNCHANGED <<vars, status, worker, workers, listed, requests, crashes>>
    BY <1>1 DEF BeatCheck
  <1>4. GoTypes' /\ WorkersOK' /\ Tracked'
    BY <1>2, <1>3, FaultTypes DEF LeaseInv, GoTypes, WorkersOK, Tracked
  <1>5. QueueInv' /\ LeaseBacked' /\ LeaseExclusive' /\ ListedOK' /\ RequestsOK'
    BY <1>3, QueueSame, WorkersSame, Quiet, RequestsStay DEF LeaseInv, ListShrinks
  <1>6. BeatsOK'
    BY <1>2, <1>3, ServerAssumption, QueueSame, WorkersSame
       DEF LeaseInv, GoTypes, BeatsOK, BeatOK
  <1> QED BY <1>4, <1>5, <1>6 DEF LeaseInv

\* A beat extends the leases, or fails to.
LEMMA BeatExtendInv ==
    ASSUME LeaseInv, ClockOK, NEW s \in Servers, BeatExtend(s)
    PROVE  LeaseInv'
  <1>1. beat[s] \in Beat /\ beat[s].ids \in SUBSET Task /\ beat[s].stage = "extend"
    BY DEF BeatExtend, LeaseInv, GoTypes, Beat
  <1>2. /\ QueueInv' /\ UNCHANGED active /\ ArchivedKept
        /\ \A t \in Task : LeaseRenewed(t)
    <2>1. CASE UNCHANGED vars
      BY <2>1, QueueSame DEF LeaseInv
    <2>2. CASE ExtendLease(beat[s].ids, Unix(LeaseDuration))
      <3>1. PICK ts \in SUBSET Task : ts = beat[s].ids
        BY <1>1
      <3>2. Unix(LeaseDuration) \in Int /\ Unix(LeaseDuration) > LeaseDuration - Second
        BY ServerAssumption, UnixFacts
      <3> QED BY <2>2, <3>1, <3>2, ExtendStep DEF LeaseInv, LeaseRenewed
    <2> QED BY <2>1, <2>2 DEF BeatExtend
  <1>3. /\ UNCHANGED <<status, worker, workers, listed, requests, crashes>>
        /\ Fault \/ NoFault
    BY DEF BeatExtend
  <1>4. LeaseBacked' /\ LeaseExclusive' /\ ListedOK' /\ RequestsOK'
    BY <1>2, <1>3, WorkersSame, Quiet, RequestsStay DEF ListShrinks
  <1>5. WorkersOK' /\ Tracked'
    BY <1>3 DEF LeaseInv, GoTypes, WorkersOK, Tracked
  <1>6. PICK b : beat' = [beat EXCEPT ![s] = b] /\
                 \/ b = NoBeat
                 \/ /\ ExtendLease(beat[s].ids, Unix(LeaseDuration))
                    /\ b = [beat[s] EXCEPT !.stage = "reset", !.until = LeaseDuration]
    <2>1. CASE beat' = [beat EXCEPT ![s] = NoBeat]
      BY <2>1
    <2>2. CASE /\ ExtendLease(beat[s].ids, Unix(LeaseDuration))
               /\ beat' = [beat EXCEPT ![s].stage = "reset", ![s].until = LeaseDuration]
      <3>1. beat' = [beat EXCEPT ![s] = [beat[s] EXCEPT !.stage = "reset",
                                                        !.until = LeaseDuration]]
        BY <2>2 DEF LeaseInv, GoTypes
      <3> QED BY <2>2, <3>1
    <2> QED BY <2>1, <2>2 DEF BeatExtend
  <1>7. /\ b \in Beat /\ b.until <= LeaseDuration
        /\ b.stage = "reset" => /\ ExtendLease(beat[s].ids, Unix(LeaseDuration))
                                /\ b.ids = beat[s].ids /\ b.until = LeaseDuration
    <2>1. CASE b = NoBeat
      BY <2>1, ServerAssumption DEF NoBeat, Beat
    <2>2. CASE b # NoBeat
      <3>1. PICK c \in Beat : c = beat[s]
        BY <1>1
      <3>2. /\ ExtendLease(beat[s].ids, Unix(LeaseDuration))
            /\ b = [c EXCEPT !.stage = "reset", !.until = LeaseDuration]
        BY <1>6, <2>2, <3>1
      <3>3. LeaseDuration \in Int /\ LeaseDuration <= LeaseDuration
        BY ServerAssumption
      <3>4. b \in Beat /\ b.ids = c.ids /\ b.until = LeaseDuration
        BY <3>2, <3>3 DEF Beat
      <3> QED BY <3>1, <3>2, <3>3, <3>4
    <2> QED BY <2>1, <2>2
  <1>8. GoTypes'
    BY <1>3, <1>6, <1>7, FaultTypes DEF LeaseInv, GoTypes
  <1>9. ASSUME NEW u \in Servers, NEW t \in Task, NEW w \in Worker
        PROVE  BeatOK(u, t, w)'
    <2>1. beat'[u] = IF u = s THEN b ELSE beat[u]
      BY <1>6 DEF LeaseInv, GoTypes
    <2>2. CASE u # s
      <3>1. BeatOK(u, t, w) /\ beat[u].until \in Int /\ beat[u].until <= LeaseDuration
        BY DEF LeaseInv, BeatsOK, GoTypes, Beat
      <3> QED BY <1>2, <1>3, <2>1, <2>2, <3>1, WorkersSame, ServerAssumption
              DEF BeatOK, LeaseRenewed
    <2>3. CASE u = s
      <3> SUFFICES ASSUME b.stage = "reset", t \in b.ids, workers[s][t] = w, IsValid(w)
                   PROVE  /\ worker[w].expireAt <= b.until
                          /\ Holds(w) => lease'[t] > b.until - Second
        BY <1>3, <2>1, <2>3, WorkersSame DEF BeatOK
      <3>1. worker[w].expireAt <= b.until
        BY <1>7 DEF LeaseInv, WorkersOK, WorkerOK
      <3>2. ASSUME Holds(w) PROVE lease'[t] > b.until - Second
        <4>1. worker[w].task = t
          BY RetriedAssumption DEF LeaseInv, Tracked
        <4>2. lease[t] # Nil
          BY <3>2, <4>1, HolderFacts, NilAssumption
        <4>3. Unix(LeaseDuration) \in Int /\ Unix(LeaseDuration) > LeaseDuration - Second
          BY ServerAssumption, UnixFacts
        <4> QED BY <1>7, <4>2, <4>3 DEF ExtendLease
      <3> QED BY <3>1, <3>2
    <2> QED BY <2>2, <2>3
  <1>10. BeatsOK'
    BY <1>6, <1>7, <1>9 DEF BeatsOK, LeaseInv, GoTypes
  <1> QED BY <1>2, <1>4, <1>5, <1>8, <1>10 DEF LeaseInv
\* The heartbeater resets the leases of the workers.
LEMMA BeatResetInv ==
    ASSUME LeaseInv, NEW s \in Servers, BeatReset(s)
    PROVE  LeaseInv'
  <1>1. PICK b \in Beat : b = beat[s]
    BY DEF LeaseInv, GoTypes
  <1>2. b.stage = "reset" /\ b.until \in Int /\ b.until <= LeaseDuration /\ b.ids \subseteq Task
    BY <1>1 DEF BeatReset, LeaseInv, BeatsOK, Beat
  <1>3. /\ beat' = [beat EXCEPT ![s] = NoBeat] /\ NoFault
        /\ UNCHANGED <<vars, status, workers, listed, requests, crashes>>
    BY DEF BeatReset
  <1>4. ASSUME NEW w \in Worker
        PROVE  \/ worker'[w] = worker[w]
               \/ /\ worker'[w] = [worker[w] EXCEPT !.expireAt = b.until]
                  /\ IsValid(w) /\ worker[w].expireAt <= b.until
                  /\ Holds(w) => lease[worker[w].task] > b.until - Second
    <2>1. CASE \E t \in b.ids : workers[s][t] = w
      <3>1. PICK t \in b.ids : workers[s][t] = w
        BY <2>1
      <3>2. worker'[w] = [worker[w] EXCEPT !.expireAt = Reset(w, b.until)]
        BY <1>1, <2>1 DEF BeatReset
      <3>3. CASE ~IsValid(w)
        <4>1. worker'[w] = [worker[w] EXCEPT !.expireAt = worker[w].expireAt]
          BY <3>2, <3>3 DEF Reset
        <4> QED BY <4>1 DEF LeaseInv, GoTypes, WorkerState
      <3>4. CASE IsValid(w)
        <4>1. worker[w].task = t
          BY <1>2, <3>1, RetriedAssumption DEF LeaseInv, Tracked
        <4>2. BeatOK(s, t, w)
          BY <1>2 DEF LeaseInv, BeatsOK
        <4> QED BY <1>1, <1>2, <3>1, <3>2, <3>4, <4>1, <4>2 DEF Reset, BeatOK
      <3> QED BY <3>3, <3>4
    <2>2. CASE ~ \E t \in b.ids : workers[s][t] = w
      BY <1>1, <2>2 DEF BeatReset
    <2> QED BY <2>1, <2>2
  <1>5. worker' \in [Worker -> WorkerState]
    <2>1. ASSUME NEW w \in Worker PROVE worker'[w] \in WorkerState
      <3>1. PICK r \in WorkerState : r = worker[w]
        BY DEF LeaseInv, GoTypes
      <3>2. [r EXCEPT !.expireAt = b.until] \in WorkerState
        BY <1>2 DEF WorkerState
      <3> QED BY <1>4, <3>1, <3>2
    <2>2. worker' = [w \in Worker |-> worker'[w]]
      BY DEF BeatReset
    <2> QED BY <2>1, <2>2
  <1>6. \A w \in Worker :
            /\ worker'[w].phase = worker[w].phase /\ worker'[w].task = worker[w].task
            /\ worker'[w].msg = worker[w].msg /\ worker'[w].op = worker[w].op
            /\ worker'[w].deadline = worker[w].deadline
            /\ \/ worker'[w].expireAt = worker[w].expireAt
               \/ /\ worker'[w].expireAt = b.until
                  /\ IsValid(w) /\ worker[w].expireAt <= b.until
                  /\ Holds(w) => lease[worker[w].task] > b.until - Second
    <2>1. ASSUME NEW r \in WorkerState
          PROVE  LET q == [r EXCEPT !.expireAt = b.until] IN
                 /\ q.phase = r.phase /\ q.task = r.task /\ q.msg = r.msg /\ q.op = r.op
                 /\ q.deadline = r.deadline /\ q.expireAt = b.until
      BY DEF WorkerState
    <2> TAKE w \in Worker
    <2>2. PICK r \in WorkerState : r = worker[w]
      BY DEF LeaseInv, GoTypes
    <2>3. CASE worker'[w] = worker[w]
      BY <2>3
    <2>4. CASE worker'[w] # worker[w]
      <3>1. PICK q : q = [r EXCEPT !.expireAt = b.until]
        OBVIOUS
      <3>2. worker'[w] = q
        BY <1>4, <2>2, <2>4, <3>1
      <3>3. /\ q.phase = r.phase /\ q.task = r.task /\ q.msg = r.msg /\ q.op = r.op
            /\ q.deadline = r.deadline /\ q.expireAt = b.until
        BY <2>1, <3>1
      <3> QED BY <1>4, <2>2, <2>4, <3>2, <3>3
    <2> QED BY <2>3, <2>4
  <1>7. NoBeat \in Beat /\ NoBeat.stage = "idle" /\ NoBeat.until <= LeaseDuration
    BY ServerAssumption DEF NoBeat, Beat
  <1>8. GoTypes'
    BY <1>3, <1>5, <1>7, FaultTypes DEF LeaseInv, GoTypes
  <1>9. WorkersOK'
    <2>1. ASSUME NEW w \in Worker PROVE WorkerOK(worker'[w])
      <3>1. WorkerOK(worker[w]) /\ worker[w] \in WorkerState
        BY DEF LeaseInv, GoTypes, WorkersOK
      <3>2. worker[w].deadline \in Int /\ worker[w].expireAt \in Int
        BY <3>1 DEF WorkerState
      <3>3. worker'[w].expireAt <= LeaseDuration
        BY <1>2, <1>6, <3>1 DEF WorkerOK
      <3>4. worker[w].deadline <= worker[w].expireAt => worker[w].deadline <= worker'[w].expireAt
        BY <1>2, <1>6, <3>2
      <3> QED BY <1>6, <3>1, <3>3, <3>4 DEF WorkerOK
    <2> QED BY <2>1 DEF WorkersOK
  <1>10. Tracked'
    <2>1. \A w \in Worker : worker'[w].phase = worker[w].phase /\ worker'[w].task = worker[w].task
      BY <1>6
    <2>2. Tracked /\ workers' = workers /\ workers \in [Servers -> [Task -> Worker \cup {Nil}]]
      BY <1>3 DEF LeaseInv, GoTypes
    <2> QED BY <2>1, <2>2 DEF Tracked
  <1>11. \A w \in Worker : Holds(w)' => Holds(w) /\ worker'[w].task = worker[w].task
    BY <1>6 DEF Holds, IsValid
  <1>12. QueueInv' /\ UNCHANGED <<active, lease>> /\ ArchivedKept
    BY <1>3, QueueSame DEF LeaseInv
  <1>13. LeaseBacked'
    BY <1>6, <1>11, <1>12, HolderFacts DEF LeaseBacked
  <1>14. LeaseExclusive' /\ \A t : Held(t)' => Held(t)
    BY <1>11 DEF LeaseInv, LeaseExclusive, Held
  <1>15. ListedOK'
    BY <1>3, <1>12, <1>14 DEF LeaseInv, ListedOK
  <1>16. RequestsOK'
    <2>1. ASSUME NEW u \in Servers, NEW q \in requests[u] PROVE RequestOK(q)'
      <3>1. RequestOK(q) /\ q.task \in Task
        BY <2>1 DEF LeaseInv, RequestsOK, GoTypes, Request
      <3>2. Owed(q) => Owed(q)'
        BY <1>3, <1>12, <1>14 DEF Owed
      <3> QED BY <1>12, <3>1, <3>2 DEF RequestOK, Live, ArchivedKept
    <2> QED BY <1>3, <2>1 DEF RequestsOK
  <1>17. BeatsOK'
    <2>1. ASSUME NEW u \in Servers, NEW t \in Task, NEW w \in Worker PROVE BeatOK(u, t, w)'
      <3>1. CASE u = s
        BY <1>3, <1>7, <3>1 DEF BeatOK, LeaseInv, GoTypes
      <3>2. CASE u # s /\ workers[u][t] = w
        <4>1. ServerOf[w] = u
          BY <3>2, RetriedAssumption DEF LeaseInv, Tracked
        <4>2. \A x \in b.ids : workers[s][x] # w
          BY <1>2, <3>2, <4>1, RetriedAssumption DEF LeaseInv, Tracked
        <4>3. worker'[w] = worker[w]
          BY <1>1, <4>2 DEF BeatReset
        <4>4. BeatOK(u, t, w)
          BY DEF LeaseInv, BeatsOK
        <4>5. beat'[u] = beat[u]
          BY <1>3, <3>2 DEF LeaseInv, GoTypes
        <4> QED BY <1>3, <1>12, <4>3, <4>4, <4>5 DEF BeatOK, Holds, IsValid
      <3>3. CASE workers[u][t] # w
        BY <1>3, <3>3 DEF BeatOK
      <3> QED BY <3>1, <3>2, <3>3
    <2> QED BY <1>3, <1>7, <2>1 DEF BeatsOK, LeaseInv, GoTypes
  <1> QED BY <1>8, <1>9, <1>10, <1>12, <1>13, <1>14, <1>15, <1>16, <1>17 DEF LeaseInv
\* The recoverer lists what has expired: no worker holds it, and no request of the
\* syncer about it is live.
LEMMA ListExpiredInv ==
    ASSUME LeaseInv, ClockOK, NEW s \in Servers, ListExpired(s)
    PROVE  LeaseInv'
  <1>1. PICK l : l = [t \in Task |-> IF t \in Expired /\ Exists(t) THEN hash[t].msg ELSE Nil]
    OBVIOUS
  <1>2. l \in [Task -> Msg \cup {Nil}] /\ \A t \in Task : l[t] # Nil => t \in Expired
    BY <1>1 DEF LeaseInv, QueueInv, IInv, TypeOK, Exists, Hash
  <1>3. /\ listed' = [listed EXCEPT ![s] = l] /\ NoFault
        /\ UNCHANGED <<vars, status, worker, workers, beat, requests, crashes>>
    BY <1>1 DEF ListExpired
  <1>4. \A u \in Servers, t \in Task :
            listed'[u][t] # Nil => listed[u][t] # Nil \/ t \in Expired
    BY <1>2, <1>3 DEF LeaseInv, GoTypes
  <1>5. \A t \in Expired : t \in active /\ lease[t] \in Int /\ lease[t] <= -Second
    <2>1. Unix(-Cutoff) \in Int /\ Unix(-Cutoff) <= -Second
      BY ServerAssumption, UnixFacts
    <2> QED BY <2>1, ServerAssumption, NilAssumption
            DEF Expired, UpTo, Members, LeaseInv, QueueInv, IInv, Consistent,
                LeaseMatchesActive, TypeOK, ZSet
  <1>6. \A t \in Expired : ~Held(t)
    BY <1>5, HolderFacts, ServerAssumption DEF Held
  <1>7. GoTypes' /\ WorkersOK' /\ Tracked'
    BY <1>2, <1>3, FaultTypes DEF LeaseInv, GoTypes, WorkersOK, Tracked
  <1>8. /\ QueueInv' /\ UNCHANGED <<active, lease>> /\ ArchivedKept
        /\ \A t \in Task : LeaseRenewed(t)
    BY <1>3, QueueSame DEF LeaseInv
  <1>9. LeaseBacked' /\ LeaseExclusive' /\ \A t : Held(t)' <=> Held(t)
    BY <1>3, <1>8 DEF LeaseInv, LeaseBacked, LeaseExclusive, Held, Holds, IsValid
  <1>10. ListedOK'
    BY <1>4, <1>5, <1>6, <1>8, <1>9 DEF LeaseInv, ListedOK
  <1>11. BeatsOK'
    BY <1>3, <1>8, WorkersSame, BeatsKept
  <1>12. ASSUME NEW u \in Servers, NEW q \in requests[u]
         PROVE  RequestOK(q)'
    <2>1. RequestOK(q) /\ q.task \in Task /\ q.deadline \in Int
      BY <1>12 DEF LeaseInv, RequestsOK, GoTypes, Request
    <2>2. Live(q) /\ Owed(q) => Owed(q)'
      BY <1>4, <1>5, <1>8, <1>9, <2>1, ServerAssumption DEF Owed, Live
    <2> QED BY <1>8, <2>1, <2>2 DEF RequestOK, Live, ArchivedKept
  <1> QED BY <1>3, <1>7, <1>8, <1>9, <1>10, <1>11, <1>12 DEF LeaseInv, RequestsOK

\* The only recoverer handles a task that it has listed.
LEMMA RecoverInv ==
    ASSUME LeaseInv, ClockOK, SingleServer, ArchiveKeeps, NEW s \in Servers, NEW t \in Task, Recover(s, t)
    PROVE  LeaseInv'
  <1>1. PICK m \in Msg : m = listed[s][t]
    BY DEF Recover, LeaseInv, GoTypes
  <1>2. listed[s][t] # Nil /\ t \in active /\ ~Held(t)
    BY DEF Recover, LeaseInv, ListedOK
  <1>3. /\ listed' = [listed EXCEPT ![s][t] = Nil] /\ (Fault \/ NoFault)
        /\ UNCHANGED <<status, worker, workers, beat, requests, crashes>>
    BY DEF Recover
  <1>4. /\ listed' \in [Servers -> [Task -> Msg \cup {Nil}]] /\ ListShrinks
        /\ \A u \in Servers : listed'[u][t] = Nil
    BY <1>3 DEF LeaseInv, GoTypes, ListShrinks, SingleServer
  <1>5. GoTypes' /\ WorkersOK' /\ Tracked'
    BY <1>3, <1>4, FaultTypes DEF LeaseInv, GoTypes, WorkersOK, Tracked
  <1>6. CASE UNCHANGED vars
    <2>1. /\ QueueInv' /\ UNCHANGED <<active, lease>> /\ ArchivedKept
          /\ \A u \in Task : LeaseRenewed(u)
      BY <1>6, QueueSame DEF LeaseInv
    <2>2. LeaseBacked' /\ LeaseExclusive' /\ ListedOK' /\ RequestsOK'
      BY <1>3, <1>4, <2>1, WorkersSame, Quiet, RequestsStay
    <2>3. BeatsOK'
      BY <1>3, <2>1, WorkersSame, BeatsKept
    <2> QED BY <1>5, <2>1, <2>2, <2>3 DEF LeaseInv
  <1>7. CASE Apply(IF m >= MaxRetry THEN "archive" ELSE "retry", t, m)
    <2>1. PICK op \in Op : op = IF m >= MaxRetry THEN "archive" ELSE "retry"
      BY DEF Op
    <2>2. op = "retry" => m < MaxRetry
      BY <2>1, ServerAssumption, RetriedAssumption
    <2>3. QueueInv' /\ LeaveActive(t) /\ ArchivedKept
      BY <1>7, <2>1, <2>2, ApplyStep DEF LeaseInv
    <2>4. HoldersKept /\ ~Held(t)'
      BY <1>2, <1>3, WorkersSame DEF Held, HoldersKept
    <2>5. /\ LeaseBacked' /\ LeaseExclusive' /\ ListedOK' /\ BeatsOK'
          /\ \A q \in Request :
                RequestOK(q) /\ (Live(q) /\ q.task = t => StateOf(t)' = "archived") =>
                    RequestOK(q)'
      BY <1>3, <1>4, <2>3, <2>4, WorkersSame, Leaving
    <2>6. StateOf(t) = "active"
      BY <1>2 DEF LeaseInv, QueueInv, IInv, Consistent, IndexMatchesState, QueueIndex,
                  HasState, StateOf
    <2>7. \A u \in Servers : \A q \in requests[u] : ~(Live(q) /\ q.task = t)
      BY <1>2, <2>6 DEF LeaseInv, RequestsOK, RequestOK, Owed
    <2>8. RequestsOK'
      BY <1>3, <2>5, <2>7 DEF LeaseInv, GoTypes, RequestsOK
    <2> QED BY <1>5, <2>3, <2>5, <2>8 DEF LeaseInv
  <1> QED BY <1>1, <1>6, <1>7 DEF Recover

\* The syncer applies a request, which can only be an archive of a task that is
\* still active: nobody holds it, and the recoverer has not listed it.
LEMMA SyncApplyInv ==
    ASSUME LeaseInv, ClockOK, ArchiveKeeps, NEW s \in Servers, NEW r \in requests[s], SyncApply(s, r)
    PROVE  LeaseInv'
  <1>1. PICK t \in Task : t = r.task
    BY DEF LeaseInv, GoTypes, Request
  <1>2. r \in Request /\ r.msg \in Msg /\ RequestOK(r) /\ Live(r) /\ r.op = "archive"
    BY DEF SyncApply, LeaseInv, GoTypes, RequestsOK, RequestOK, Live, Request
  <1>3. Archive(t, r.msg, 0)
    BY <1>1, <1>2 DEF SyncApply, Apply
  <1>4. /\ QueueInv' /\ LeaveActive(t) /\ ArchivedKept /\ StateOf(t)' = "archived"
    <2>1. PICK m \in Msg : m = r.msg
      BY <1>2
    <2>2. Apply("archive", t, m) /\ "archive" \in Op
      BY <1>3, <2>1 DEF Apply, Op
    <2> QED BY <2>2, ApplyStep DEF LeaseInv
  <1>5. StateOf(t) = "active" /\ t \in active
    BY <1>4 DEF LeaveActive, LeaseInv, QueueInv, IInv, Consistent, IndexMatchesState,
                QueueIndex, HasState, StateOf
  <1>6. Owed(r)
    BY <1>1, <1>2, <1>5 DEF RequestOK
  <1>7. /\ requests' = [requests EXCEPT ![s] = requests[s] \ {r}] \/ UNCHANGED requests
        /\ Fault \/ NoFault
        /\ UNCHANGED <<status, worker, workers, beat, listed, crashes>>
    BY DEF SyncApply
  <1>8. GoTypes' /\ WorkersOK' /\ Tracked' /\ \A u \in Servers : requests'[u] \subseteq requests[u]
    <2>1. /\ requests' \in [Servers -> SUBSET Request]
          /\ \A u \in Servers : requests'[u] \subseteq requests[u]
      BY <1>7 DEF LeaseInv, GoTypes
    <2> QED BY <1>7, <2>1, FaultTypes DEF LeaseInv, GoTypes, WorkersOK, Tracked
  <1>9. HoldersKept /\ ~Held(t)' /\ ListShrinks /\ \A u \in Servers : listed'[u][t] = Nil
    BY <1>1, <1>6, <1>7, WorkersSame DEF Owed, Held, HoldersKept, ListShrinks
  <1>10. /\ LeaseBacked' /\ LeaseExclusive' /\ ListedOK' /\ BeatsOK'
         /\ \A q \in Request : RequestOK(q) => RequestOK(q)'
    BY <1>4, <1>7, <1>9, WorkersSame, Leaving
  <1>11. RequestsOK'
    BY <1>8, <1>10 DEF LeaseInv, GoTypes, RequestsOK
  <1> QED BY <1>4, <1>8, <1>10, <1>11 DEF LeaseInv

\* The syncer gives a request up, and servers begin to stop or to run.
LEMMA BookkeepingInv ==
    ASSUME LeaseInv, NEW s \in Servers,
           (\E r \in requests[s] : SyncDrop(s, r)) \/ Shutdown(s) \/ Restart(s)
    PROVE  LeaseInv'
  <1>1. UNCHANGED <<vars, worker, workers, beat, listed>> /\ NoFault
    BY DEF SyncDrop, Shutdown, Restart
  <1>2. GoTypes' /\ \A u \in Servers : requests'[u] \subseteq requests[u]
    <2>1. CASE \E r \in requests[s] : SyncDrop(s, r)
      BY <1>1, <2>1, FaultTypes DEF SyncDrop, LeaseInv, GoTypes
    <2>2. CASE Shutdown(s)
      BY <1>1, <2>2, FaultTypes, ServerAssumption DEF Shutdown, LeaseInv, GoTypes
    <2>3. CASE Restart(s)
      BY <1>1, <2>3, FaultTypes DEF Restart, LeaseInv, GoTypes
    <2> QED BY <2>1, <2>2, <2>3
  <1>3. WorkersOK' /\ Tracked'
    BY <1>1 DEF LeaseInv, WorkersOK, Tracked
  <1>4. /\ QueueInv' /\ UNCHANGED <<active, lease>> /\ ArchivedKept
        /\ \A t \in Task : LeaseRenewed(t)
    BY <1>1, QueueSame DEF LeaseInv
  <1>5. LeaseBacked' /\ LeaseExclusive' /\ ListedOK' /\ RequestsOK'
    BY <1>1, <1>2, <1>4, WorkersSame, Quiet, RequestsStay DEF ListShrinks
  <1>6. BeatsOK'
    BY <1>1, <1>4, WorkersSame, BeatsKept
  <1> QED BY <1>2, <1>3, <1>4, <1>5, <1>6 DEF LeaseInv
\* A server ends, in order or not.
LEMMA GoneInv ==
    ASSUME LeaseInv, NEW s \in Servers, Gone(s), crashes' \in 0 .. MaxCrashes
    PROVE  LeaseInv'
  <1>1. /\ QueueInv' /\ UNCHANGED <<active, lease>> /\ ArchivedKept
        /\ \A t \in Task : LeaseRenewed(t)
    BY QueueSame DEF LeaseInv, Gone
  <1>2. \A w \in Worker : worker'[w] = IF ServerOf[w] = s THEN Idle ELSE worker[w]
    BY DEF Gone
  <1>3. NoBeat \in Beat
    BY DEF NoBeat, Beat
  <1>4. GoTypes'
    BY <1>3, IdleFacts, FaultTypes DEF Gone, LeaseInv, GoTypes
  <1>5. WorkersOK'
    BY <1>2, IdleFacts DEF LeaseInv, WorkersOK
  <1>6. \A u \in Servers : /\ requests'[u] \subseteq requests[u]
                           /\ beat'[u] = NoBeat \/ (beat'[u] = beat[u] /\ workers'[u] = workers[u])
                           /\ u = s => \A t \in Task : workers'[u][t] = Nil
                           /\ u # s => workers'[u] = workers[u]
    BY DEF Gone, LeaseInv, GoTypes
  <1>7. Tracked'
    BY <1>2, <1>6, RetriedAssumption DEF LeaseInv, Tracked, GoTypes
  <1>8. ListShrinks
    BY DEF Gone, LeaseInv, GoTypes, ListShrinks
  <1>9. \A v \in Worker : IsValid(v)' => IsValid(v) /\ worker'[v] = worker[v]
    BY <1>2, IdleFacts DEF IsValid
  <1>10. HoldersKept
    BY <1>9 DEF HoldersKept, Holds
  <1>11. LeaseBacked' /\ LeaseExclusive' /\ ListedOK' /\ RequestsOK'
    BY <1>1, <1>6, <1>8, <1>10, Quiet, RequestsStay
  <1>12. BeatsOK'
    BY <1>1, <1>6, <1>9, <1>10, BeatsKept DEF HoldersKept
  <1> QED BY <1>1, <1>4, <1>5, <1>7, <1>11, <1>12 DEF LeaseInv

\* The timestamps of the goroutines age alike.
LEMMA AgeTogether ==
    ASSUME NEW x \in Int, NEW y \in Int, x <= y
    PROVE  /\ Older(x, -1) <= Older(y, -1)
           /\ Older(x, -1) \in Int /\ Older(x, -1) <= x
  <1>1. /\ Older(x, -1) = (IF x > -1 THEN x - 1 ELSE x)
        /\ Older(y, -1) = (IF y > -1 THEN y - 1 ELSE y)
    BY OlderFacts
  <1> QED BY <1>1

\* A lease in Redis ages with the timestamp that it backs, until that is over.
LEMMA AgeBacked ==
    ASSUME NEW x \in Int, NEW y \in Int, y > x - Second
    PROVE  /\ Older(y, LeaseFloor) \in Int
           /\ Older(x, -1) >= 0 => Older(y, LeaseFloor) > Older(x, -1) - Second
  <1>1. -1 \in Int /\ LeaseFloor \in Int /\ LeaseFloor <= -Second /\ Second \in Nat \ {0}
    BY ServerAssumption DEF LeaseFloor
  <1>2. /\ Older(x, -1) = (IF x > -1 THEN x - 1 ELSE x)
        /\ Older(y, LeaseFloor) = (IF y > LeaseFloor THEN y - 1 ELSE y)
    BY <1>1, OlderFacts
  <1> QED BY <1>1, <1>2

\* Time passes: what is valid was valid, and its lease in Redis ages with it.
LEMMA TickInv ==
    ASSUME LeaseInv, Tick
    PROVE  LeaseInv'
  <1>1. /\ QueueInv' /\ UNCHANGED active /\ ArchivedKept
        /\ \A t \in Task : lease'[t] = Older(lease[t], LeaseFloor)
    BY TickStep DEF LeaseInv
  <1>2. UNCHANGED <<status, workers, listed, crashes, faults>>
    BY DEF Tick
  <1>3. ASSUME NEW x \in Int PROVE Older(x, -1) \in Int /\ Older(x, -1) <= x
    BY AgeTogether
  <1>4. ASSUME NEW w \in Worker
        PROVE  /\ worker'[w] \in WorkerState
               /\ worker'[w].phase = worker[w].phase /\ worker'[w].task = worker[w].task
               /\ worker'[w].msg = worker[w].msg /\ worker'[w].op = worker[w].op
               /\ worker'[w].expireAt = Older(worker[w].expireAt, -1)
               /\ worker'[w].deadline = Older(worker[w].deadline, -1)
    <2>1. PICK r \in WorkerState : r = worker[w]
      BY DEF LeaseInv, GoTypes
    <2>2. PICK e \in Int : e = Older(r.expireAt, -1)
      BY <1>3 DEF WorkerState
    <2>3. PICK d \in Int : d = Older(r.deadline, -1)
      BY <1>3 DEF WorkerState
    <2>4. PICK q : q = [r EXCEPT !.expireAt = e, !.deadline = d]
      OBVIOUS
    <2>5. /\ q \in WorkerState /\ q.phase = r.phase /\ q.task = r.task /\ q.msg = r.msg
          /\ q.op = r.op /\ q.expireAt = e /\ q.deadline = d
      BY <2>4 DEF WorkerState
    <2>6. worker'[w] = q
      BY <2>1, <2>2, <2>3, <2>4 DEF Tick
    <2> QED BY <2>1, <2>2, <2>3, <2>5, <2>6
  <1>5. ASSUME NEW s \in Servers
        PROVE  /\ beat'[s] \in Beat
               /\ beat'[s].stage = beat[s].stage /\ beat'[s].ids = beat[s].ids
               /\ beat'[s].until = Older(beat[s].until, -1)
    <2>1. PICK b \in Beat : b = beat[s]
      BY DEF LeaseInv, GoTypes
    <2>2. PICK e \in Int : e = Older(b.until, -1)
      BY <1>3 DEF Beat
    <2>3. beat'[s] = [b EXCEPT !.until = e]
      BY <2>1, <2>2 DEF Tick
    <2>4. /\ [b EXCEPT !.until = e] \in Beat /\ [b EXCEPT !.until = e].stage = b.stage
          /\ [b EXCEPT !.until = e].ids = b.ids /\ [b EXCEPT !.until = e].until = e
      BY DEF Beat
    <2> QED BY <2>1, <2>2, <2>3, <2>4
  <1>6. ASSUME NEW s \in Servers, NEW q \in requests'[s]
        PROVE  /\ q \in Request
               /\ \E r \in requests[s] :
                    /\ q.task = r.task /\ q.op = r.op /\ q.cancelled = r.cancelled
                    /\ q.deadline = Older(r.deadline, -1)
    <2>1. PICK r \in requests[s] : q = [r EXCEPT !.deadline = Older(r.deadline, -1)]
      BY <1>6 DEF Tick
    <2>2. r \in Request
      BY <2>1 DEF LeaseInv, GoTypes
    <2>3. PICK d \in Int : d = Older(r.deadline, -1)
      BY <1>3, <2>2 DEF Request
    <2>4. /\ [r EXCEPT !.deadline = d] \in Request /\ [r EXCEPT !.deadline = d].task = r.task
          /\ [r EXCEPT !.deadline = d].op = r.op
          /\ [r EXCEPT !.deadline = d].cancelled = r.cancelled
          /\ [r EXCEPT !.deadline = d].deadline = d
      BY <2>2 DEF Request
    <2> QED BY <2>1, <2>3, <2>4
  <1>7. GoTypes'
    <2>1. /\ worker' = [w \in Worker |-> worker'[w]] /\ beat' = [s \in Servers |-> beat'[s]]
          /\ requests' = [s \in Servers |-> requests'[s]]
      BY DEF Tick
    <2> QED BY <1>2, <1>4, <1>5, <1>6, <2>1 DEF LeaseInv, GoTypes
  <1>8. WorkersOK'
    <2>1. ASSUME NEW w \in Worker PROVE WorkerOK(worker'[w])
      <3>1. WorkerOK(worker[w]) /\ worker[w].expireAt \in Int /\ worker[w].deadline \in Int
        BY DEF LeaseInv, WorkersOK, GoTypes, WorkerState
      <3>2. worker'[w].expireAt <= LeaseDuration
        BY <1>3, <1>4, <3>1, ServerAssumption DEF WorkerOK
      <3>3. worker[w].deadline <= worker[w].expireAt =>
              worker'[w].deadline <= worker'[w].expireAt
        BY <1>4, <3>1, AgeTogether
      <3> QED BY <1>4, <3>1, <3>2, <3>3 DEF WorkerOK
    <2> QED BY <2>1 DEF WorkersOK
  <1>9. Tracked'
    <2>1. ASSUME NEW s \in Servers, NEW t \in Task, workers[s][t] # Nil
          PROVE  /\ ServerOf[workers[s][t]] = s /\ worker'[workers[s][t]].task = t
                 /\ worker'[workers[s][t]].phase \in {"running", "writing", "finishing"}
      <3>1. workers[s][t] \in Worker
        BY <2>1 DEF LeaseInv, GoTypes
      <3>2. /\ ServerOf[workers[s][t]] = s /\ worker[workers[s][t]].task = t
            /\ worker[workers[s][t]].phase \in {"running", "writing", "finishing"}
        BY <2>1 DEF LeaseInv, Tracked
      <3> QED BY <1>4, <3>1, <3>2
    <2> QED BY <1>2, <2>1 DEF Tracked
  <1>10. ASSUME NEW w \in Worker
         PROVE  /\ IsValid(w)' => IsValid(w)
                /\ Holds(w)' => Holds(w) /\ worker'[w].task = worker[w].task
    <2>1. worker[w].expireAt \in Int
      BY DEF LeaseInv, GoTypes, WorkerState
    <2>2. IsValid(w)' => IsValid(w)
      BY <1>3, <1>4, <2>1 DEF IsValid
    <2> QED BY <1>4, <2>2 DEF Holds
  <1>11. LeaseBacked'
    <2>1. ASSUME NEW w \in Worker, Holds(w)'
          PROVE  worker'[w].task \in active' /\ lease'[worker'[w].task] > worker'[w].expireAt - Second
      <3>1. Holds(w) /\ worker'[w].task = worker[w].task /\ worker[w].task \in Task
        BY <1>10, <2>1, HolderFacts
      <3>2. worker'[w].expireAt >= 0
        BY <2>1 DEF Holds, IsValid
      <3>3. lease[worker[w].task] \in Int /\ worker[w].expireAt \in Int
            /\ lease[worker[w].task] > worker[w].expireAt - Second /\ worker[w].task \in active
        BY <3>1, HolderFacts
      <3>4. /\ worker'[w].expireAt = Older(worker[w].expireAt, -1)
            /\ lease'[worker[w].task] = Older(lease[worker[w].task], LeaseFloor)
        BY <1>1, <1>4, <3>1
      <3>5. Older(lease[worker[w].task], LeaseFloor) > Older(worker[w].expireAt, -1) - Second
        BY <3>2, <3>3, <3>4, AgeBacked
      <3> QED BY <1>1, <3>1, <3>3, <3>4, <3>5
    <2> QED BY <2>1 DEF LeaseBacked
  <1>12. LeaseExclusive' /\ \A t : Held(t)' => Held(t)
    BY <1>10 DEF LeaseInv, LeaseExclusive, Held
  <1>13. ListedOK'
    BY <1>1, <1>2, <1>12 DEF LeaseInv, ListedOK
  <1>14. RequestsOK'
    <2>1. ASSUME NEW s \in Servers, NEW q \in requests'[s] PROVE RequestOK(q)'
      <3>1. PICK r \in requests[s] :
                 /\ q.task = r.task /\ q.op = r.op /\ q.cancelled = r.cancelled
                 /\ q.deadline = Older(r.deadline, -1)
        BY <1>6, <2>1
      <3>2. r \in Request /\ r.deadline \in Int /\ r.task \in Task /\ RequestOK(r)
        BY <3>1 DEF LeaseInv, GoTypes, Request, RequestsOK
      <3>3. q.deadline <= LeaseDuration
        BY <1>3, <3>1, <3>2, ServerAssumption DEF RequestOK
      <3>4. Live(q) => Live(r)
        BY <1>3, <3>1, <3>2 DEF Live
      <3>5. Live(q) /\ Owed(r) => Owed(q)'
        <4>1. SUFFICES ASSUME Live(q), Owed(r) PROVE lease'[r.task] > q.deadline - Second
          BY <1>1, <1>2, <1>12, <3>1 DEF Owed
        <4>2. lease[r.task] \in Int /\ lease[r.task] > r.deadline - Second
          BY <3>2, <4>1 DEF Owed, LeaseInv, QueueInv, IInv, Consistent, LeaseMatchesActive,
                            TypeOK, ZSet
        <4>3. q.deadline >= 0
          BY <4>1 DEF Live
        <4>4. /\ q.deadline = Older(r.deadline, -1)
              /\ lease'[r.task] = Older(lease[r.task], LeaseFloor)
          BY <1>1, <3>1, <3>2
        <4>5. Older(lease[r.task], LeaseFloor) > Older(r.deadline, -1) - Second
          BY <3>2, <4>2, <4>3, <4>4, AgeBacked
        <4> QED BY <4>4, <4>5
      <3> QED BY <1>1, <3>1, <3>2, <3>3, <3>4, <3>5 DEF RequestOK, ArchivedKept
    <2> QED BY <2>1 DEF RequestsOK
  <1>15. ASSUME NEW s \in Servers
         PROVE  beat[s].until \in Int /\ beat'[s].until <= LeaseDuration
    BY <1>3, <1>5, ServerAssumption DEF LeaseInv, BeatsOK, GoTypes, Beat
  <1>16. ASSUME NEW s \in Servers, NEW t \in Task, NEW w \in Worker PROVE BeatOK(s, t, w)'
    <2> SUFFICES ASSUME beat[s].stage = "reset", t \in beat[s].ids, workers[s][t] = w, IsValid(w)'
                 PROVE  /\ worker'[w].expireAt <= beat'[s].until
                        /\ Holds(w)' => lease'[t] > beat'[s].until - Second
      BY <1>2, <1>5 DEF BeatOK
    <2>1. /\ IsValid(w) /\ worker[w].expireAt <= beat[s].until
          /\ Holds(w) => lease[t] > beat[s].until - Second
      BY <1>10 DEF LeaseInv, BeatsOK, BeatOK
    <2>2. worker[w].expireAt \in Int
      BY DEF LeaseInv, GoTypes, WorkerState
    <2>3. worker'[w].expireAt <= beat'[s].until /\ beat'[s].until >= 0
      <3>1. PICK e \in Int : e = worker[w].expireAt
        BY <2>2
      <3>2. PICK u \in Int : u = beat[s].until
        BY <1>15
      <3>3. e <= u
        BY <2>1, <3>1, <3>2
      <3>4. /\ Older(e, -1) <= Older(u, -1)
            /\ Older(e, -1) \in Int /\ Older(u, -1) \in Int
        BY <1>3, <3>3, AgeTogether
      <3>5. worker'[w].expireAt = Older(e, -1) /\ beat'[s].until = Older(u, -1)
        BY <1>4, <1>5, <3>1, <3>2
      <3>6. worker'[w].expireAt >= 0
        BY DEF IsValid
      <3> QED BY <3>4, <3>5, <3>6
    <2>4. ASSUME Holds(w)' PROVE lease'[t] > beat'[s].until - Second
      <3>1. worker[w].task = t
        BY RetriedAssumption DEF LeaseInv, Tracked
      <3>2. Holds(w) /\ lease[t] \in Int /\ lease[t] > beat[s].until - Second
        BY <1>10, <2>1, <2>4, <3>1, HolderFacts
      <3>3. PICK u \in Int : u = beat[s].until
        BY <1>15
      <3>4. PICK l \in Int : l = lease[t]
        BY <3>2
      <3>5. beat'[s].until = Older(u, -1) /\ lease'[t] = Older(l, LeaseFloor)
        BY <1>1, <1>5, <3>3, <3>4
      <3>6. Older(l, LeaseFloor) > Older(u, -1) - Second
        BY <2>3, <3>2, <3>3, <3>4, <3>5, AgeBacked
      <3> QED BY <3>5, <3>6
    <2> QED BY <2>3, <2>4
  <1>17. BeatsOK'
    BY <1>15, <1>16 DEF BeatsOK
  <1> QED BY <1>1, <1>7, <1>8, <1>9, <1>11, <1>12, <1>13, <1>14, <1>17 DEF LeaseInv

-----------------------------------------------------------------------------
(* The theorems.                                                            *)

\* LeaseInv holds at the start.
LEMMA LeaseInit == ServerInit => LeaseInv
  <1> SUFFICES ASSUME ServerInit PROVE LeaseInv
    OBVIOUS
  <1>1. QueueInv
    BY InitInv, NilAssumption DEF ServerInit, Init, EmptyZ, QueueInv, ArchivedAtZero
  <1>2. NoBeat \in Beat /\ NoBeat.stage = "idle" /\ NoBeat.until <= LeaseDuration
    BY ServerAssumption DEF NoBeat, Beat
  <1>3. GoTypes
    BY <1>2, IdleFacts, ServerAssumption DEF ServerInit, GoTypes
  <1>4. WorkersOK /\ \A w \in Worker : ~Holds(w)
    BY IdleFacts DEF ServerInit, WorkersOK, Holds
  <1>5. Tracked /\ ListedOK /\ RequestsOK
    BY DEF ServerInit, Tracked, ListedOK, RequestsOK
  <1>6. BeatsOK
    BY <1>2 DEF ServerInit, BeatsOK, BeatOK
  <1>7. LeaseBacked /\ LeaseExclusive
    BY <1>4 DEF LeaseBacked, LeaseExclusive
  <1> QED BY <1>1, <1>3, <1>4, <1>5, <1>6, <1>7 DEF LeaseInv

\* Every step of one server, its clients and the clock keeps LeaseInv.
LEMMA LeaseNext ==
    ASSUME LeaseInv, ClockOK, SingleServer, ArchiveKeeps, [ServerNext]_allVars
    PROVE  LeaseInv'
  <1>1. CASE UNCHANGED allVars
    <2>1. UNCHANGED <<active, lease, goVars, crashes>> /\ NoFault /\ UNCHANGED vars
      BY <1>1 DEF allVars, vars, NoFault
    <2> QED BY <2>1, QueueSame, QueueOnly DEF LeaseInv
  <1>2. ASSUME NEW t \in Task, EnqueueTask(t) PROVE LeaseInv'
    BY <1>2, EnqueueTaskInv
  <1>3. ASSUME NEW w \in Worker, WorkerStep(w) PROVE LeaseInv'
    BY <1>3, DequeueTaskInv, StartingInv, ReturnInv, WriteInv, FinishInv DEF WorkerStep
  <1>4. ASSUME NEW s \in Servers, ServerStep(s) PROVE LeaseInv'
    <2>1. ASSUME Stopped(s) \/ Crash(s) PROVE LeaseInv'
      <3>1. Gone(s) /\ crashes' \in 0 .. MaxCrashes
        BY <2>1, ServerAssumption DEF Stopped, Crash, LeaseInv, GoTypes
      <3> QED BY <3>1, GoneInv
    <2> QED BY <1>4, <2>1, DequeueReplyLostInv, BeatCheckInv, BeatExtendInv, BeatResetInv,
               ListExpiredInv, RecoverInv, SyncApplyInv, BookkeepingInv, ForwardTaskInv
            DEF ServerStep
  <1>5. CASE Tick
    BY <1>5, TickInv
  <1> QED BY <1>1, <1>2, <1>3, <1>4, <1>5 DEF ServerNext

\* The clock stays within its second.
LEMMA ClockInvariance == ServerSpec => []ClockOK
  <1>1. ServerInit => ClockOK
    BY DEF ServerInit, ClockOK
  <1>2. ClockOK /\ [ServerNext]_allVars => ClockOK'
    BY ClockNext
  <1> QED BY <1>1, <1>2, PTL DEF ServerSpec

\* The inductive invariant of the leases.
THEOREM LeaseInvariance == SingleServer /\ ArchiveKeeps /\ ServerSpec => []LeaseInv
  <1>1. ASSUME SingleServer, ArchiveKeeps PROVE ServerSpec => []LeaseInv
    <2>1. LeaseInv /\ ClockOK /\ [ServerNext]_allVars => LeaseInv'
      BY <1>1, LeaseNext
    <2> QED BY <2>1, LeaseInit, ClockInvariance, PTL DEF ServerSpec
  <1> QED BY <1>1

\* Type correctness of the goroutines and of the keys of the queue.
THEOREM ServerTypeTheorem == SingleServer /\ ArchiveKeeps /\ ServerSpec => []ServerTypeOK
  <1>1. LeaseInv /\ ClockOK => ServerTypeOK
    BY DEF LeaseInv, QueueInv, IInv, GoTypes, ServerTypeOK, ClockOK
  <1> QED BY <1>1, LeaseInvariance, ClockInvariance, PTL

\* A worker that takes its lease for valid has it in Redis, until less than a second
\* before it expires: whatever it then writes is about its own execution of the
\* task.
THEOREM LeaseBackedTheorem == SingleServer /\ ArchiveKeeps /\ ServerSpec => []LeaseBacked
  <1>1. LeaseInv => LeaseBacked
    BY DEF LeaseInv
  <1> QED BY <1>1, LeaseInvariance, PTL

\* No two workers run one task, each under a lease that it takes for valid.
THEOREM LeaseExclusiveTheorem == SingleServer /\ ArchiveKeeps /\ ServerSpec => []LeaseExclusive
  <1>1. LeaseInv => LeaseExclusive
    BY DEF LeaseInv
  <1> QED BY <1>1, LeaseInvariance, PTL
=============================================================================
