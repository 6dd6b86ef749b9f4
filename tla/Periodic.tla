------------------------------ MODULE Periodic ------------------------------
(***************************************************************************)
(* The periodic task manager and its scheduler.  The manager's goroutine   *)
(* compares the configs of a provider with what it registered and updates  *)
(* the scheduler's entries; the cron library fires the entries as jobs     *)
(* that enqueue a task and record it in Redis; the scheduler's heartbeater *)
(* publishes the entries in Redis; Shutdown ends them in order.            *)
(*                                                                         *)
(* A config is a record of sequences of characters, because its hash runs  *)
(* over their concatenation; its Opts, hashed too, are taken with payload. *)
(* The field rest is what its Task has besides: headers, and the options   *)
(* given to NewTask, which take effect when it is enqueued.                *)
(***************************************************************************)
EXTENDS Integers, Sequences, SequencesExt, FiniteSets

CONSTANTS
    Provided,       \* lists of configs that GetConfigs may return
    BadSpec,        \* cron specs that the cron library refuses
    MaxEntries,     \* bound on registrations
    MaxChanges,     \* bound on changes of the provider
    Error,          \* GetConfigs returns an error
    Nil

EntryID == 1 .. MaxEntries
Config == UNION {ToSet(cs) : cs \in Provided}

ASSUME PeriodicAssumption ==
    /\ MaxEntries \in Nat /\ MaxChanges \in Nat
    /\ \A cs \in Provided : cs \in Seq(Config)
    /\ Error \notin Provided
    /\ Nil \notin Config /\ Nil \notin Nat

VARIABLES
    provided,       \* what GetConfigs returns
    changes,
    mgr,            \* where the manager is
    configs,        \* sync: the configs it got
    removed,        \* sync: hashes yet to be unregistered
    added,          \* sync: positions of the configs yet to be registered
    m,              \* PeriodicTaskManager.m: hash -> entry ID
    entries,        \* Scheduler.idmap and the cron entries
    next,           \* the next entry ID, a UUID
    job,            \* the job in flight of each entry
    hb,             \* Scheduler.runHeartbeater
    stop,           \* where Shutdown is
    published,      \* asynq:schedulers:{<id>}
    history,        \* entries with a key asynq:scheduler_history:<entry>
    uncleared       \* what Shutdown logged that it could not clear

mgrVars == <<mgr, configs, removed, added, m>>
redisVars == <<published, history, uncleared>>
periodicVars == <<provided, changes, mgrVars, entries, next, job, hb, stop, redisVars>>

-----------------------------------------------------------------------------
\* Mutant: the payload is left out of the hash.
hashNoPayload(c) == c.spec \o c.type

\* PeriodicTaskConfig.hash; sha256 taken for injective.
hash(c) == c.spec \o c.type \o c.payload
Hash == {hash(c) : c \in Config}

\* Configs that differ at most in what no hash covers.
Alike(c, d) == c.spec = d.spec /\ c.type = d.type /\ c.payload = d.payload

\* validatePeriodicTaskConfig, of all configs.
Valid(cs) == cs # Error /\ \A c \in ToSet(cs) : c.spec # <<>>

Registered == {id \in EntryID : entries[id] # Nil}

PeriodicTypeOK ==
    /\ provided \in Provided \cup {Error}
    /\ changes \in 0 .. MaxChanges
    /\ mgr \in {"new", "starting", "loop", "remove", "add", "ended"}
    /\ configs \in Provided \cup {<<>>}
    /\ removed \subseteq Hash
    /\ added \subseteq DOMAIN configs
    /\ m \in [Hash -> (1 .. next - 1) \cup {Nil}]
    /\ entries \in [EntryID -> Config \cup {Nil}]
    /\ next \in 1 .. MaxEntries + 1
    /\ job \in [EntryID -> {"none", "enqueue", "record"}]
    /\ hb \in {"none", "run", "ended"}
    /\ stop \in {"no", "manager", "scheduler", "clear", "done"}
    /\ published \subseteq EntryID
    /\ history \subseteq EntryID
    /\ uncleared \in [entries: BOOLEAN, history: SUBSET EntryID]

PeriodicInit ==
    /\ provided \in Provided \cup {Error}
    /\ changes = 0
    /\ mgr = "new"
    /\ configs = <<>>
    /\ removed = {}
    /\ added = {}
    /\ m = [h \in Hash |-> Nil]
    /\ entries = [id \in EntryID |-> Nil]
    /\ next = 1
    /\ job = [id \in EntryID |-> "none"]
    /\ hb = "none"
    /\ stop = "no"
    /\ published = {}
    /\ history = {}
    /\ uncleared = [entries |-> FALSE, history |-> {}]

\* The user's provider; the bound leaves room to register what it returns.
Change ==
    /\ changes < MaxChanges
    /\ \E cs \in Provided \cup {Error} :
         /\ cs # provided
         /\ cs # Error => next + Len(cs) + Cardinality(added) <= MaxEntries + 1
         /\ provided' = cs
    /\ changes' = changes + 1
    /\ UNCHANGED <<mgrVars, entries, next, job, hb, stop, redisVars>>

-----------------------------------------------------------------------------
(* The manager.                                                             *)

\* initialSync: an error ends Start before anything is registered.
InitialSync ==
    /\ mgr = "new"
    /\ Valid(provided)
    /\ configs' = provided
    /\ added' = DOMAIN provided
    /\ mgr' = "starting"
    /\ UNCHANGED <<provided, changes, removed, m, entries, next, job, hb, stop, redisVars>>

\* The rest of Start: Scheduler.Start, its heartbeater, and the goroutine.
Start ==
    /\ mgr = "starting"
    /\ added = {}
    /\ mgr' = "loop"
    /\ hb' = "run"
    /\ UNCHANGED <<provided, changes, configs, removed, added, m, entries, next, job,
                   stop, redisVars>>

diffRemoved(cs) == {h \in Hash : m[h] # Nil /\ \A c \in ToSet(cs) : hash(c) # h}
diffAdded(cs) == {i \in DOMAIN cs : m[hash(cs[i])] = Nil}

\* sync: an error or an invalid config leaves all as it is.
Sync ==
    /\ mgr = "loop"
    /\ Valid(provided)
    /\ configs' = provided
    /\ removed' = diffRemoved(provided)
    /\ added' = diffAdded(provided)
    /\ mgr' = "remove"
    /\ UNCHANGED <<provided, changes, m, entries, next, job, hb, stop, redisVars>>

\* Mutant: the entry is unregistered and stays in the map.
RemoveKeepHash ==
    /\ mgr = "remove"
    /\ \E h \in removed :
         /\ removed' = removed \ {h}
         /\ entries' = [entries EXCEPT ![m[h]] = Nil]
    /\ UNCHANGED <<provided, changes, mgr, configs, added, m, next, job, hb, stop, redisVars>>

\* remove and Scheduler.Unregister, which refuses an unknown entry.
RemoveOne ==
    /\ mgr = "remove"
    /\ \E h \in removed :
         /\ removed' = removed \ {h}
         /\ IF entries[m[h]] = Nil
            THEN UNCHANGED <<entries, m>>
            ELSE /\ entries' = [entries EXCEPT ![m[h]] = Nil]
                 /\ m' = [m EXCEPT ![h] = Nil]
    /\ UNCHANGED <<provided, changes, mgr, configs, added, next, job, hb, stop, redisVars>>

Removed ==
    /\ mgr = "remove"
    /\ removed = {}
    /\ mgr' = "add"
    /\ UNCHANGED <<provided, changes, configs, removed, added, m, entries, next, job,
                   hb, stop, redisVars>>

\* add and Scheduler.Register: one config; a spec that cron refuses is skipped.
AddOne ==
    /\ mgr \in {"starting", "add"}
    /\ \E i \in added :
         /\ \A j \in added : i <= j
         /\ added' = added \ {i}
         /\ IF configs[i].spec \in BadSpec
            THEN UNCHANGED <<entries, m, next>>
            ELSE /\ next \in EntryID
                 /\ entries' = [entries EXCEPT ![next] = configs[i]]
                 /\ m' = [m EXCEPT ![hash(configs[i])] = next]
                 /\ next' = next + 1
    /\ UNCHANGED <<provided, changes, mgr, configs, removed, job, hb, stop, redisVars>>

Synced ==
    /\ mgr = "add"
    /\ added = {}
    /\ mgr' = "loop"
    /\ UNCHANGED <<provided, changes, configs, removed, added, m, entries, next, job, hb,
                   stop, redisVars>>

-----------------------------------------------------------------------------
(* The scheduler.                                                           *)

\* cron fires an entry until cron.Stop; one job of an entry at a time (cron may
\* start the next run of an entry before the last has returned).
Fire(id) ==
    /\ hb # "none"
    /\ stop \in {"no", "manager"}
    /\ id \in Registered
    /\ job[id] = "none"
    /\ job' = [job EXCEPT ![id] = "enqueue"]
    /\ UNCHANGED <<provided, changes, mgrVars, entries, next, hb, stop, redisVars>>

\* enqueueJob.Run: the enqueue succeeds or not, and is recorded.
Enqueue(id) ==
    /\ job[id] = "enqueue"
    /\ \E r \in {"record", "none"} : job' = [job EXCEPT ![id] = r]
    /\ UNCHANGED <<provided, changes, mgrVars, entries, next, hb, stop, redisVars>>

\* RecordSchedulerEnqueueEvent; an error is only logged.
Record(id) ==
    /\ job[id] = "record"
    /\ job' = [job EXCEPT ![id] = "none"]
    /\ history' \in {history, history \cup {id}}
    /\ UNCHANGED <<provided, changes, mgrVars, entries, next, hb, stop, published, uncleared>>

\* WriteSchedulerEntries; a beat that fails changes nothing.
beat ==
    /\ hb = "run"
    /\ published' = Registered
    /\ UNCHANGED <<provided, changes, mgrVars, entries, next, job, hb, stop, history, uncleared>>

\* Two intervals without a beat: the key expires.
EntriesExpire ==
    /\ published # {}
    /\ published' = {}
    /\ UNCHANGED <<provided, changes, mgrVars, entries, next, job, hb, stop, history, uncleared>>

-----------------------------------------------------------------------------
(* Shutdown of the manager, then of the scheduler.                          *)

Shutdown ==
    /\ stop = "no"
    /\ mgr \notin {"new", "starting"}
    /\ stop' = "manager"
    /\ UNCHANGED <<provided, changes, mgrVars, entries, next, job, hb, redisVars>>

\* The goroutine of Start receives from done between two syncs.
ManagerEnds ==
    /\ stop = "manager"
    /\ mgr = "loop"
    /\ mgr' = "ended"
    /\ UNCHANGED <<provided, changes, configs, removed, added, m, entries, next, job, hb,
                   stop, redisVars>>

\* Scheduler.Shutdown: close done and stop cron.
SchedulerShutdown ==
    /\ stop = "manager"
    /\ mgr = "ended"
    /\ stop' = "scheduler"
    /\ UNCHANGED <<provided, changes, mgrVars, entries, next, job, hb, redisVars>>

\* ClearSchedulerEntries: an error, before or after the key is deleted, is logged.
ClearEntries ==
    \/ published' = {} /\ UNCHANGED uncleared
    \/ published' \in {published, {}} /\ uncleared' = [uncleared EXCEPT !.entries = TRUE]

\* Mutant: done is closed after the wait for the heartbeater.
HeartbeaterEndsLate ==
    /\ stop = "clear"
    /\ hb = "run"
    /\ hb' = "ended"
    /\ ClearEntries
    /\ UNCHANGED <<provided, changes, mgrVars, entries, next, job, stop, history>>

HeartbeaterEnds ==
    /\ stop = "scheduler"
    /\ hb = "run"
    /\ hb' = "ended"
    /\ ClearEntries
    /\ UNCHANGED <<provided, changes, mgrVars, entries, next, job, stop, history>>

\* Mutant: the jobs in flight are not waited for.
WaitHeartbeater ==
    /\ stop = "scheduler"
    /\ hb = "ended"
    /\ stop' = "clear"
    /\ UNCHANGED <<provided, changes, mgrVars, entries, next, job, hb, redisVars>>

\* <-ctx.Done() of cron.Stop, and wg.Wait.
Wait ==
    /\ stop = "scheduler"
    /\ hb = "ended"
    /\ \A id \in EntryID : job[id] = "none"
    /\ stop' = "clear"
    /\ UNCHANGED <<provided, changes, mgrVars, entries, next, job, hb, redisVars>>

\* ClearSchedulerHistory, of each entry: of those that fail, which is logged, some
\* are not deleted.
clearHistory ==
    /\ stop = "clear"
    /\ \E failing \in SUBSET Registered : \E kept \in SUBSET failing :
         /\ history' = history \ (Registered \ kept)
         /\ uncleared' = [uncleared EXCEPT !.history = failing]
    /\ stop' = "done"
    /\ UNCHANGED <<provided, changes, mgrVars, entries, next, job, hb, published>>

PeriodicNext ==
    \/ Change
    \/ InitialSync \/ Start \/ Sync \/ RemoveOne \/ Removed \/ AddOne \/ Synced
    \/ \E id \in EntryID : Fire(id) \/ Enqueue(id) \/ Record(id)
    \/ beat \/ EntriesExpire
    \/ Shutdown \/ ManagerEnds \/ SchedulerShutdown \/ HeartbeaterEnds \/ Wait
    \/ clearHistory

PeriodicSpec == PeriodicInit /\ [][PeriodicNext]_periodicVars

\* The tickers of sync fire, goroutines go on, jobs return.  The select of the
\* manager's goroutine may choose its ticker, but not for ever.
PeriodicFairSpec ==
    /\ PeriodicSpec
    /\ WF_periodicVars(InitialSync) /\ WF_periodicVars(Start)
    /\ WF_periodicVars(Sync) /\ WF_periodicVars(RemoveOne) /\ WF_periodicVars(Removed)
    /\ WF_periodicVars(AddOne) /\ WF_periodicVars(Synced)
    /\ \A id \in EntryID : WF_periodicVars(Enqueue(id)) /\ WF_periodicVars(Record(id))
    /\ SF_periodicVars(ManagerEnds)
    /\ WF_periodicVars(SchedulerShutdown) /\ WF_periodicVars(HeartbeaterEnds)
    /\ WF_periodicVars(Wait) /\ WF_periodicVars(clearHistory)

-----------------------------------------------------------------------------
(* Properties.                                                              *)

\* The scheduler has one entry for each of cs that cron accepts, and no other, up
\* to what no hash covers.
Matches(cs) ==
    \A c \in Config :
        Cardinality({id \in Registered : Alike(entries[id], c)}) =
            IF c.spec \notin BadSpec /\ \E d \in ToSet(cs) : Alike(d, c) THEN 1 ELSE 0

\* No two configs that a hash should tell apart have one hash, and a list has no two
\* that it does not tell apart.  EntriesInSync and CatchesUp need both: without the
\* first, MCPeriodic!Shifted, and without the second, PeriodicTwice.cfg, break
\* NoStaleEntry.
HashInjective == \A c, d \in Config : hash(c) = hash(d) => Alike(c, d)
EachOnce == \A cs \in Provided : \A i, j \in DOMAIN cs : Alike(cs[i], cs[j]) => i = j

\* The manager can unregister every entry at any time: the map leads to it.
EntriesTracked == \A id \in Registered : m[hash(entries[id])] = id

\* After a sync the entries are those of the configs the sync got, each once, in all
\* that the hash covers: none is enqueued twice, none is left behind or forgotten,
\* and none is out of the manager's reach in between.
EntriesInSync == EntriesTracked /\ (mgr = "loop" => Matches(configs))

\* When Shutdown returns, no job is in flight, and what is still published or has a
\* history again is what Shutdown said it could not clear.
StoppedClean ==
    stop = "done" =>
        /\ \A id \in EntryID : job[id] = "none"
        /\ published # {} => uncleared.entries
        /\ history \cap Registered \subseteq uncleared.history

\* When the provider's configs stay as they are, the scheduler has them in the end,
\* in all that the hash covers, if no two of them have one hash.
CatchesUp == <>[](stop = "no" /\ mgr # "new" /\ Valid(provided) => Matches(provided))

\* Shutdown returns.
ShutdownReturns == stop # "no" ~> stop = "done"

-----------------------------------------------------------------------------
(* What the code does not keep; see section 5 of the README.                *)

\* What the provider no longer returns is no longer enqueued: GetConfigs is called
\* "to sync the scheduler's entries with the configs returned by the provider".
NoStaleEntry == mgr = "loop" => \A id \in Registered : entries[id] \in ToSet(configs)
=============================================================================
