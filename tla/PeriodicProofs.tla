--------------------------- MODULE PeriodicProofs ---------------------------
(***************************************************************************)
(* Proofs about Periodic: what is left when Shutdown returns, for any      *)
(* configs, and that a sync leaves one entry per config, in all that the   *)
(* hash covers, for configs with different hashes in lists without         *)
(* repetition.                                                             *)
(***************************************************************************)
EXTENDS Periodic, FiniteSetTheorems, TLAPS

-----------------------------------------------------------------------------
(* The end: StoppedClean.                                                   *)

Stopping == {"scheduler", "clear", "done"}

\* Shutdown proceeds in stages, each of which finds what the ones before it left:
\* the manager is gone before the scheduler stops, so that the entries stay as they
\* are, the heartbeater and the jobs before the history is cleared.
StoppedInv ==
    /\ job \in [EntryID -> {"none", "enqueue", "record"}]
    /\ stop \in {"no", "manager"} \cup Stopping
    /\ stop \in Stopping => mgr = "ended"
    /\ hb = "ended" => mgr = "ended" /\ (published # {} => uncleared.entries)
    /\ stop \in {"clear", "done"} => hb = "ended" /\ \A id \in EntryID : job[id] = "none"
    /\ stop = "done" => history \cap Registered \subseteq uncleared.history
    /\ uncleared \in [entries: BOOLEAN, history: SUBSET EntryID]

\* No step of the manager, of a job or of the heartbeater undoes a stage of Shutdown.
LEMMA StoppedStep == StoppedInv /\ [PeriodicNext]_periodicVars => StoppedInv'
<1> SUFFICES ASSUME StoppedInv, [PeriodicNext]_periodicVars PROVE StoppedInv'
  OBVIOUS
<1> USE DEF StoppedInv, Stopping, Registered
<1>1. CASE Change
  BY <1>1 DEF Change, mgrVars, redisVars
<1>2. CASE InitialSync
  BY <1>2 DEF InitialSync, mgrVars, redisVars
<1>3. CASE Start
  BY <1>3 DEF Start, mgrVars, redisVars
<1>4. CASE Sync
  BY <1>4 DEF Sync, mgrVars, redisVars
<1>5. CASE RemoveOne
  <2>1. /\ mgr = "remove" /\ UNCHANGED <<job, hb, stop, mgr, published, history, uncleared>>
    BY <1>5 DEF RemoveOne, redisVars
  <2>2. QED
    BY <2>1
<1>6. CASE Removed
  BY <1>6 DEF Removed, mgrVars, redisVars
<1>7. CASE AddOne
  <2>1. /\ mgr \in {"starting", "add"} /\ UNCHANGED <<job, hb, stop, mgr, published, history, uncleared>>
    BY <1>7 DEF AddOne, redisVars
  <2>2. QED
    BY <2>1
<1>8. CASE Synced
  BY <1>8 DEF Synced, mgrVars, redisVars
<1>9. ASSUME NEW id \in EntryID, Fire(id) PROVE StoppedInv'
  BY <1>9 DEF Fire, mgrVars, redisVars
<1>10. ASSUME NEW id \in EntryID, Enqueue(id) PROVE StoppedInv'
  BY <1>10 DEF Enqueue, mgrVars, redisVars
<1>11. ASSUME NEW id \in EntryID, Record(id) PROVE StoppedInv'
  BY <1>11 DEF Record, mgrVars, redisVars
<1>12. CASE beat \/ EntriesExpire
  BY <1>12 DEF beat, EntriesExpire, mgrVars, redisVars
<1>13. CASE Shutdown
  BY <1>13 DEF Shutdown, mgrVars, redisVars
<1>14. CASE ManagerEnds
  BY <1>14 DEF ManagerEnds, mgrVars, redisVars
<1>15. CASE SchedulerShutdown
  BY <1>15 DEF SchedulerShutdown, mgrVars, redisVars
<1>16. CASE HeartbeaterEnds
  BY <1>16 DEF HeartbeaterEnds, ClearEntries, mgrVars, redisVars
<1>17. CASE Wait
  BY <1>17 DEF Wait, mgrVars, redisVars
<1>18. CASE clearHistory
  BY <1>18 DEF clearHistory, mgrVars, redisVars
<1>19. CASE UNCHANGED periodicVars
  BY <1>19 DEF periodicVars, mgrVars, redisVars
<1>20. QED
  BY <1>1, <1>2, <1>3, <1>4, <1>5, <1>6, <1>7, <1>8, <1>9, <1>10, <1>11, <1>12, <1>13, <1>14,
     <1>15, <1>16, <1>17, <1>18, <1>19 DEF PeriodicNext

\* When Shutdown returns, no job is in flight, and no entry is published or has a
\* history again but where a call to Redis to clear it failed and was logged
\* (Scheduler.Shutdown, runHeartbeater, clearHistory), for any configs and any changes
\* of the provider.
THEOREM StoppedTheorem == PeriodicSpec => []StoppedClean
<1>1. PeriodicInit => StoppedInv
  BY DEF PeriodicInit, StoppedInv, Stopping
<1>2. StoppedInv => StoppedClean
  BY DEF StoppedInv, StoppedClean
<1>3. QED
  BY <1>1, <1>2, StoppedStep, PTL DEF PeriodicSpec

-----------------------------------------------------------------------------
(* The entries: EntriesInSync.                                              *)

PeriodicTypes ==
    /\ provided \in Provided \cup {Error}
    /\ configs \in Provided \cup {<<>>}
    /\ removed \subseteq Hash
    /\ added \subseteq DOMAIN configs
    /\ m \in [Hash -> (1 .. next - 1) \cup {Nil}]
    /\ entries \in [EntryID -> Config \cup {Nil}]
    /\ next \in 1 .. MaxEntries + 1

\* The map and the entries are inverse to each other, at every step of a sync.
Paired ==
    /\ \A id \in EntryID : entries[id] # Nil =>
          id < next /\ entries[id].spec \notin BadSpec /\ m[hash(entries[id])] = id
    /\ \A h \in Hash : m[h] # Nil => entries[m[h]] # Nil /\ hash(entries[m[h]]) = h

\* What is registered and not to be removed is one of configs; what is to be removed
\* is registered and is none of them.
ToRemove ==
    /\ \A h \in Hash : m[h] # Nil => h \in removed \/ \E i \in DOMAIN configs : hash(configs[i]) = h
    /\ \A h \in removed : m[h] # Nil /\ \A i \in DOMAIN configs : hash(configs[i]) # h
    /\ mgr # "remove" => removed = {}
    /\ mgr = "new" => configs = <<>>

\* What is to be added is not registered; of the other configs, what cron accepts is.
ToAdd ==
    /\ \A i \in added : m[hash(configs[i])] = Nil
    /\ \A i \in DOMAIN configs \ added :
          configs[i].spec \notin BadSpec => m[hash(configs[i])] # Nil
    /\ mgr = "loop" => added = {}

SyncInv == PeriodicTypes /\ Paired /\ ToRemove /\ ToAdd

\* A config of a list is a config, and its hash a hash.
LEMMA OfList ==
    ASSUME NEW cs \in Provided \cup {<<>>}
    PROVE  \A i \in DOMAIN cs : cs[i] \in Config /\ hash(cs[i]) \in Hash /\ i \in Nat
BY PeriodicAssumption DEF Hash

\* The positions of a list have different hashes.
LEMMA DifferentHashes ==
    ASSUME HashInjective, EachOnce, NEW cs \in Provided \cup {<<>>},
           NEW i \in DOMAIN cs, NEW j \in DOMAIN cs, hash(cs[i]) = hash(cs[j])
    PROVE  i = j
BY OfList DEF HashInjective, EachOnce

\* Before Start nothing is registered and nothing is to be.
LEMMA InitSync == PeriodicInit => SyncInv
BY PeriodicAssumption
   DEF PeriodicInit, SyncInv, PeriodicTypes, Paired, ToRemove, ToAdd, EntryID

\* SyncInv depends on these variables only.
LEMMA SyncUnchanged ==
    ASSUME SyncInv, provided' \in Provided \cup {Error}, mgr' = mgr \/ mgr' = "ended",
           UNCHANGED <<configs, removed, added, m, entries, next>>, mgr' # mgr => mgr = "loop"
    PROVE  SyncInv'
BY DEF SyncInv, PeriodicTypes, Paired, ToRemove, ToAdd

\* initialSync takes all configs up for registration: nothing is registered yet.
LEMMA StepInitialSync == ASSUME SyncInv, InitialSync PROVE SyncInv'
<1>1. provided \in Provided /\ removed = {} /\ configs = <<>>
  BY DEF InitialSync, Valid, SyncInv, PeriodicTypes, ToRemove
<1>2. \A h \in Hash : m[h] = Nil
  BY <1>1 DEF SyncInv, ToRemove
<1>3. \A i \in DOMAIN provided : hash(provided[i]) \in Hash
  BY <1>1, OfList
<1>4. QED
  BY <1>1, <1>2, <1>3 DEF InitialSync, SyncInv, PeriodicTypes, Paired, ToRemove, ToAdd

\* sync compares the map with the configs it got.
LEMMA StepSync == ASSUME SyncInv, Sync PROVE SyncInv'
<1>1. provided \in Provided
  BY DEF Sync, Valid, SyncInv, PeriodicTypes
<1>2. PICK cs \in Provided : cs = provided /\ cs = configs'
  BY <1>1 DEF Sync
<1>3. \A i \in DOMAIN cs : cs[i] \in Config /\ hash(cs[i]) \in Hash
  BY OfList
<1>4. removed' = {h \in Hash : m[h] # Nil /\ \A i \in DOMAIN cs : hash(cs[i]) # h}
  BY <1>2 DEF Sync, diffRemoved, ToSet
<1>5. added' = {i \in DOMAIN cs : m[hash(cs[i])] = Nil}
  BY <1>2 DEF Sync, diffAdded
<1>6. ToRemove'
  BY <1>2, <1>4 DEF ToRemove, Sync
<1>7. ToAdd'
  BY <1>2, <1>3, <1>5 DEF ToAdd, Sync
<1>8. PeriodicTypes' /\ Paired'
  BY <1>2, <1>4, <1>5 DEF SyncInv, PeriodicTypes, Paired, Sync
<1>9. QED
  BY <1>6, <1>7, <1>8 DEF SyncInv

\* remove takes a hash and its entry away together.
LEMMA StepRemoveOne == ASSUME SyncInv, RemoveOne PROVE SyncInv'
<1>1. PICK h \in removed :
        /\ removed' = removed \ {h}
        /\ IF entries[m[h]] = Nil
           THEN UNCHANGED <<entries, m>>
           ELSE entries' = [entries EXCEPT ![m[h]] = Nil] /\ m' = [m EXCEPT ![h] = Nil]
  BY DEF RemoveOne
<1>2. UNCHANGED <<provided, mgr, configs, added, next>> /\ mgr = "remove"
  BY DEF RemoveOne
<1>3. /\ h \in Hash /\ m[h] # Nil /\ entries[m[h]] # Nil
      /\ \A i \in DOMAIN configs : hash(configs[i]) # h
  BY DEF SyncInv, PeriodicTypes, ToRemove, Paired
<1>4. entries' = [entries EXCEPT ![m[h]] = Nil] /\ m' = [m EXCEPT ![h] = Nil]
  BY <1>1, <1>3
<1>5. m[h] \in EntryID
  BY <1>3, PeriodicAssumption DEF SyncInv, PeriodicTypes, EntryID
<1>6. PeriodicTypes'
  BY <1>1, <1>2, <1>4 DEF SyncInv, PeriodicTypes
<1>7. Paired'
  <2>1. ASSUME NEW id \in EntryID, entries'[id] # Nil
        PROVE  /\ id < next' /\ entries'[id].spec \notin BadSpec
               /\ m'[hash(entries'[id])] = id
    <3>1. id # m[h] /\ entries'[id] = entries[id]
      BY <2>1, <1>4, <1>5 DEF SyncInv, PeriodicTypes
    <3>2. id < next /\ entries[id].spec \notin BadSpec /\ m[hash(entries[id])] = id
      BY <2>1, <3>1 DEF SyncInv, Paired
    <3>3. hash(entries[id]) # h
      BY <3>1, <3>2
    <3>4. entries[id] \in Config
      BY <2>1, <3>1 DEF SyncInv, PeriodicTypes
    <3>5. hash(entries[id]) \in Hash
      BY <3>4 DEF Hash
    <3>6. QED
      BY <1>2, <1>4, <3>1, <3>2, <3>3, <3>5 DEF SyncInv, PeriodicTypes
  <2>2. ASSUME NEW l \in Hash, m'[l] # Nil
        PROVE  entries'[m'[l]] # Nil /\ hash(entries'[m'[l]]) = l
    <3>1. l # h /\ m'[l] = m[l]
      BY <2>2, <1>3, <1>4 DEF SyncInv, PeriodicTypes
    <3>2. entries[m[l]] # Nil /\ hash(entries[m[l]]) = l /\ hash(entries[m[h]]) = h
      BY <2>2, <1>3, <3>1 DEF SyncInv, Paired
    <3>3. m[l] # m[h]
      BY <3>1, <3>2
    <3>4. m[l] \in EntryID
      BY <2>2, <3>1, PeriodicAssumption DEF SyncInv, PeriodicTypes, EntryID
    <3>5. QED
      BY <1>4, <3>1, <3>2, <3>3, <3>4 DEF SyncInv, PeriodicTypes
  <2>3. QED
    BY <2>1, <2>2 DEF Paired
<1>8. ToRemove'
  BY <1>1, <1>2, <1>3, <1>4 DEF SyncInv, PeriodicTypes, ToRemove
<1>9. ToAdd'
  <2>1. \A i \in DOMAIN configs : hash(configs[i]) \in Hash
    BY OfList DEF SyncInv, PeriodicTypes
  <2>2. \A i \in DOMAIN configs : m'[hash(configs[i])] = m[hash(configs[i])]
    BY <1>3, <1>4, <2>1 DEF SyncInv, PeriodicTypes
  <2>3. QED
    BY <1>2, <2>2 DEF SyncInv, PeriodicTypes, ToAdd
<1>10. QED
  BY <1>6, <1>7, <1>8, <1>9 DEF SyncInv

\* add registers a config under a new ID and notes it under a hash that was free:
\* with a hash that is in use the entry noted there would be out of reach.
LEMMA StepAddOne ==
    ASSUME HashInjective, EachOnce, SyncInv, AddOne
    PROVE  SyncInv'
<1>1. PICK i \in added :
        /\ added' = added \ {i}
        /\ IF configs[i].spec \in BadSpec
           THEN UNCHANGED <<entries, m, next>>
           ELSE /\ next \in EntryID
                /\ entries' = [entries EXCEPT ![next] = configs[i]]
                /\ m' = [m EXCEPT ![hash(configs[i])] = next]
                /\ next' = next + 1
  BY DEF AddOne
<1>2. UNCHANGED <<provided, mgr, configs, removed>> /\ mgr \in {"starting", "add"}
  BY DEF AddOne
<1>3. CASE configs[i].spec \in BadSpec
  BY <1>1, <1>2, <1>3 DEF SyncInv, PeriodicTypes, Paired, ToRemove, ToAdd
<1>4. CASE configs[i].spec \notin BadSpec
  <2>1. PICK c : c = configs[i]
    OBVIOUS
  <2>2. PICK n : n = next
    OBVIOUS
  <2>3. /\ n \in EntryID /\ next' = n + 1 /\ n \in Nat
        /\ entries' = [entries EXCEPT ![n] = c]
        /\ m' = [m EXCEPT ![hash(c)] = n]
    BY <1>1, <1>4, <2>1, <2>2 DEF EntryID
  <2>4. /\ i \in DOMAIN configs /\ c \in Config /\ hash(c) \in Hash /\ m[hash(c)] = Nil
        /\ c # Nil /\ c.spec \notin BadSpec
    BY <1>4, <2>1, OfList, PeriodicAssumption DEF SyncInv, PeriodicTypes, ToAdd
  <2>5. entries[n] = Nil
    BY <2>2, <2>3 DEF SyncInv, Paired
  <2>6. PeriodicTypes'
    <3>1. next' \in 1 .. MaxEntries + 1
      BY <2>3, PeriodicAssumption DEF EntryID
    <3>2. m' \in [Hash -> (1 .. next' - 1) \cup {Nil}]
      BY <2>2, <2>3, <2>4, PeriodicAssumption DEF SyncInv, PeriodicTypes
    <3>3. entries' \in [EntryID -> Config \cup {Nil}]
      BY <2>3, <2>4 DEF SyncInv, PeriodicTypes
    <3>4. QED
      BY <1>1, <1>2, <3>1, <3>2, <3>3 DEF SyncInv, PeriodicTypes
  <2>7. Paired'
    <3>1. ASSUME NEW id \in EntryID, entries'[id] # Nil
          PROVE  /\ id < next' /\ entries'[id].spec \notin BadSpec
                 /\ m'[hash(entries'[id])] = id
      <4>1. CASE id = n
        BY <4>1, <2>3, <2>4 DEF SyncInv, PeriodicTypes
      <4>2. CASE id # n
        <5>1. entries'[id] = entries[id]
          BY <4>2, <2>3 DEF SyncInv, PeriodicTypes
        <5>2. id < n /\ entries[id].spec \notin BadSpec /\ m[hash(entries[id])] = id
          BY <3>1, <5>1, <2>2 DEF SyncInv, Paired
        <5>3. hash(entries[id]) # hash(c)
          BY <5>2, <2>4, PeriodicAssumption DEF EntryID
        <5>4. entries[id] \in Config
          BY <3>1, <5>1 DEF SyncInv, PeriodicTypes
        <5>5. hash(entries[id]) \in Hash
          BY <5>4 DEF Hash
        <5>6. QED
          BY <2>3, <5>1, <5>2, <5>3, <5>5 DEF SyncInv, PeriodicTypes, EntryID
      <4>3. QED
        BY <4>1, <4>2
    <3>2. ASSUME NEW l \in Hash, m'[l] # Nil
          PROVE  entries'[m'[l]] # Nil /\ hash(entries'[m'[l]]) = l
      <4>1. CASE l = hash(c)
        BY <4>1, <2>3, <2>4 DEF SyncInv, PeriodicTypes
      <4>2. CASE l # hash(c)
        <5>1. m'[l] = m[l]
          BY <4>2, <2>3 DEF SyncInv, PeriodicTypes
        <5>2. entries[m[l]] # Nil /\ hash(entries[m[l]]) = l
          BY <3>2, <5>1 DEF SyncInv, Paired
        <5>3. m[l] # n
          BY <5>2, <2>5
        <5>4. m[l] \in EntryID
          BY <3>2, <5>1, PeriodicAssumption DEF SyncInv, PeriodicTypes, EntryID
        <5>5. QED
          BY <2>3, <5>1, <5>2, <5>3, <5>4 DEF SyncInv, PeriodicTypes
      <4>3. QED
        BY <4>1, <4>2
    <3>3. QED
      BY <3>1, <3>2 DEF Paired
  <2>8. \A l \in Hash : m'[l] = IF l = hash(c) THEN n ELSE m[l]
    BY <2>3, <2>4 DEF SyncInv, PeriodicTypes
  <2>9. ToRemove'
    BY <1>2, <2>1, <2>4, <2>8 DEF SyncInv, PeriodicTypes, ToRemove
  <2>10. ToAdd'
    <3>1. \A j \in DOMAIN configs : hash(configs[j]) \in Hash
      BY OfList DEF SyncInv, PeriodicTypes
    <3>2. \A j \in DOMAIN configs : hash(configs[j]) = hash(c) => j = i
      BY <2>1, <2>4, DifferentHashes DEF SyncInv, PeriodicTypes
    <3>3. n # Nil
      BY <2>3, PeriodicAssumption
    <3>4. QED
      BY <1>1, <1>2, <2>1, <2>8, <3>1, <3>2, <3>3 DEF SyncInv, PeriodicTypes, ToAdd
  <2>11. QED
    BY <2>6, <2>7, <2>9, <2>10 DEF SyncInv
<1>5. QED
  BY <1>3, <1>4

\* Every step keeps the map and the entries paired and what is left of a sync right.
LEMMA SyncStep ==
    ASSUME HashInjective, EachOnce, SyncInv, [PeriodicNext]_periodicVars
    PROVE  SyncInv'
<1>1. CASE Change
  BY <1>1, SyncUnchanged DEF Change, mgrVars
<1>2. CASE Start \/ Removed \/ Synced
  BY <1>2 DEF Start, Removed, Synced, SyncInv, PeriodicTypes, Paired, ToRemove, ToAdd
<1>3. CASE \/ beat \/ EntriesExpire \/ Shutdown \/ ManagerEnds \/ SchedulerShutdown
           \/ HeartbeaterEnds \/ Wait \/ clearHistory
  <2>1. UNCHANGED <<provided, configs, removed, added, m, entries, next>>
    BY <1>3 DEF beat, EntriesExpire, Shutdown, ManagerEnds, SchedulerShutdown, HeartbeaterEnds, Wait,
                clearHistory, mgrVars
  <2>2. mgr' = mgr \/ (mgr = "loop" /\ mgr' = "ended")
    BY <1>3 DEF beat, EntriesExpire, Shutdown, ManagerEnds, SchedulerShutdown, HeartbeaterEnds, Wait,
                clearHistory, mgrVars
  <2>3. QED
    BY <2>1, <2>2, SyncUnchanged DEF SyncInv, PeriodicTypes
<1>4. ASSUME NEW id \in EntryID, Fire(id) \/ Enqueue(id) \/ Record(id) PROVE SyncInv'
  <2>1. UNCHANGED <<provided, mgr, configs, removed, added, m, entries, next>>
    BY <1>4 DEF Fire, Enqueue, Record, mgrVars
  <2>2. QED
    BY <2>1, SyncUnchanged DEF SyncInv, PeriodicTypes
<1>5. CASE UNCHANGED periodicVars
  BY <1>5, SyncUnchanged DEF periodicVars, mgrVars, SyncInv, PeriodicTypes
<1>6. QED
  BY <1>1, <1>2, <1>3, <1>4, <1>5, StepInitialSync, StepSync, StepRemoveOne, StepAddOne
     DEF PeriodicNext

\* Configs that are alike have one hash.
LEMMA AlikeHash ==
    ASSUME NEW c, NEW d, Alike(c, d)
    PROVE  hash(c) = hash(d) /\ c.spec = d.spec
BY DEF Alike, hash

\* With inverse maps, counting the entries of a config is looking its hash up.
LEMMA SyncedMatches ==
    ASSUME HashInjective, SyncInv, mgr = "loop"
    PROVE  Matches(configs)
<1> SUFFICES ASSUME NEW c \in Config
             PROVE  Cardinality({id \in Registered : Alike(entries[id], c)}) =
                      IF c.spec \notin BadSpec /\ \E d \in ToSet(configs) : Alike(d, c) THEN 1 ELSE 0
  BY DEF Matches
<1> DEFINE Of == {id \in Registered : Alike(entries[id], c)}
<1>1. hash(c) \in Hash
  BY DEF Hash
<1>2. removed = {} /\ added = {}
  BY DEF SyncInv, ToRemove, ToAdd
<1>3. CASE c.spec \notin BadSpec /\ \E d \in ToSet(configs) : Alike(d, c)
  <2>1. PICK i \in DOMAIN configs : Alike(configs[i], c)
    BY <1>3 DEF ToSet
  <2>2. m[hash(c)] # Nil
    BY <1>2, <1>3, <2>1, AlikeHash DEF SyncInv, ToAdd
  <2>3. entries[m[hash(c)]] # Nil /\ hash(entries[m[hash(c)]]) = hash(c)
    BY <1>1, <2>2 DEF SyncInv, Paired
  <2>4. m[hash(c)] \in EntryID
    BY <1>1, <2>2, PeriodicAssumption DEF SyncInv, PeriodicTypes, EntryID
  <2>5. Alike(entries[m[hash(c)]], c)
    BY <2>3, <2>4 DEF SyncInv, PeriodicTypes, HashInjective
  <2>6. \A id \in Of : id = m[hash(c)]
    BY AlikeHash DEF Registered, SyncInv, Paired
  <2>7. Of = {m[hash(c)]}
    BY <2>3, <2>4, <2>5, <2>6 DEF Registered
  <2>8. QED
    BY <1>3, <2>7, FS_Singleton
<1>4. CASE ~(c.spec \notin BadSpec /\ \E d \in ToSet(configs) : Alike(d, c))
  <2>1. ASSUME NEW id \in Of PROVE FALSE
    <3>1. hash(entries[id]) = hash(c) /\ entries[id].spec = c.spec
      BY AlikeHash
    <3>2. m[hash(c)] = id /\ c.spec \notin BadSpec /\ id # Nil
      BY <2>1, <3>1, PeriodicAssumption DEF Registered, SyncInv, Paired, EntryID
    <3>3. PICK i \in DOMAIN configs : hash(configs[i]) = hash(c)
      BY <1>1, <1>2, <3>2 DEF SyncInv, ToRemove
    <3>4. Alike(configs[i], c)
      BY <3>3, OfList DEF HashInjective, SyncInv, PeriodicTypes
    <3>5. QED
      BY <1>4, <3>2, <3>4 DEF ToSet
  <2>2. Of = {}
    BY <2>1
  <2>3. QED
    BY <1>4, <2>2, FS_EmptySet
<1>5. QED
  BY <1>3, <1>4

\* After a sync the entries are those of the configs the sync got, each once, in all
\* that the hash covers, and in between the manager reaches every entry
\* (PeriodicTaskManager.sync, add, remove), when no two configs that the hash should
\* tell apart have one hash and no list has two that it does not.
THEOREM SyncTheorem == HashInjective /\ EachOnce /\ PeriodicSpec => []EntriesInSync
<1>1. ASSUME HashInjective, EachOnce PROVE PeriodicSpec => []EntriesInSync
  <2>1. SyncInv /\ [PeriodicNext]_periodicVars => SyncInv'
    BY <1>1, SyncStep
  <2>2. SyncInv => EntriesInSync
    <3>1. SyncInv => EntriesTracked
      BY DEF SyncInv, Paired, EntriesTracked, Registered
    <3>2. QED
      BY <1>1, <3>1, SyncedMatches DEF EntriesInSync
  <2>3. QED
    BY <2>1, <2>2, InitSync, PTL DEF PeriodicSpec
<1>2. QED
  BY <1>1
=============================================================================
