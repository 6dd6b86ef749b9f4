-------------------------- MODULE AggregatorProofs --------------------------
(***************************************************************************)
(* Proofs about Aggregator: a check whose context is not done owns its     *)
(* set, and no task is dropped, for any tasks, groups, sets, checks and    *)
(* limits, and any number of faults.                                       *)
(***************************************************************************)
EXTENDS Aggregator, FiniteSetTheorems, TLAPS

Covered(t) == AggregatesOf(t) # {}

CheckRecord == [stage: Stages, t: Int, todo: SUBSET Group, g: Group \cup {Nil},
                set: AggKey \cup {Nil}, tasks: SUBSET ClientTask, deadline: Nat, slow: BOOLEAN]

StoreTypes ==
    /\ hash \in [Task -> Hash \cup {Nil}]
    /\ group \in [Group -> ZSet]
    /\ groups \subseteq Group
    /\ aggset \in [AggKey -> ZSet]
    /\ aggsets \in [AggKey -> Int \cup {Nil}]
    /\ added \subseteq ClientTask

\* Groups and sets hold tasks of clients only, so that no delete takes an aggregate,
\* and a set with a deadline has tasks.
StoreOK ==
    /\ StoreTypes
    /\ \A g \in Group : Members(group[g]) \subseteq ClientTask
    /\ \A k \in AggKey : Members(aggset[k]) \subseteq ClientTask
    /\ \A k \in AggKey : aggsets[k] # Nil => Members(aggset[k]) # {}
    /\ NoneDropped

\* What a check with record r may rely on.  From its first read on, its set has lost
\* all of its tasks or none; while its context is not done the set is not stale;
\* before it sends the delete, an aggregate with its tasks was enqueued.
Owns(r) ==
    /\ r.stage \in WithSet => r.set \in AggKey
    /\ r.stage = "score" /\ aggsets[r.set] # Nil => Members(aggset[r.set]) = r.tasks
    /\ r.stage \in {"score", "enqueue", "delete"} => Members(aggset[r.set]) \subseteq r.tasks
    /\ r.stage \in {"enqueue", "delete"} /\ r.deadline # 0 =>
          /\ aggsets[r.set] # Nil /\ aggsets[r.set] >= r.deadline
          /\ Members(aggset[r.set]) = r.tasks
    /\ r.stage = "delete" => \A t \in r.tasks : Covered(t)

\* A delete that nobody waits for still deletes only what was aggregated.
CommandOK(x) ==
    x.op = "delete" =>
        /\ Members(aggset[x.set]) \subseteq x.tasks
        /\ \A t \in x.tasks : Covered(t)

\* No set is known to two checks, or to a check and a command.
Apart ==
    \A c \in Check : chk[c].stage \in WithSet =>
        /\ \A d \in Check \ {c} : chk[d].stage \in WithSet => chk[d].set # chk[c].set
        /\ \A x \in inflight : x.set # chk[c].set

ChecksOK == chk \in [Check -> CheckRecord] /\ \A c \in Check : Owns(chk[c])
CommandsOK == inflight \subseteq Commands /\ \A x \in inflight : CommandOK(x)

AggregatorInv == StoreOK /\ ChecksOK /\ CommandsOK /\ Apart

-----------------------------------------------------------------------------
(* What happens to a set in a step of Redis.                                *)

SetKept(k) == Members(aggset'[k]) = Members(aggset[k]) /\ aggsets'[k] = aggsets[k]
SetGone(k) == Members(aggset'[k]) = {} /\ aggsets'[k] = Nil
CoveredKept == \A t \in ClientTask : Covered(t) => Covered(t)'

\* A check keeps what it relies on when its set stays, or when the set goes and the
\* context of the check is done.
LEMMA OwnsKept ==
    ASSUME NEW r \in CheckRecord, Owns(r), CoveredKept,
           r.stage \in WithSet =>
              \/ SetKept(r.set)
              \/ SetGone(r.set) /\ (r.stage \in {"enqueue", "delete"} => r.deadline = 0)
    PROVE  Owns(r)'
<1>1. r.tasks \subseteq ClientTask /\ r.stage \in Stages
  BY DEF CheckRecord
<1>2. r.stage = "delete" => \A t \in r.tasks : Covered(t)'
  BY <1>1 DEF Owns, CoveredKept
<1>3. CASE r.stage \notin WithSet
  BY <1>3 DEF Owns, WithSet
<1>4. CASE r.stage \in WithSet /\ SetKept(r.set)
  BY <1>2, <1>4 DEF Owns, SetKept, WithSet
<1>5. CASE /\ r.stage \in WithSet /\ SetGone(r.set)
           /\ r.stage \in {"enqueue", "delete"} => r.deadline = 0
  BY <1>2, <1>5 DEF Owns, SetGone, WithSet
<1>6. QED
  BY <1>3, <1>4, <1>5

\* A command keeps what it relies on unless its set grows.
LEMMA CommandKept ==
    ASSUME NEW x \in Commands, CommandOK(x), CoveredKept, SetKept(x.set) \/ SetGone(x.set)
    PROVE  CommandOK(x)'
BY DEF Commands, CommandOK, CoveredKept, SetKept, SetGone

\* An aggregate stays as long as its hash does.
LEMMA CoveredStays ==
    ASSUME \A a \in Task \ ClientTask : Exists(a) => hash'[a] = hash[a]
    PROVE  CoveredKept
<1> SUFFICES ASSUME NEW t \in ClientTask, Covered(t) PROVE Covered(t)'
  BY DEF CoveredKept
<1>1. PICK a \in Task \ ClientTask : Exists(a) /\ t \in hash[a].msg
  BY DEF Covered, AggregatesOf, Aggregates
<1>2. hash'[a] = hash[a]
  BY <1>1
<1>3. QED
  BY <1>1, <1>2 DEF Covered, AggregatesOf, Aggregates, Exists

\* The members of a sorted set.
LEMMA MembersOf ==
    ASSUME NEW z \in ZSet
    PROVE  Members(z) \subseteq Task /\ IsFiniteSet(Members(z)) /\ Members(EmptyZ) = {}
BY TaskAssumption, FS_Subset DEF Members, EmptyZ

-----------------------------------------------------------------------------
(* The scripts.                                                             *)

\* A step that leaves Redis alone.
LEMMA SameStore ==
    ASSUME StoreOK, UNCHANGED <<vars, added>>
    PROVE  StoreOK' /\ CoveredKept /\ \A k \in AggKey : SetKept(k)
<1>1. UNCHANGED <<hash, group, groups, aggset, aggsets, added>>
  BY DEF vars, groupVars
<1>2. QED
  BY <1>1 DEF StoreOK, StoreTypes, NoneDropped, CoveredKept, SetKept, Covered, AggregatesOf,
              Aggregates, Exists, Members

\* A task is in a hash and a group once it is added.
LEMMA AddStore ==
    ASSUME StoreOK, NEW t \in Task, NEW g \in Group, Add(t, g)
    PROVE  StoreOK' /\ CoveredKept /\ \A k \in AggKey : SetKept(k)
<1>1. /\ t \in ClientTask /\ ~Exists(t)
      /\ hash' = [hash EXCEPT ![t] = [NewHash({}, "aggregating") EXCEPT !.group = g]]
      /\ group' = [group EXCEPT ![g][t] = 0]
      /\ groups' = groups \cup {g} /\ UNCHANGED <<aggset, aggsets>>
      /\ added' = added \cup {t}
  BY DEF Add, AddToGroup
<1>2. /\ [NewHash({}, "aggregating") EXCEPT !.group = g] \in Hash
      /\ [NewHash({}, "aggregating") EXCEPT !.group = g] # Nil
  <2>1. {} \in Msg
    BY AggregatorAssumption
  <2>2. [NewHash({}, "aggregating") EXCEPT !.group = g] \in Hash
    BY <2>1 DEF Hash, NewHash, States
  <2>3. QED
    BY <2>2, NilAssumption
<1>3. CoveredKept
  <2>1. \A a \in Task \ ClientTask : hash'[a] = hash[a]
    BY <1>1 DEF StoreOK, StoreTypes
  <2>2. QED
    BY <2>1, CoveredStays
<1>4. StoreTypes'
  <2>1. hash' \in [Task -> Hash \cup {Nil}]
    BY <1>1, <1>2 DEF StoreOK, StoreTypes
  <2>2. group' \in [Group -> ZSet]
    BY <1>1 DEF StoreOK, StoreTypes, ZSet
  <2>3. QED
    BY <1>1, <2>1, <2>2 DEF StoreOK, StoreTypes
<1>5. \A h \in Group : Members(group'[h]) \subseteq ClientTask
  <2>1. \A h \in Group, u \in Task : group'[h][u] # group[h][u] => u = t
    BY <1>1 DEF StoreOK, StoreTypes, ZSet
  <2>2. QED
    BY <1>1, <2>1 DEF StoreOK, Members
<1>6. NoneDropped'
  <2>1. \A u \in Task : Exists(u)' <=> (u = t \/ Exists(u))
    BY <1>1, <1>2 DEF StoreOK, StoreTypes, Exists
  <2>2. \A u \in added : ~Exists(u) => Covered(u)
    BY DEF StoreOK, NoneDropped, Covered
  <2>3. \A u \in added' : Exists(u)' \/ Covered(u)'
    BY <1>1, <1>3, <2>1, <2>2, AggregatorAssumption DEF CoveredKept, StoreOK, StoreTypes
  <2>4. QED
    BY <2>3 DEF NoneDropped, Covered
<1>7. QED
  BY <1>1, <1>3, <1>4, <1>5, <1>6 DEF StoreOK, SetKept

\* AggregationCheck moves tasks of a group to a set that had none, at least one.
LEMMA CheckStore ==
    ASSUME StoreOK, NEW g \in Group, NEW s \in SetID, NEW now \in Int, UNCHANGED added,
           AggregationCheck(g, s, now, GroupMaxSize, GroupMaxDelay, GroupGracePeriod,
                            AggregationTimeout)
    PROVE  /\ StoreOK' /\ CoveredKept
           /\ aggsets[<<g, s>>] = Nil /\ aggsets'[<<g, s>>] # Nil
           /\ \A k \in AggKey : k # <<g, s>> => SetKept(k)
<1> DEFINE n == <<g, s>>
           size == Cardinality(Members(group[g]))
           moved == IF GroupMaxSize = 0 \/ size < GroupMaxSize THEN size ELSE GroupMaxSize
<1>1. PICK ts \in Lowest(group[g], moved) :
        /\ aggset' = [aggset EXCEPT ![n] = [t \in Task |-> IF t \in ts THEN group[g][t]
                                                         ELSE aggset[n][t]]]
        /\ group' = [group EXCEPT ![g] = ZRem(group[g], ts)]
        /\ groups' = IF ts = Members(group[g]) THEN groups \ {g} ELSE groups
  BY DEF AggregationCheck
<1>2. /\ Members(aggset[n]) = {} /\ aggsets[n] = Nil /\ Members(group[g]) # {}
      /\ aggsets' = [aggsets EXCEPT ![n] = AggregationTimeout] /\ UNCHANGED hash
  BY DEF AggregationCheck
<1>3. n \in AggKey /\ AggregationTimeout \in Int /\ AggregationTimeout # Nil
  BY AggregatorAssumption, NilAssumption DEF AggKey
<1>4. ts \subseteq Members(group[g]) /\ ts # {}
  <2>1. ts \in SUBSET Members(group[g]) /\ Cardinality(ts) = moved
    BY DEF Lowest, LowestOf
  <2>2. group[g] \in ZSet
    BY DEF StoreOK, StoreTypes
  <2>3. IsFiniteSet(Members(group[g]))
    BY <2>2, MembersOf
  <2>4. size \in Nat /\ size # 0
    BY <1>2, <2>3, FS_CardinalityType, FS_EmptySet
  <2>5. moved # 0
    BY <2>4, AggregatorAssumption
  <2>6. QED
    BY <2>1, <2>5, FS_EmptySet
<1>5. /\ \A k \in AggKey : k # n => aggset'[k] = aggset[k] /\ aggsets'[k] = aggsets[k]
      /\ aggsets'[n] = AggregationTimeout
      /\ aggset'[n] = [t \in Task |-> IF t \in ts THEN group[g][t] ELSE aggset[n][t]]
  BY <1>1, <1>2, <1>3 DEF StoreOK, StoreTypes
<1>6. Members(aggset'[n]) = ts
  BY <1>2, <1>4, <1>5 DEF Members
<1>7. \A k \in AggKey : k # n => SetKept(k)
  BY <1>5 DEF SetKept
<1>8. CoveredKept
  BY <1>2, CoveredStays
<1>9. StoreTypes'
  <2>1. group[g] \in ZSet /\ aggset[n] \in ZSet
    BY <1>3 DEF StoreOK, StoreTypes
  <2>2. ZRem(group[g], ts) \in ZSet
    BY <2>1 DEF ZRem, ZSet
  <2>3. [t \in Task |-> IF t \in ts THEN group[g][t] ELSE aggset[n][t]] \in ZSet
    BY <2>1 DEF ZSet
  <2>4. aggset' \in [AggKey -> ZSet]
    BY <1>1, <1>3, <2>3 DEF StoreOK, StoreTypes
  <2>5. group' \in [Group -> ZSet]
    BY <1>1, <2>2 DEF StoreOK, StoreTypes
  <2>6. QED
    BY <1>1, <1>2, <1>3, <2>4, <2>5 DEF StoreOK, StoreTypes
<1>10. \A h \in Group : Members(group'[h]) \subseteq ClientTask
  <2>1. \A h \in Group : group'[h] = IF h = g THEN ZRem(group[g], ts) ELSE group[h]
    BY <1>1 DEF StoreOK, StoreTypes
  <2>2. Members(ZRem(group[g], ts)) \subseteq Members(group[g])
    BY DEF Members, ZRem
  <2>3. QED
    BY <2>1, <2>2 DEF StoreOK
<1>11. \A k \in AggKey : Members(aggset'[k]) \subseteq ClientTask /\
                         (aggsets'[k] # Nil => Members(aggset'[k]) # {})
  BY <1>4, <1>5, <1>6 DEF StoreOK
<1>12. NoneDropped'
  BY <1>2 DEF StoreOK, NoneDropped, AggregatesOf, Aggregates, Exists
<1>13. QED
  BY <1>2, <1>3, <1>5, <1>7, <1>8, <1>9, <1>10, <1>11, <1>12 DEF StoreOK

\* An aggregate takes an ID that no hash has.
LEMMA EnqueueStore ==
    ASSUME StoreOK, NEW ts \in SUBSET ClientTask, EnqueueAggregate(ts), UNCHANGED added
    PROVE  /\ StoreOK' /\ CoveredKept
           /\ \A t \in ts : Covered(t)'
           /\ \A k \in AggKey : SetKept(k)
<1>1. PICK a \in Task \ ClientTask : ~Exists(a) /\ Enqueue(a, ts)
  BY DEF EnqueueAggregate
<1>2. /\ hash' = [hash EXCEPT ![a] = NewHash(ts, "pending")]
      /\ UNCHANGED <<group, groups, aggset, aggsets>>
  BY <1>1 DEF Enqueue, groupVars
<1>3. NewHash(ts, "pending") \in Hash /\ NewHash(ts, "pending") # Nil
  <2>1. ts \in Msg
    BY AggregatorAssumption
  <2>2. NewHash(ts, "pending") \in Hash
    BY <2>1 DEF Hash, NewHash, States
  <2>3. QED
    BY <2>2, NilAssumption
<1>4. /\ hash'[a] = NewHash(ts, "pending") /\ hash' \in [Task -> Hash \cup {Nil}]
      /\ \A u \in Task : u # a => hash'[u] = hash[u]
  BY <1>2, <1>3 DEF StoreOK, StoreTypes
<1>5. CoveredKept
  BY <1>1, <1>4, CoveredStays
<1>6. ASSUME NEW t \in ts PROVE Covered(t)'
  <2>1. hash'[a] # Nil /\ t \in hash'[a].msg
    BY <1>3, <1>4 DEF NewHash
  <2>2. QED
    BY <1>1, <2>1 DEF Covered, AggregatesOf, Aggregates, Exists
<1>7. NoneDropped'
  <2>1. \A u \in added : Exists(u) \/ Covered(u)
    BY DEF StoreOK, NoneDropped, Covered
  <2>2. \A u \in Task : Exists(u) => Exists(u)'
    BY <1>1, <1>4 DEF Exists
  <2>3. \A u \in added' : Exists(u)' \/ Covered(u)'
    BY <1>5, <2>1, <2>2, AggregatorAssumption DEF CoveredKept, StoreOK, StoreTypes
  <2>4. QED
    BY <2>3 DEF NoneDropped, Covered
<1>8. QED
  BY <1>2, <1>4, <1>5, <1>6, <1>7 DEF StoreOK, StoreTypes, SetKept, Members

\* DeleteAggregationSet of a set whose tasks are covered drops none.
LEMMA DeleteStore ==
    ASSUME StoreOK, NEW k \in AggKey, DeleteAggregationSet(k), UNCHANGED added,
           \A t \in Members(aggset[k]) : Covered(t)
    PROVE  /\ StoreOK' /\ CoveredKept /\ SetGone(k)
           /\ \A l \in AggKey : l # k => SetKept(l)
<1>1. /\ hash' = [t \in Task |-> IF t \in Members(aggset[k]) THEN Nil ELSE hash[t]]
      /\ aggset' = [aggset EXCEPT ![k] = EmptyZ]
      /\ aggsets' = [aggsets EXCEPT ![k] = Nil]
      /\ UNCHANGED <<group, groups>>
  BY DEF DeleteAggregationSet
<1>2. Members(aggset[k]) \subseteq ClientTask
  BY DEF StoreOK
<1>3. EmptyZ \in ZSet /\ Members(EmptyZ) = {}
  BY DEF EmptyZ, ZSet, Members
<1>4. /\ aggset'[k] = EmptyZ /\ aggsets'[k] = Nil
      /\ \A l \in AggKey : l # k => aggset'[l] = aggset[l] /\ aggsets'[l] = aggsets[l]
  BY <1>1 DEF StoreOK, StoreTypes
<1>5. CoveredKept
  BY <1>1, <1>2, CoveredStays
<1>6. StoreTypes'
  BY <1>1, <1>3 DEF StoreOK, StoreTypes
<1>7. NoneDropped'
  <2>1. \A u \in added : Exists(u) \/ Covered(u)
    BY DEF StoreOK, NoneDropped, Covered
  <2>2. \A u \in Task : Exists(u) => Exists(u)' \/ Covered(u)
    BY <1>1 DEF Exists
  <2>3. \A u \in added' : Exists(u)' \/ Covered(u)'
    BY <1>5, <2>1, <2>2, AggregatorAssumption DEF CoveredKept, StoreOK, StoreTypes
  <2>4. QED
    BY <2>3 DEF NoneDropped, Covered
<1>8. QED
  BY <1>1, <1>3, <1>4, <1>5, <1>6, <1>7 DEF StoreOK, SetGone, SetKept

\* ReclaimStaleAggregationSets empties the sets past their deadline.
LEMMA ReclaimStore ==
    ASSUME StoreOK, ReclaimStaleAggregationSets(0), UNCHANGED added
    PROVE  /\ StoreOK' /\ CoveredKept
           /\ \A k \in AggKey :
                SetKept(k) \/ (SetGone(k) /\ aggsets[k] # Nil /\ aggsets[k] <= 0)
<1>1. PICK stale : stale = {k \in AggKey : aggsets[k] # Nil /\ aggsets[k] <= 0}
  OBVIOUS
<1> DEFINE Sources(g, t) == {k \in stale : k[1] = g /\ aggset[k][t] # Nil}
<1>2. /\ group' = [g \in Group |-> [t \in Task |->
                     IF Sources(g, t) = {} THEN group[g][t]
                     ELSE aggset[CHOOSE k \in Sources(g, t) : TRUE][t]]]
      /\ aggset' = [k \in AggKey |-> IF k \in stale THEN EmptyZ ELSE aggset[k]]
      /\ aggsets' = [k \in AggKey |-> IF k \in stale THEN Nil ELSE aggsets[k]]
      /\ UNCHANGED <<hash, groups>>
  BY <1>1 DEF ReclaimStaleAggregationSets
<1>3. EmptyZ \in ZSet /\ Members(EmptyZ) = {}
  BY DEF EmptyZ, ZSet, Members
<1>4. ASSUME NEW g \in Group, NEW t \in Task
      PROVE  /\ group'[g][t] \in Int \cup {Nil}
             /\ group'[g][t] # Nil => t \in ClientTask
  <2>1. CASE Sources(g, t) = {}
    BY <1>2, <2>1 DEF StoreOK, StoreTypes, ZSet, Members
  <2>2. CASE Sources(g, t) # {}
    <3>1. PICK k \in Sources(g, t) : group'[g][t] = aggset[k][t]
      BY <1>2, <2>2
    <3>2. k \in AggKey
      BY <1>1
    <3>3. QED
      BY <3>1, <3>2 DEF StoreOK, StoreTypes, ZSet, Members
  <2>3. QED
    BY <2>1, <2>2
<1>5. group' \in [Group -> ZSet] /\ \A g \in Group : Members(group'[g]) \subseteq ClientTask
  <2>1. ASSUME NEW g \in Group PROVE group'[g] \in ZSet
    <3>1. group'[g] = [t \in Task |-> group'[g][t]]
      BY <1>2
    <3>2. QED
      BY <1>4, <3>1 DEF ZSet
  <2>2. DOMAIN group' = Group /\ group' = [g \in Group |-> group'[g]]
    BY <1>2
  <2>3. QED
    BY <1>4, <2>1, <2>2 DEF Members
<1>6. \A k \in AggKey :
        SetKept(k) \/ (SetGone(k) /\ aggsets[k] # Nil /\ aggsets[k] <= 0)
  BY <1>1, <1>2, <1>3 DEF SetKept, SetGone
<1>7. CoveredKept
  BY <1>2, CoveredStays
<1>8. StoreTypes'
  BY <1>2, <1>3, <1>5 DEF StoreOK, StoreTypes
<1>9. NoneDropped'
  BY <1>2 DEF StoreOK, NoneDropped, AggregatesOf, Aggregates, Exists
<1>10. QED
  BY <1>5, <1>6, <1>7, <1>8, <1>9 DEF StoreOK, SetKept, SetGone

-----------------------------------------------------------------------------
(* The steps of a check.                                                    *)

\* One check moves on, and no set of another check changes.
LEMMA CheckStep ==
    ASSUME AggregatorInv, NEW c \in Check, NEW r \in CheckRecord,
           chk' = [chk EXCEPT ![c] = r], Owns(r)',
           StoreOK', CoveredKept, CommandsOK',
           \A d \in Check \ {c} : chk[d].stage \in WithSet => SetKept(chk[d].set),
           r.stage \in WithSet =>
              /\ \A d \in Check \ {c} : chk[d].stage \in WithSet => chk[d].set # r.set
              /\ \A x \in inflight' : x.set # r.set,
           \A x \in inflight' \ inflight : chk[c].stage \in WithSet /\ x.set = chk[c].set
    PROVE  AggregatorInv'
<1>1. chk' \in [Check -> CheckRecord] /\ chk'[c] = r /\ \A d \in Check \ {c} : chk'[d] = chk[d]
  BY DEF AggregatorInv, ChecksOK
<1>2. ASSUME NEW d \in Check PROVE Owns(chk[d])'
  <2>1. CASE d = c
    <3>1. r = chk'[d]
      BY <1>1, <2>1
    <3>2. QED
      BY <3>1 DEF Owns, Covered, AggregatesOf, Aggregates, Exists
  <2>2. CASE d # c
    <3>1. PICK x \in CheckRecord : x = chk[d]
      BY DEF AggregatorInv, ChecksOK
    <3>2. Owns(x)
      BY <3>1 DEF AggregatorInv, ChecksOK
    <3>3. x.stage \in WithSet => SetKept(x.set)
      BY <2>2, <3>1
    <3>4. Owns(x)'
      BY <3>2, <3>3, OwnsKept
    <3>5. x = chk'[d]
      BY <1>1, <2>2, <3>1
    <3>6. QED
      BY <3>4, <3>5 DEF Owns, Covered, AggregatesOf, Aggregates, Exists
  <2>3. QED
    BY <2>1, <2>2
<1>3. ChecksOK'
  BY <1>1, <1>2 DEF ChecksOK
<1>4. Apart'
  <2>1. SUFFICES ASSUME NEW d \in Check, chk'[d].stage \in WithSet
                 PROVE  /\ \A e \in Check \ {d} : chk'[e].stage \in WithSet =>
                              chk'[e].set # chk'[d].set
                        /\ \A x \in inflight' : x.set # chk'[d].set
    BY DEF Apart
  <2>2. CASE d = c
    BY <1>1, <2>1, <2>2
  <2>3. CASE d # c
    <3>1. chk'[d] = chk[d]
      BY <1>1, <2>3
    <3>2. \A e \in Check \ {d} : chk[e].stage \in WithSet => chk[e].set # chk[d].set
      BY <2>1, <3>1 DEF AggregatorInv, Apart
    <3>3. \A x \in inflight : x.set # chk[d].set
      BY <2>1, <3>1 DEF AggregatorInv, Apart
    <3>4. \A x \in inflight' : x.set # chk[d].set
      BY <2>3, <3>2, <3>3
    <3>5. ASSUME NEW e \in Check \ {d}, chk'[e].stage \in WithSet PROVE chk'[e].set # chk'[d].set
      <4>1. CASE e = c
        BY <1>1, <2>1, <2>3, <3>1, <3>5, <4>1
      <4>2. CASE e # c
        BY <1>1, <3>1, <3>2, <3>5, <4>2
      <4>3. QED
        BY <4>1, <4>2
    <3>6. QED
      BY <3>1, <3>4, <3>5
  <2>4. QED
    BY <2>2, <2>3
<1>5. QED
  BY <1>3, <1>4 DEF AggregatorInv

\* The commands in flight, when no set of theirs grows.
LEMMA CommandsKept ==
    ASSUME CommandsOK, CoveredKept, inflight' \subseteq inflight,
           \A x \in inflight' : SetKept(x.set) \/ SetGone(x.set)
    PROVE  CommandsOK'
<1>1. \A x \in inflight' : CommandOK(x)'
  BY CommandKept DEF CommandsOK
<1>2. QED
  BY <1>1 DEF CommandsOK

\* A check reads, gives up or stalls: nothing happens in Redis.
LEMMA QuietStep ==
    ASSUME AggregatorInv, NEW c \in Check, NEW r \in CheckRecord,
           chk' = [chk EXCEPT ![c] = r], UNCHANGED <<vars, added, inflight>>, Owns(r),
           r.stage \in WithSet => chk[c].stage \in WithSet /\ r.set = chk[c].set
    PROVE  AggregatorInv'
<1>1. StoreOK' /\ CoveredKept /\ \A k \in AggKey : SetKept(k)
  BY SameStore DEF AggregatorInv
<1>2. \A x \in inflight : x.set \in AggKey
  BY DEF AggregatorInv, CommandsOK, Commands
<1>3. CommandsOK'
  BY <1>1, <1>2, CommandsKept DEF AggregatorInv
<1>4. \A d \in Check : chk[d].stage \in WithSet => chk[d].set \in AggKey
  BY DEF AggregatorInv, ChecksOK, Owns
<1>5. r.stage \in WithSet => r.set \in AggKey
  BY DEF Owns
<1>6. Owns(r)'
  BY <1>1, <1>5, OwnsKept
<1>7. r.stage \in WithSet =>
        /\ \A d \in Check \ {c} : chk[d].stage \in WithSet => chk[d].set # r.set
        /\ \A x \in inflight' : x.set # r.set
  BY DEF AggregatorInv, Apart
<1>8. QED
  BY <1>1, <1>3, <1>4, <1>6, <1>7, CheckStep

\* A check that has no set relies on nothing.
LEMMA NoSet ==
    ASSUME NEW r \in CheckRecord, r.stage \notin WithSet
    PROVE  Owns(r) /\ Owns(r)'
BY DEF Owns, WithSet

\* After its group a check has no set.
LEMMA ContinuedFacts ==
    ASSUME NEW c \in Check, chk \in [Check -> CheckRecord], NEW g
    PROVE  /\ Continued(c, g) \in CheckRecord /\ Continued(c, g).stage \notin WithSet
           /\ Idle \in CheckRecord /\ Idle.stage \notin WithSet
<1>1. chk[c].todo \in SUBSET Group /\ chk[c].t \in Int
  BY DEF CheckRecord
<1>2. Idle \in CheckRecord /\ Idle.stage \notin WithSet
  BY DEF Idle, CheckRecord, Stages, WithSet
<1>3. QED
  BY <1>1, <1>2 DEF Continued, Idle, CheckRecord, Stages, WithSet

\* A check ends, or goes on to its next group, without a call that changes Redis.
LEMMA LeaveStep ==
    ASSUME AggregatorInv, NEW c \in Check, NEW r \in CheckRecord, r.stage \notin WithSet,
           chk' = [chk EXCEPT ![c] = r], UNCHANGED <<vars, added, inflight>>
    PROVE  AggregatorInv'
BY NoSet, QuietStep

\* The steps after which the check has no set: the start of a check, a group without
\* aggregation, a call that fails, the death of the server.
LEMMA IdleSteps ==
    ASSUME AggregatorInv, NEW c \in Check,
           \/ Exec(c) \/ ListGroups(c) \/ EnqueueFailed(c) \/ DeleteFailed(c) \/ Crash(c)
           \/ \E g \in Group : NoAggregation(c, g)
    PROVE  AggregatorInv'
<1>1. chk \in [Check -> CheckRecord] /\ groups \subseteq Group
  BY DEF AggregatorInv, ChecksOK, StoreOK, StoreTypes
<1>2. /\ [Idle EXCEPT !.stage = "list"] \in CheckRecord
      /\ [Idle EXCEPT !.stage = "list"].stage \notin WithSet
  <2>1. Idle \in CheckRecord
    BY <1>1, ContinuedFacts
  <2>2. QED
    BY <2>1 DEF CheckRecord, Stages, WithSet
<1>3. /\ [chk[c] EXCEPT !.stage = "check", !.todo = groups] \in CheckRecord
      /\ [chk[c] EXCEPT !.stage = "check", !.todo = groups].stage \notin WithSet
  BY <1>1 DEF CheckRecord, Stages, WithSet
<1>4. UNCHANGED <<vars, added, inflight>>
  BY DEF Exec, ListGroups, EnqueueFailed, DeleteFailed, Crash, NoAggregation
<1>5. \E r \in CheckRecord : r.stage \notin WithSet /\ chk' = [chk EXCEPT ![c] = r]
  <2>1. CASE Exec(c)
    BY <1>2, <2>1 DEF Exec, Set
  <2>2. CASE ListGroups(c) \/ Crash(c)
    BY <1>1, <1>3, <2>2, ContinuedFacts DEF ListGroups, Crash, Set
  <2>3. CASE EnqueueFailed(c) \/ DeleteFailed(c)
    BY <1>1, <2>3, ContinuedFacts DEF EnqueueFailed, DeleteFailed, Set
  <2>4. ASSUME NEW g \in Group, NoAggregation(c, g)
        PROVE  \E r \in CheckRecord : r.stage \notin WithSet /\ chk' = [chk EXCEPT ![c] = r]
    BY <1>1, <2>4, ContinuedFacts DEF NoAggregation, Set
  <2>5. QED
    BY <2>1, <2>2, <2>3, <2>4
<1>6. QED
  BY <1>4, <1>5, LeaveStep

\* ReadMessages: what the check reads is what its set holds at that moment.
LEMMA StepReadMessages ==
    ASSUME AggregatorInv, NEW c \in Check, ReadMessages(c)
    PROVE  AggregatorInv'
<1>1. PICK r : r = [chk[c] EXCEPT !.stage = "score", !.tasks = Members(aggset[chk[c].set])]
  OBVIOUS
<1>2. chk[c] \in CheckRecord /\ chk[c].stage = "read" /\ chk[c].set \in AggKey
  BY DEF ReadMessages, AggregatorInv, ChecksOK, Owns, WithSet
<1>3. Members(aggset[chk[c].set]) \subseteq ClientTask
  BY <1>2 DEF AggregatorInv, StoreOK
<1>4. /\ r \in CheckRecord /\ r.stage = "score" /\ r.set = chk[c].set
      /\ r.tasks = Members(aggset[chk[c].set])
  BY <1>1, <1>2, <1>3 DEF CheckRecord, Stages
<1>5. Owns(r)
  BY <1>2, <1>4 DEF Owns
<1>6. chk' = [chk EXCEPT ![c] = r] /\ UNCHANGED <<vars, added, inflight>>
  BY <1>1 DEF ReadMessages, Set
<1>7. QED
  BY <1>2, <1>4, <1>5, <1>6, QuietStep DEF WithSet

\* ReadDeadline: a deadline that is there means that the set was not reclaimed since
\* the messages were read, and the context ends no later than the set becomes stale.
LEMMA StepReadDeadline ==
    ASSUME AggregatorInv, NEW c \in Check, ReadDeadline(c)
    PROVE  AggregatorInv'
<1>1. PICK k : k = chk[c].set
  OBVIOUS
<1>2. chk[c] \in CheckRecord /\ chk[c].stage = "score" /\ k \in AggKey /\ Owns(chk[c])
  BY <1>1 DEF ReadDeadline, AggregatorInv, ChecksOK, Owns, WithSet
<1>3. UNCHANGED <<vars, added, inflight>> /\ chk \in [Check -> CheckRecord]
  BY DEF ReadDeadline, AggregatorInv, ChecksOK
<1>4. CASE aggsets[k] = Nil
  <2>1. chk' = [chk EXCEPT ![c] = Continued(c, chk[c].g)]
    BY <1>1, <1>4 DEF ReadDeadline, Set
  <2>2. PICK r \in CheckRecord : r.stage \notin WithSet /\ chk' = [chk EXCEPT ![c] = r]
    BY <1>3, <2>1, ContinuedFacts
  <2>3. QED
    BY <1>3, <2>2, LeaveStep
<1>5. CASE aggsets[k] # Nil
  <2>1. PICK d : d = IF aggsets[k] < 0 THEN 0 ELSE aggsets[k]
    OBVIOUS
  <2>2. aggsets[k] \in Int
    BY <1>2, <1>5 DEF AggregatorInv, StoreOK, StoreTypes
  <2>3. d \in Nat /\ (d # 0 => aggsets[k] >= d)
    BY <2>1, <2>2
  <2>4. PICK r : r = [chk[c] EXCEPT !.stage = "enqueue", !.deadline = d]
    OBVIOUS
  <2>5. /\ r \in CheckRecord /\ r.stage = "enqueue" /\ r.set = k
        /\ r.tasks = chk[c].tasks /\ r.deadline = d
    BY <1>1, <1>2, <2>3, <2>4 DEF CheckRecord, Stages
  <2>6. Owns(r)
    BY <1>1, <1>2, <1>5, <2>3, <2>5 DEF Owns
  <2>7. chk' = [chk EXCEPT ![c] = r]
    BY <1>1, <1>5, <2>1, <2>4 DEF ReadDeadline, Set
  <2>8. QED
    BY <1>1, <1>2, <1>3, <2>5, <2>6, <2>7, QuietStep DEF WithSet
<1>6. QED
  BY <1>4, <1>5

\* Stall: to be slow changes nothing that the check relies on.
LEMMA StepStall ==
    ASSUME AggregatorInv, NEW c \in Check, Stall(c)
    PROVE  AggregatorInv'
<1>1. PICK r : r = [chk[c] EXCEPT !.slow = TRUE]
  OBVIOUS
<1>2. chk[c] \in CheckRecord /\ chk[c].stage \in WithSet /\ Owns(chk[c])
  BY DEF Stall, AggregatorInv, ChecksOK
<1>3. /\ r \in CheckRecord /\ r.stage = chk[c].stage /\ r.set = chk[c].set
      /\ r.tasks = chk[c].tasks /\ r.deadline = chk[c].deadline
  BY <1>1, <1>2 DEF CheckRecord
<1>4. Owns(r)
  BY <1>2, <1>3 DEF Owns
<1>5. chk' = [chk EXCEPT ![c] = r] /\ UNCHANGED <<vars, added, inflight>>
  BY <1>1 DEF Stall, Set
<1>6. QED
  BY <1>2, <1>3, <1>4, <1>5, QuietStep

\* RunCheck fills a set that no check and no command knows.
LEMMA RunCheckStore ==
    ASSUME AggregatorInv, NEW c \in Check, NEW g \in Group, RunCheck(c, g), UNCHANGED added
    PROVE  \E k \in AggKey :
             /\ k[1] = g /\ Fresh(k) /\ StoreOK' /\ CoveredKept
             /\ aggsets[k] = Nil /\ aggsets'[k] # Nil
             /\ \A l \in AggKey : l # k => SetKept(l)
<1>1. PICK s \in SetID :
        /\ Fresh(<<g, s>>)
        /\ AggregationCheck(g, s, chk[c].t, GroupMaxSize, GroupMaxDelay, GroupGracePeriod,
                            AggregationTimeout)
  BY DEF RunCheck
<1>2. PICK now : now = chk[c].t
  OBVIOUS
<1>3. now \in Int
  BY <1>2 DEF AggregatorInv, ChecksOK, CheckRecord
<1>4. /\ StoreOK' /\ CoveredKept
      /\ aggsets[<<g, s>>] = Nil /\ aggsets'[<<g, s>>] # Nil
      /\ \A k \in AggKey : k # <<g, s>> => SetKept(k)
  BY <1>1, <1>2, <1>3, CheckStore DEF AggregatorInv
<1>5. <<g, s>> \in AggKey /\ <<g, s>>[1] = g
  BY DEF AggKey
<1>6. QED
  BY <1>1, <1>4, <1>5

\* The sets of the checks and of the commands are keys of sets.
LEMMA KnownSets ==
    ASSUME AggregatorInv
    PROVE  /\ \A d \in Check : chk[d].stage \in WithSet => chk[d].set \in AggKey
           /\ \A x \in inflight : x.set \in AggKey
BY DEF AggregatorInv, ChecksOK, Owns, CommandsOK, Commands

\* AggregationChecked: the check knows the one set that was made, and no other does.
LEMMA StepAggregationChecked ==
    ASSUME AggregatorInv, NEW c \in Check, NEW g \in Group, AggregationChecked(c, g)
    PROVE  AggregatorInv'
<1>1. UNCHANGED <<added, inflight>> /\ RunCheck(c, g)
  BY DEF AggregationChecked
<1>2. PICK k \in AggKey :
        /\ k[1] = g /\ Fresh(k) /\ StoreOK' /\ CoveredKept
        /\ aggsets[k] = Nil /\ aggsets'[k] # Nil
        /\ \A l \in AggKey : l # k => SetKept(l)
  BY <1>1, RunCheckStore
<1>3. Made(g) = k
  BY <1>2 DEF Made, SetKept
<1>4. PICK r : r = [chk[c] EXCEPT !.stage = "read", !.g = g, !.set = k]
  OBVIOUS
<1>5. chk' = [chk EXCEPT ![c] = r]
  BY <1>3, <1>4 DEF AggregationChecked, Set
<1>6. r \in CheckRecord /\ r.stage = "read" /\ r.set = k
  <2>1. chk[c] \in CheckRecord
    BY DEF AggregatorInv, ChecksOK
  <2>2. QED
    BY <1>4, <2>1 DEF CheckRecord, Stages
<1>7. Owns(r)'
  BY <1>6 DEF Owns
<1>8. \A d \in Check : chk[d].set # k
  BY <1>2 DEF Fresh
<1>9. \A x \in inflight : x.set # k
  BY <1>2 DEF Fresh
<1>10. \A d \in Check \ {c} : chk[d].stage \in WithSet => SetKept(chk[d].set)
  BY <1>2, <1>8, KnownSets
<1>11. CommandsOK'
  BY <1>1, <1>2, <1>9, KnownSets, CommandsKept DEF AggregatorInv
<1>12. QED
  BY <1>1, <1>2, <1>5, <1>6, <1>7, <1>8, <1>9, <1>10, <1>11, CheckStep

\* EnqueueContext: the check goes on to the delete with an aggregate in the queue.
LEMMA StepEnqueueContext ==
    ASSUME AggregatorInv, NEW c \in Check, EnqueueContext(c)
    PROVE  AggregatorInv'
<1>1. PICK x : x = chk[c]
  OBVIOUS
<1>2. /\ x \in CheckRecord /\ x.stage = "enqueue" /\ x.deadline # 0 /\ Owns(x)
      /\ UNCHANGED <<added, inflight>> /\ EnqueueAggregate(x.tasks)
  BY <1>1 DEF EnqueueContext, CtxDone, AggregatorInv, ChecksOK
<1>3. x.tasks \in SUBSET ClientTask
  BY <1>2 DEF CheckRecord
<1>4. /\ StoreOK' /\ CoveredKept
      /\ \A t \in x.tasks : Covered(t)'
      /\ \A k \in AggKey : SetKept(k)
  BY <1>2, <1>3, EnqueueStore DEF AggregatorInv
<1>5. PICK r : r = [x EXCEPT !.stage = "delete"]
  OBVIOUS
<1>6. /\ r \in CheckRecord /\ r.stage = "delete" /\ r.set = x.set
      /\ r.tasks = x.tasks /\ r.deadline = x.deadline
  BY <1>2, <1>5 DEF CheckRecord, Stages
<1>7. x.set \in AggKey
  BY <1>2 DEF Owns, WithSet
<1>8. Owns(r)'
  BY <1>2, <1>4, <1>6, <1>7 DEF Owns, SetKept
<1>9. chk' = [chk EXCEPT ![c] = r]
  BY <1>1, <1>5 DEF EnqueueContext, Set
<1>10. CommandsOK'
  BY <1>2, <1>4, KnownSets, CommandsKept DEF AggregatorInv
<1>11. \A d \in Check \ {c} : chk[d].stage \in WithSet => SetKept(chk[d].set)
  BY <1>4, KnownSets
<1>12. /\ \A d \in Check \ {c} : chk[d].stage \in WithSet => chk[d].set # r.set
       /\ \A y \in inflight' : y.set # r.set
  BY <1>1, <1>2, <1>6 DEF AggregatorInv, Apart, WithSet
<1>13. QED
  BY <1>2, <1>4, <1>6, <1>8, <1>9, <1>10, <1>11, <1>12, CheckStep

\* Delete: only the check that knows the set deletes it.
LEMMA StepDelete ==
    ASSUME AggregatorInv, NEW c \in Check, Delete(c)
    PROVE  AggregatorInv'
<1>1. PICK x : x = chk[c]
  OBVIOUS
<1>2. PICK r : r = Continued(c, chk[c].g)
  OBVIOUS
<1>3. /\ x \in CheckRecord /\ x.stage = "delete" /\ Owns(x)
      /\ UNCHANGED <<added, inflight>> /\ DeleteAggregationSet(x.set)
  BY <1>1 DEF Delete, AggregatorInv, ChecksOK
<1>4. chk' = [chk EXCEPT ![c] = r] /\ r \in CheckRecord /\ r.stage \notin WithSet
  BY <1>2, ContinuedFacts DEF Delete, Set, AggregatorInv, ChecksOK
<1>5. x.set \in AggKey /\ \A t \in Members(aggset[x.set]) : Covered(t)
  BY <1>3 DEF Owns, WithSet
<1>6. /\ StoreOK' /\ CoveredKept /\ SetGone(x.set)
      /\ \A l \in AggKey : l # x.set => SetKept(l)
  BY <1>3, <1>5, DeleteStore DEF AggregatorInv
<1>7. \A d \in Check \ {c} : chk[d].stage \in WithSet => chk[d].set # x.set
  BY <1>1, <1>3 DEF AggregatorInv, Apart, WithSet
<1>8. \A d \in Check \ {c} : chk[d].stage \in WithSet => SetKept(chk[d].set)
  BY <1>6, <1>7, KnownSets
<1>9. CommandsOK'
  BY <1>3, <1>6, KnownSets, CommandsKept DEF AggregatorInv
<1>10. Owns(r)'
  BY <1>4, NoSet
<1>11. QED
  BY <1>3, <1>4, <1>6, <1>8, <1>9, <1>10, CheckStep

\* CallFailed: a set that AggregationCheck has filled for a caller that saw an error
\* is known to nobody.
LEMMA StepCallFailed ==
    ASSUME AggregatorInv, NEW c \in Check, CallFailed(c)
    PROVE  AggregatorInv'
<1>1. chk \in [Check -> CheckRecord] /\ UNCHANGED <<added, inflight>>
  BY DEF AggregatorInv, ChecksOK, CallFailed
<1>2. PICK r \in CheckRecord : r.stage \notin WithSet /\ chk' = [chk EXCEPT ![c] = r]
  <2>1. \/ chk' = [chk EXCEPT ![c] = Idle]
        \/ \E g \in chk[c].todo : chk' = [chk EXCEPT ![c] = Continued(c, g)]
        \/ chk' = [chk EXCEPT ![c] = Continued(c, chk[c].g)]
    BY DEF CallFailed, Set
  <2>2. QED
    BY <1>1, <2>1, ContinuedFacts
<1>3. CASE UNCHANGED vars
  BY <1>1, <1>2, <1>3, LeaveStep
<1>4. CASE \E g \in chk[c].todo : RunCheck(c, g)
  <2>1. PICK g \in Group : RunCheck(c, g)
    BY <1>1, <1>4 DEF CheckRecord
  <2>2. PICK k \in AggKey :
          /\ k[1] = g /\ Fresh(k) /\ StoreOK' /\ CoveredKept
          /\ aggsets[k] = Nil /\ aggsets'[k] # Nil
          /\ \A l \in AggKey : l # k => SetKept(l)
    BY <1>1, <2>1, RunCheckStore
  <2>3. (\A d \in Check : chk[d].set # k) /\ (\A x \in inflight : x.set # k)
    BY <2>2 DEF Fresh
  <2>4. CommandsOK'
    BY <1>1, <2>2, <2>3, KnownSets, CommandsKept DEF AggregatorInv
  <2>5. \A d \in Check \ {c} : chk[d].stage \in WithSet => SetKept(chk[d].set)
    BY <2>2, <2>3, KnownSets
  <2>6. Owns(r)'
    BY <1>2, NoSet
  <2>7. QED
    BY <1>1, <1>2, <2>2, <2>4, <2>5, <2>6, CheckStep
<1>5. QED
  BY <1>3, <1>4 DEF CallFailed

\* ReplyLost: the command inherits what its check relied on.
LEMMA StepReplyLost ==
    ASSUME AggregatorInv, NEW c \in Check, ReplyLost(c)
    PROVE  AggregatorInv'
<1>1. PICK x : x = chk[c]
  OBVIOUS
<1>2. PICK r : r = Continued(c, chk[c].g)
  OBVIOUS
<1>3. PICK y : y = [op |-> x.stage, set |-> x.set, tasks |-> x.tasks]
  OBVIOUS
<1>4. /\ x \in CheckRecord /\ x.stage \in {"enqueue", "delete"} /\ Owns(x)
      /\ UNCHANGED <<vars, added>> /\ inflight' = inflight \cup {y}
  BY <1>1, <1>3 DEF ReplyLost, AggregatorInv, ChecksOK
<1>5. chk' = [chk EXCEPT ![c] = r] /\ r \in CheckRecord /\ r.stage \notin WithSet
  BY <1>2, ContinuedFacts DEF ReplyLost, Set, AggregatorInv, ChecksOK
<1>6. StoreOK' /\ CoveredKept /\ \A k \in AggKey : SetKept(k)
  BY <1>4, SameStore DEF AggregatorInv
<1>7. x.set \in AggKey /\ x.stage \in WithSet
  BY <1>4 DEF Owns, WithSet
<1>8. y \in Commands /\ CommandOK(y)
  BY <1>3, <1>4, <1>7 DEF Commands, CommandOK, CheckRecord, Owns
<1>9. CommandOK(y)'
  BY <1>3, <1>6, <1>7, <1>8, CommandKept
<1>10. ASSUME NEW z \in inflight PROVE CommandOK(z)'
  BY <1>6, KnownSets, CommandKept DEF AggregatorInv, CommandsOK
<1>11. CommandsOK'
  BY <1>4, <1>8, <1>9, <1>10 DEF AggregatorInv, CommandsOK
<1>12. \A d \in Check \ {c} : chk[d].stage \in WithSet => SetKept(chk[d].set)
  BY <1>6, KnownSets
<1>13. Owns(r)'
  BY <1>5, NoSet
<1>14. \A z \in inflight' \ inflight : chk[c].stage \in WithSet /\ z.set = chk[c].set
  BY <1>1, <1>3, <1>4, <1>7
<1>15. QED
  BY <1>5, <1>6, <1>11, <1>12, <1>13, <1>14, CheckStep

-----------------------------------------------------------------------------
(* The steps of the others.                                                 *)

\* A step of no check, which takes a set away only from a check whose context is done.
LEMMA RedisStep ==
    ASSUME AggregatorInv, UNCHANGED chk, StoreOK', CoveredKept, CommandsOK',
           inflight' \subseteq inflight,
           \A d \in Check : chk[d].stage \in WithSet =>
              \/ SetKept(chk[d].set)
              \/ /\ SetGone(chk[d].set)
                 /\ chk[d].stage \in {"enqueue", "delete"} => chk[d].deadline = 0
    PROVE  AggregatorInv'
<1>1. ASSUME NEW d \in Check PROVE Owns(chk[d])'
  <2>1. PICK x \in CheckRecord : x = chk[d]
    BY DEF AggregatorInv, ChecksOK
  <2>2. Owns(x)
    BY <2>1 DEF AggregatorInv, ChecksOK
  <2>3. Owns(x)'
    BY <2>1, <2>2, OwnsKept
  <2>4. x = chk'[d]
    BY <2>1
  <2>5. QED
    BY <2>3, <2>4 DEF Owns, Covered, AggregatesOf, Aggregates, Exists
<1>2. ChecksOK'
  BY <1>1 DEF AggregatorInv, ChecksOK
<1>3. Apart'
  BY DEF AggregatorInv, Apart
<1>4. QED
  BY <1>2, <1>3 DEF AggregatorInv

\* Add: a new task is in no set.
LEMMA StepAdd ==
    ASSUME AggregatorInv, NEW t \in Task, NEW g \in Group, Add(t, g)
    PROVE  AggregatorInv'
<1>1. StoreOK' /\ CoveredKept /\ \A k \in AggKey : SetKept(k)
  BY AddStore DEF AggregatorInv
<1>2. UNCHANGED <<chk, inflight>>
  BY DEF Add
<1>3. CommandsOK'
  BY <1>1, <1>2, KnownSets, CommandsKept DEF AggregatorInv
<1>4. QED
  BY <1>1, <1>2, <1>3, KnownSets, RedisStep

\* Arrive: a late delete finds its set as its check left it, or empty.
LEMMA StepArrive ==
    ASSUME AggregatorInv, NEW x \in Commands, Arrive(x)
    PROVE  AggregatorInv'
<1>1. x \in inflight /\ inflight' = inflight \ {x} /\ UNCHANGED <<added, chk>> /\ CommandOK(x)
  BY DEF Arrive, AggregatorInv, CommandsOK
<1>2. CASE x.op = "enqueue"
  <2>1. EnqueueAggregate(x.tasks) /\ x.tasks \in SUBSET ClientTask
    BY <1>2 DEF Arrive, Commands
  <2>2. StoreOK' /\ CoveredKept /\ \A k \in AggKey : SetKept(k)
    BY <1>1, <2>1, EnqueueStore DEF AggregatorInv
  <2>3. CommandsOK'
    BY <1>1, <2>2, KnownSets, CommandsKept DEF AggregatorInv
  <2>4. QED
    BY <1>1, <2>2, <2>3, KnownSets, RedisStep
<1>3. CASE x.op = "delete"
  <2>1. DeleteAggregationSet(x.set) /\ x.set \in AggKey
    BY <1>3 DEF Arrive, Commands
  <2>2. \A t \in Members(aggset[x.set]) : Covered(t)
    BY <1>1, <1>3 DEF CommandOK
  <2>3. /\ StoreOK' /\ CoveredKept /\ SetGone(x.set)
        /\ \A l \in AggKey : l # x.set => SetKept(l)
    BY <1>1, <2>1, <2>2, DeleteStore DEF AggregatorInv
  <2>4. CommandsOK'
    BY <1>1, <2>3, KnownSets, CommandsKept DEF AggregatorInv
  <2>5. \A d \in Check : chk[d].stage \in WithSet => SetKept(chk[d].set)
    BY <1>1, <2>3, KnownSets DEF AggregatorInv, Apart
  <2>6. QED
    BY <1>1, <2>3, <2>4, <2>5, RedisStep
<1>4. QED
  BY <1>2, <1>3 DEF Commands

\* Reclaim: the sets of checks whose context is not done are not stale.
LEMMA StepReclaim ==
    ASSUME AggregatorInv, Reclaim
    PROVE  AggregatorInv'
<1>1. UNCHANGED <<added, chk, inflight>> /\ ReclaimStaleAggregationSets(0)
  BY DEF Reclaim
<1>2. /\ StoreOK' /\ CoveredKept
      /\ \A k \in AggKey :
           SetKept(k) \/ (SetGone(k) /\ aggsets[k] # Nil /\ aggsets[k] <= 0)
  BY <1>1, ReclaimStore DEF AggregatorInv
<1>3. CommandsOK'
  BY <1>1, <1>2, KnownSets, CommandsKept DEF AggregatorInv
<1>4. ASSUME NEW d \in Check, chk[d].stage \in WithSet
      PROVE  \/ SetKept(chk[d].set)
             \/ /\ SetGone(chk[d].set)
                /\ chk[d].stage \in {"enqueue", "delete"} => chk[d].deadline = 0
  <2>1. chk[d].set \in AggKey /\ Owns(chk[d]) /\ chk[d].deadline \in Nat
    BY <1>4, KnownSets DEF AggregatorInv, ChecksOK, CheckRecord
  <2>2. aggsets[chk[d].set] \in Int \cup {Nil}
    BY <2>1 DEF AggregatorInv, StoreOK, StoreTypes
  <2>3. QED
    BY <1>2, <2>1, <2>2 DEF Owns
<1>5. QED
  BY <1>1, <1>2, <1>3, <1>4, RedisStep

\* Time makes no member and takes none away.
LEMMA LoweredFacts ==
    ASSUME NEW x \in Int \cup {Nil}, NEW least \in Int
    PROVE  /\ Lowered(x, least) \in Int \cup {Nil}
           /\ Lowered(x, least) # Nil <=> x # Nil
           /\ x # Nil => Lowered(x, least) = IF x > least THEN x - 1 ELSE least
BY NilAssumption DEF Lowered

\* The same for a sorted set.
LEMMA LoweredZFacts ==
    ASSUME NEW z \in ZSet
    PROVE  LoweredZ(z) \in ZSet /\ Members(LoweredZ(z)) = Members(z)
<1>1. Oldest \in Int
  BY AggregatorAssumption DEF Oldest
<1>2. \A t \in Task : z[t] \in Int \cup {Nil}
  BY DEF ZSet
<1>3. \A t \in Task : /\ Lowered(z[t], Oldest) \in Int \cup {Nil}
                      /\ Lowered(z[t], Oldest) # Nil <=> z[t] # Nil
  BY <1>1, <1>2, LoweredFacts
<1>4. QED
  BY <1>3 DEF LoweredZ, ZSet, Members

\* Tick: the deadline of a context comes down with that of its set.
LEMMA StepTick ==
    ASSUME AggregatorInv, Tick
    PROVE  AggregatorInv'
<1>1. /\ group' = [g \in Group |-> LoweredZ(group[g])]
      /\ aggset' = [k \in AggKey |-> LoweredZ(aggset[k])]
      /\ aggsets' = [k \in AggKey |-> Lowered(aggsets[k], 0)]
      /\ UNCHANGED <<hash, groups, added, inflight>>
  BY DEF Tick
<1>2. /\ \A g \in Group : group[g] \in ZSet
      /\ \A k \in AggKey : aggset[k] \in ZSet /\ aggsets[k] \in Int \cup {Nil}
  BY DEF AggregatorInv, StoreOK, StoreTypes
<1>3. \A k \in AggKey : /\ Members(aggset'[k]) = Members(aggset[k])
                        /\ aggset'[k] \in ZSet
                        /\ aggsets'[k] \in Int \cup {Nil}
                        /\ aggsets'[k] # Nil <=> aggsets[k] # Nil
                        /\ aggsets[k] # Nil =>
                             aggsets'[k] = IF aggsets[k] > 0 THEN aggsets[k] - 1 ELSE 0
  <2> SUFFICES ASSUME NEW k \in AggKey
               PROVE  /\ Members(aggset'[k]) = Members(aggset[k])
                      /\ aggset'[k] \in ZSet
                      /\ aggsets'[k] \in Int \cup {Nil}
                      /\ aggsets'[k] # Nil <=> aggsets[k] # Nil
                      /\ aggsets[k] # Nil =>
                           aggsets'[k] = IF aggsets[k] > 0 THEN aggsets[k] - 1 ELSE 0
    OBVIOUS
  <2>1. PICK z \in ZSet : z = aggset[k]
    BY <1>2
  <2>2. aggset'[k] = LoweredZ(z)
    BY <1>1, <2>1
  <2>3. PICK x \in Int \cup {Nil} : x = aggsets[k]
    BY <1>2
  <2>4. aggsets'[k] = Lowered(x, 0)
    BY <1>1, <2>3
  <2>5. /\ Lowered(x, 0) \in Int \cup {Nil}
        /\ Lowered(x, 0) # Nil <=> x # Nil
        /\ x # Nil => Lowered(x, 0) = IF x > 0 THEN x - 1 ELSE 0
    BY LoweredFacts
  <2>6. QED
    BY <2>1, <2>2, <2>3, <2>4, <2>5, LoweredZFacts
<1>4. \A g \in Group : Members(group'[g]) = Members(group[g]) /\ group'[g] \in ZSet
  BY <1>1, <1>2, LoweredZFacts
<1>5. StoreTypes'
  BY <1>1, <1>3, <1>4 DEF AggregatorInv, StoreOK, StoreTypes
<1>6. NoneDropped'
  BY <1>1 DEF AggregatorInv, StoreOK, NoneDropped, AggregatesOf, Aggregates, Exists
<1>7. StoreOK'
  BY <1>3, <1>4, <1>5, <1>6 DEF AggregatorInv, StoreOK
<1>8. \A t : Covered(t)' <=> Covered(t)
  BY <1>1 DEF Covered, AggregatesOf, Aggregates, Exists
<1>9. CommandsOK'
  BY <1>1, <1>3, <1>8, KnownSets DEF AggregatorInv, CommandsOK, CommandOK
<1>10. ASSUME NEW c \in Check
       PROVE  /\ chk'[c] \in CheckRecord /\ Owns(chk[c])'
              /\ chk'[c].stage = chk[c].stage /\ chk'[c].set = chk[c].set
  <2>1. PICK x \in CheckRecord : x = chk[c]
    BY DEF AggregatorInv, ChecksOK
  <2>2. PICK t \in Int : t = IF x.stage \in {"list", "check"} THEN x.t - 1 ELSE x.t
    BY DEF CheckRecord
  <2>3. x.deadline \in Nat /\ x.deadline # Nil
    BY NilAssumption DEF CheckRecord
  <2>4. PICK e \in Nat : /\ e = Lowered(x.deadline, 0)
                         /\ e = IF x.deadline > 0 THEN x.deadline - 1 ELSE 0
    BY <2>3 DEF Lowered
  <2>5. PICK r : r = [x EXCEPT !.t = t, !.deadline = e]
    OBVIOUS
  <2>6. /\ r \in CheckRecord /\ r.stage = x.stage /\ r.set = x.set /\ r.tasks = x.tasks
        /\ r.deadline = e
    BY <2>5 DEF CheckRecord
  <2>7. chk'[c] = r
    BY <2>1, <2>2, <2>4, <2>5 DEF Tick
  <2>8. Owns(x) /\ (x.stage \in WithSet => x.set \in AggKey)
    BY <2>1 DEF AggregatorInv, ChecksOK, Owns
  <2>9. Owns(r)'
    <3>1. r.stage = "delete" => \A u \in r.tasks : Covered(u)'
      BY <1>8, <2>6, <2>8 DEF Owns
    <3>2. r.stage = "score" /\ aggsets'[r.set] # Nil => Members(aggset'[r.set]) = r.tasks
      BY <1>3, <2>6, <2>8 DEF Owns, WithSet
    <3>3. r.stage \in {"score", "enqueue", "delete"} => Members(aggset'[r.set]) \subseteq r.tasks
      BY <1>3, <2>6, <2>8 DEF Owns, WithSet
    <3>4. ASSUME r.stage \in {"enqueue", "delete"}, r.deadline # 0
          PROVE  /\ aggsets'[r.set] # Nil /\ aggsets'[r.set] >= r.deadline
                 /\ Members(aggset'[r.set]) = r.tasks
      <4>1. x.set \in AggKey /\ x.deadline # 0
        BY <2>3, <2>4, <2>6, <2>8, <3>4 DEF WithSet
      <4>2. /\ aggsets[x.set] # Nil /\ aggsets[x.set] >= x.deadline
            /\ Members(aggset[x.set]) = x.tasks
        BY <2>6, <2>8, <3>4, <4>1 DEF Owns
      <4>3. aggsets[x.set] \in Int
        BY <1>2, <4>1, <4>2
      <4>4. QED
        BY <1>3, <2>3, <2>4, <2>6, <4>1, <4>2, <4>3
    <3>5. QED
      BY <2>6, <2>8, <3>1, <3>2, <3>3, <3>4 DEF Owns
  <2>10. QED
    BY <2>1, <2>6, <2>7, <2>9 DEF Owns, Covered, AggregatesOf, Aggregates, Exists
<1>11. chk' \in [Check -> CheckRecord]
  <2>1. chk' = [c \in Check |-> chk'[c]]
    BY DEF Tick
  <2>2. QED
    BY <1>10, <2>1
<1>12. ChecksOK'
  BY <1>10, <1>11 DEF ChecksOK
<1>13. Apart'
  BY <1>1, <1>10 DEF AggregatorInv, Apart
<1>14. QED
  BY <1>7, <1>9, <1>12, <1>13 DEF AggregatorInv

-----------------------------------------------------------------------------
\* The invariant holds before the first task.
LEMMA InitAggregator == AggregatorInit => AggregatorInv
<1> SUFFICES ASSUME AggregatorInit PROVE AggregatorInv
  OBVIOUS
<1>1. EmptyZ \in ZSet /\ Members(EmptyZ) = {}
  BY DEF EmptyZ, ZSet, Members
<1>2. StoreOK
  BY <1>1 DEF AggregatorInit, Init, StoreOK, StoreTypes, NoneDropped
<1>3. Idle \in CheckRecord /\ Idle.stage \notin WithSet
  BY DEF Idle, CheckRecord, Stages, WithSet
<1>4. ChecksOK
  BY <1>3, NoSet DEF AggregatorInit, ChecksOK
<1>5. CommandsOK /\ Apart
  BY <1>3 DEF AggregatorInit, CommandsOK, Apart
<1>6. QED
  BY <1>2, <1>4, <1>5 DEF AggregatorInv

\* Every step keeps the invariant.
LEMMA AggregatorStep == AggregatorInv /\ [AggregatorNext]_aggVars => AggregatorInv'
<1> SUFFICES ASSUME AggregatorInv, [AggregatorNext]_aggVars PROVE AggregatorInv'
  OBVIOUS
<1>1. CASE UNCHANGED aggVars
  <2>1. UNCHANGED <<vars, added, chk, inflight>>
    BY <1>1 DEF aggVars
  <2>2. StoreOK' /\ CoveredKept /\ \A k \in AggKey : SetKept(k)
    BY <2>1, SameStore DEF AggregatorInv
  <2>3. CommandsOK'
    BY <2>1, <2>2, KnownSets, CommandsKept DEF AggregatorInv
  <2>4. QED
    BY <2>1, <2>2, <2>3, KnownSets, RedisStep
<1>2. ASSUME NEW c \in Check, Exec(c) \/ Steps(c) PROVE AggregatorInv'
  BY <1>2, IdleSteps, StepReadMessages, StepReadDeadline, StepAggregationChecked,
     StepEnqueueContext, StepDelete DEF Steps
<1>3. ASSUME NEW c \in Check, CallFailed(c) \/ ReplyLost(c) \/ Crash(c) \/ Stall(c)
      PROVE  AggregatorInv'
  BY <1>3, IdleSteps, StepCallFailed, StepReplyLost, StepStall
<1>4. QED
  BY <1>1, <1>2, <1>3, StepAdd, StepArrive, StepReclaim, StepTick DEF AggregatorNext

\* The inductive invariant holds in every reachable state.
LEMMA AggregatorInvariance == AggregatorSpec => []AggregatorInv
BY InitAggregator, AggregatorStep, PTL DEF AggregatorSpec

\* A check whose context is not done owns its set: what Redis holds is what it read
\* (aggregate of aggregator.go, against the reclaim of another server's recoverer),
\* for any number of checks, tasks, groups and faults.
THEOREM OwnsSetTheorem == AggregatorSpec => []OwnsSet
<1>1. AggregatorInv => OwnsSet
  <2> SUFFICES ASSUME AggregatorInv, NEW c \in Check,
                      chk[c].stage \in {"enqueue", "delete"}, ~CtxDone(c)
               PROVE  Members(aggset[chk[c].set]) = chk[c].tasks /\ chk[c].tasks # {}
    BY DEF OwnsSet
  <2>1. /\ chk[c].set \in AggKey /\ aggsets[chk[c].set] # Nil
        /\ Members(aggset[chk[c].set]) = chk[c].tasks
    BY DEF AggregatorInv, ChecksOK, Owns, CtxDone, WithSet
  <2>2. QED
    BY <2>1 DEF AggregatorInv, StoreOK
<1>2. QED
  BY <1>1, AggregatorInvariance, PTL

\* A task of a client leaves Redis only after an aggregate with it was enqueued,
\* whichever calls of aggregate fail, get lost or come late, and whoever dies.
THEOREM NoneDroppedTheorem == AggregatorSpec => []NoneDropped
<1>1. AggregatorInv => NoneDropped
  BY DEF AggregatorInv, StoreOK
<1>2. QED
  BY <1>1, AggregatorInvariance, PTL
=============================================================================
