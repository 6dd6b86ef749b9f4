---------------------------- MODULE QueuesProofs ----------------------------
(***************************************************************************)
(* A queue that holds tasks is listed in asynq:queues, unless an inspector *)
(* has removed it: for any number of callers, RDB instances and queues,    *)
(* whichever commands fail and whichever processes are started again.  And *)
(* a task has, and runs within, what its own caller asked for: for any     *)
(* options, times and parts of a second.  And queues and handlers are      *)
(* treated as they were configured: for any priorities and patterns.       *)
(***************************************************************************)
EXTENDS Queues, FiniteSetTheorems, SequenceTheorems, WellFoundedInduction, TLAPS

\* The queues that a SADD has reached.
Known == queues \cup removed

\* The fields of a call, with values in V.
CallRecord(V) == [stage : V, asked : V, shared : V, opt : V, at : V, id : V]

\* A call is a record of these fields, whatever options it was given.
IsCall(r) == \E V : r \in CallRecord(V)

\* An RDB marks only queues that it has listed, and a call whose script is still
\* to run has passed the mark or the SADD.  The script itself does not look.
ListedInv ==
    /\ task = [k \in Key |-> task[k]]
    /\ published = [r \in RDB |-> published[r]]
    /\ call = [c \in Caller |-> call[c]]
    /\ \A r \in RDB : published[r] \subseteq Known
    /\ \A c \in Caller :
          /\ IsCall(call[c])
          /\ call[c].stage = "run" => call[c].opt.queue \in Known
    /\ \A k \in Key : task[k] # Nil => k[1] \in Known

-----------------------------------------------------------------------------
\* No call is a call, and waits for no script.
LEMMA NoCallFact == IsCall(NoCall) /\ NoCall.stage = "idle"
<1> DEFINE V == {"idle", << >>, FALSE, Nil, 0}
<1>1. NoCall \in CallRecord(V) /\ NoCall.stage = "idle"
  BY DEF NoCall, CallRecord
<1> QED BY <1>1 DEF IsCall

\* The edits that AppendOpts and Compose make.
Appended(r, a, b, d) == [r EXCEPT !.stage = a, !.asked = b, !.shared = d]
Composed(r, a, b, d, e) == [r EXCEPT !.stage = a, !.opt = b, !.at = d, !.id = e]

\* A call that is edited stays one ...
LEMMA StageEdit ==
    ASSUME NEW r, IsCall(r), NEW a
    PROVE  /\ IsCall([r EXCEPT !.stage = a])
           /\ \A f \in {"asked", "shared", "opt", "at", "id"} : [r EXCEPT !.stage = a][f] = r[f]
<1>1. PICK V : r \in CallRecord(V)
  BY DEF IsCall
<1> DEFINE W == V \cup {a}
<1>2. r \in CallRecord(W) /\ a \in W
  BY <1>1 DEF CallRecord
<1> HIDE DEF W
<1>3. /\ [r EXCEPT !.stage = a] \in CallRecord(W)
      /\ \A f \in {"asked", "shared", "opt", "at", "id"} : [r EXCEPT !.stage = a][f] = r[f]
  BY <1>2 DEF CallRecord
<1> QED BY <1>3 DEF IsCall

\* ... by AppendOpts ...
LEMMA AppendEdit ==
    ASSUME NEW r, IsCall(r), NEW a, NEW b, NEW d
    PROVE  /\ IsCall(Appended(r, a, b, d))
           /\ Appended(r, a, b, d).stage = a
           /\ Appended(r, a, b, d).asked = b /\ Appended(r, a, b, d).shared = d
<1>1. PICK V : r \in CallRecord(V)
  BY DEF IsCall
<1> DEFINE W == V \cup {a, b, d}
<1>2. r \in CallRecord(W) /\ a \in W /\ b \in W /\ d \in W
  BY <1>1 DEF CallRecord
<1> HIDE DEF W
<1>3. /\ Appended(r, a, b, d) \in CallRecord(W)
      /\ Appended(r, a, b, d).stage = a
      /\ Appended(r, a, b, d).asked = b /\ Appended(r, a, b, d).shared = d
  BY <1>2 DEF CallRecord, Appended, Composed
<1> QED BY <1>3 DEF IsCall

\* ... and by Compose.
LEMMA ComposeEdit ==
    ASSUME NEW r, IsCall(r), NEW a, NEW b, NEW d, NEW e
    PROVE  /\ IsCall(Composed(r, a, b, d, e))
           /\ Composed(r, a, b, d, e).stage = a /\ Composed(r, a, b, d, e).opt = b
           /\ Composed(r, a, b, d, e).at = d /\ Composed(r, a, b, d, e).id = e
           /\ \A f \in {"asked", "shared"} : Composed(r, a, b, d, e)[f] = r[f]
<1>1. PICK V : r \in CallRecord(V)
  BY DEF IsCall
<1> DEFINE W == V \cup {a, b, d, e}
<1>2. r \in CallRecord(W) /\ a \in W /\ b \in W /\ d \in W /\ e \in W
  BY <1>1 DEF CallRecord
<1> HIDE DEF W
<1>3. /\ Composed(r, a, b, d, e) \in CallRecord(W)
      /\ Composed(r, a, b, d, e).stage = a /\ Composed(r, a, b, d, e).opt = b
      /\ Composed(r, a, b, d, e).at = d /\ Composed(r, a, b, d, e).id = e
      /\ \A f \in {"asked", "shared"} : Composed(r, a, b, d, e)[f] = r[f]
  BY <1>2 DEF CallRecord, Appended, Composed
<1> QED BY <1>3 DEF IsCall

\* A caller goes on to a record that is a call; the queues listed stay known and
\* the tasks stay as they are.
LEMMA CallInv ==
    ASSUME ListedInv, NEW c \in Caller, NEW r, IsCall(r), call' = [call EXCEPT ![c] = r],
           task' = task, Known \subseteq Known',
           published' = [x \in RDB |-> published'[x]],
           \A x \in RDB : published'[x] \subseteq Known',
           r.stage = "run" => r.opt.queue \in Known'
    PROVE  ListedInv'
<1>1. /\ call' = [d \in Caller |-> call'[d]]
      /\ \A d \in Caller : call'[d] = r \/ call'[d] = call[d]
  BY DEF ListedInv
<1> QED BY <1>1 DEF ListedInv

\* Before the script, an enqueue lists its queue or finds it marked.
LEMMA EnqueueInv ==
    ASSUME ListedInv, NEW c \in Caller,
           Compose(c) \/ Publish(c) \/ \E opts \in CallOpts[c] : AppendOpts(c, opts)
    PROVE  ListedInv'
<1>1. /\ IsCall(call[c])
      /\ \A r \in RDB : published[r] \subseteq Known
      /\ published = [r \in RDB |-> published[r]]
  BY DEF ListedInv
<1>2. ASSUME NEW opts \in CallOpts[c], AppendOpts(c, opts) PROVE ListedInv'
  <2>1. PICK asked, shared :
           /\ Set(c, [NoCall EXCEPT !.stage = "compose", !.asked = asked, !.shared = shared])
           /\ UNCHANGED <<redisVars, published, removed>>
    BY <1>2 DEF AppendOpts
  <2> PICK r : r = Appended(NoCall, "compose", asked, shared)
    OBVIOUS
  <2>2. IsCall(r) /\ r.stage = "compose"
    BY NoCallFact, AppendEdit
  <2>3. call' = [call EXCEPT ![c] = r]
    BY <2>1 DEF Set, Appended
  <2> QED BY <1>1, <2>1, <2>2, <2>3, CallInv DEF redisVars, Known
<1>3. CASE Compose(c)
  <2>1. UNCHANGED <<redisVars, published, removed>>
    BY <1>3 DEF Compose
  <2>2. PICK r : IsCall(r) /\ r.stage # "run" /\ Set(c, r)
    <3>1. CASE Set(c, NoCall)
      BY <3>1, NoCallFact
    <3>2. ASSUME NEW opt, NEW at, NEW t,
                 Set(c, [call[c] EXCEPT !.stage = "publish", !.opt = opt, !.at = at, !.id = t])
          PROVE  \E r : IsCall(r) /\ r.stage # "run" /\ Set(c, r)
      <4> PICK r : r = Composed(call[c], "publish", opt, at, t)
        OBVIOUS
      <4>1. IsCall(r) /\ r.stage = "publish"
        BY <1>1, ComposeEdit
      <4>2. Set(c, r)
        BY <3>2 DEF Composed
      <4> QED BY <4>1, <4>2
    <3> QED BY <1>3, <3>1, <3>2 DEF Compose
  <2> QED BY <1>1, <2>1, <2>2, CallInv DEF Set, redisVars, Known
<1>4. CASE Publish(c)
  <2> DEFINE q == call[c].opt.queue
             x == RdbOf[c]
             r == [call[c] EXCEPT !.stage = "run"]
  <2>1. task' = task /\ removed' = removed /\ x \in RDB
    BY <1>4, QueuesAssumption DEF Publish
  <2>2. IsCall(r) /\ r.opt = call[c].opt
    BY <1>1, StageEdit
  <2>3. CASE q \in published[x] /\ Set(c, r) /\ UNCHANGED <<queues, published>>
    <3>1. r.opt.queue \in Known'
      BY <1>1, <2>1, <2>2, <2>3 DEF Known
    <3> HIDE DEF r
    <3> QED BY <1>1, <2>1, <2>2, <2>3, <3>1, CallInv DEF Set, Known
  <2>4. CASE /\ queues' = queues \cup {q} /\ Set(c, r)
             /\ published' = [published EXCEPT ![x] = published[x] \cup {q}]
    <3>1. r.opt.queue \in Known' /\ Known \subseteq Known'
      BY <2>1, <2>2, <2>4 DEF Known
    <3>2. /\ published' = [y \in RDB |-> published'[y]]
          /\ \A y \in RDB : published'[y] \subseteq published[y] \cup {q}
      BY <1>1, <2>4
    <3>3. \A y \in RDB : published'[y] \subseteq Known'
      BY <1>1, <2>1, <2>4, <3>2 DEF Known
    <3> HIDE DEF r
    <3> QED BY <2>1, <2>2, <2>4, <3>1, <3>2, <3>3, CallInv DEF Set
  <2>5. CASE queues \subseteq queues' /\ Set(c, NoCall) /\ UNCHANGED published
    <3>1. Known \subseteq Known'
      BY <2>1, <2>5 DEF Known
    <3> QED BY <1>1, <2>1, <2>5, <3>1, NoCallFact, CallInv DEF Set
  <2>6. \/ q \in published[x] /\ Set(c, r) /\ UNCHANGED <<queues, published>>
        \/ /\ queues' = queues \cup {q} /\ Set(c, r)
           /\ published' = [published EXCEPT ![x] = published[x] \cup {q}]
        \/ queues \subseteq queues' /\ Set(c, NoCall) /\ UNCHANGED published
    BY <1>4 DEF Publish
  <2> QED BY <2>3, <2>4, <2>5, <2>6
<1> QED BY <1>2, <1>3, <1>4

\* A step of a server or an inspector on the tasks adds none.
LEMMA TasksInv ==
    ASSUME ListedInv, UNCHANGED <<queues, removed, published, call>>,
           task' = [k \in Key |-> task'[k]],
           \A k \in Key : task'[k] # Nil => task[k] # Nil
    PROVE  ListedInv'
BY DEF ListedInv, Known, IsCall

\* The script stores a task in the queue that its call has published.
LEMMA RunScriptInv ==
    ASSUME ListedInv, NEW c \in Caller, RunScript(c)
    PROVE  ListedInv'
<1> DEFINE q == call[c].opt.queue
           k == <<q, call[c].id>>
<1>1. /\ UNCHANGED <<queues, removed, published>>
      /\ call' = [call EXCEPT ![c] = NoCall]
      /\ q \in Known
  BY DEF RunScript, Set, ListedInv
<1>2. /\ task' = [x \in Key |-> task'[x]]
      /\ \A x \in Key : x # k => task'[x] = task[x]
  <2>1. CASE task' = task
    BY <2>1 DEF ListedInv
  <2>2. ASSUME NEW z, task' = [task EXCEPT ![k] = z]
        PROVE  /\ task' = [x \in Key |-> task'[x]]
               /\ \A x \in Key : x # k => task'[x] = task[x]
    BY <2>2 DEF ListedInv
  <2> QED BY <2>1, <2>2 DEF RunScript
<1>3. \A x \in Key : task'[x] # Nil => x[1] \in Known'
  <2>1. ASSUME NEW x \in Key, task'[x] # Nil PROVE x[1] \in Known
    BY <1>1, <1>2, <2>1 DEF ListedInv
  <2> QED BY <1>1, <2>1 DEF Known
<1>4. \A d \in Caller : call'[d] = NoCall \/ call'[d] = call[d]
  BY <1>1 DEF ListedInv
<1>5. call' = [d \in Caller |-> call'[d]]
  BY <1>1 DEF ListedInv
<1> QED BY <1>1, <1>2, <1>3, <1>4, <1>5, NoCallFact DEF ListedInv, Known

\* A process that is started again forgets its marks and its calls.
LEMMA RestartInv ==
    ASSUME ListedInv, NEW r \in RDB, Restart(r)
    PROVE  ListedInv'
<1>1. /\ UNCHANGED <<queues, task, removed>>
      /\ published' = [published EXCEPT ![r] = {}]
      /\ call' = [c \in Caller |-> IF RdbOf[c] = r THEN NoCall ELSE call[c]]
  BY DEF Restart, redisVars
<1>2. /\ \A c \in Caller : call'[c] = NoCall \/ call'[c] = call[c]
      /\ call' = [c \in Caller |-> call'[c]]
  BY <1>1
<1>3. /\ \A x \in RDB : published'[x] \subseteq published[x]
      /\ published' = [x \in RDB |-> published'[x]]
  BY <1>1 DEF ListedInv
<1> QED BY <1>1, <1>2, <1>3, NoCallFact DEF ListedInv, Known

\* SREM takes a queue from the list and the mark of one RDB; the marks that
\* others keep are why the queue must count as removed from then on.
LEMMA RemoveFromSetInv ==
    ASSUME ListedInv, RemoveFromSet
    PROVE  ListedInv'
<1>1. CASE /\ queues' = queues \ {insp.queue}
           /\ removed' = removed \cup {insp.queue}
           /\ published' = [published EXCEPT
                               ![InspectorRdb] = published[InspectorRdb] \ {insp.queue}]
           /\ UNCHANGED <<task, call>>
  <2>1. Known \subseteq Known'
    BY <1>1 DEF Known
  <2>2. /\ \A x \in RDB : published'[x] \subseteq published[x]
        /\ published' = [x \in RDB |-> published'[x]]
    BY <1>1 DEF ListedInv
  <2> QED BY <1>1, <2>1, <2>2 DEF ListedInv
<1>2. CASE UNCHANGED <<queues, removed, published, task, call>>
  BY <1>2 DEF ListedInv, Known, IsCall
<1> QED BY <1>1, <1>2 DEF RemoveFromSet

\* Every step preserves the invariant.
LEMMA StepInv ==
    ASSUME ListedInv, [QueuesNext]_queueVars
    PROVE  ListedInv'
<1> USE DEF redisVars, clientVars
<1>1. CASE \E c \in Caller : \/ Compose(c) \/ Publish(c)
                             \/ \E opts \in CallOpts[c] : AppendOpts(c, opts)
  BY <1>1, EnqueueInv
<1>2. CASE \E c \in Caller : RunScript(c)
  BY <1>2, RunScriptInv
<1>3. CASE \E r \in RDB : Restart(r)
  BY <1>3, RestartInv
<1>4. CASE RemoveFromSet
  BY <1>4, RemoveFromSetInv
<1>5. CASE RemoveScript
  <2>1. /\ UNCHANGED <<queues, removed, published, call>>
        /\ \/ task' = task
           \/ task' = [k \in Key |-> IF k \in Held(insp.queue, {"pending", "scheduled"})
                                     THEN Nil ELSE task[k]]
    BY <1>5 DEF RemoveScript
  <2>2. task' = [k \in Key |-> task'[k]] /\ \A k \in Key : task'[k] # Nil => task[k] # Nil
    BY <2>1 DEF ListedInv
  <2> QED BY <2>1, <2>2, TasksInv
<1>6. ASSUME UNCHANGED <<queues, removed, published, call>>,
             NEW k \in Key, task[k] # Nil, task' = [x \in Key |-> task'[x]],
             \A x \in Key : x # k => task'[x] = task[x]
      PROVE  ListedInv'
  BY <1>6, TasksInv
<1>7. CASE UNCHANGED <<queues, removed, published, call, task>>
  BY <1>7 DEF ListedInv, Known, IsCall
<1>8. CASE \E k \in Key : Finish(k) \/ Forward(k) \/ Expire(k)
  <2>1. PICK k \in Key : Finish(k) \/ Forward(k) \/ Expire(k)
    BY <1>8
  <2>2. UNCHANGED <<queues, removed, published, call>> /\ task[k] # Nil
    BY <2>1 DEF Finish, Forward, Expire
  <2>3. task' = [x \in Key |-> task'[x]] /\ \A x \in Key : x # k => task'[x] = task[x]
    BY <2>1 DEF Finish, Forward, Expire, ListedInv
  <2> QED BY <1>6, <2>2, <2>3
<1>9. CASE Try
  <2>1. UNCHANGED <<queues, removed, published, call>>
    BY <1>9 DEF Try
  <2>2. \/ task' = task
        \/ \E k \in Key : /\ task[k] # Nil /\ task' = [x \in Key |-> task'[x]]
                          /\ \A x \in Key : x # k => task'[x] = task[x]
    BY <1>9 DEF Try, Held, In, ListedInv
  <2> QED BY <1>6, <1>7, <2>1, <2>2
<1>10. CASE \/ \E q \in QueueNames, force \in BOOLEAN : QueueExists(q, force)
            \/ \E q \in QueueNames : Pause(q) \/ Unpause(q)
            \/ \E o \in orders : StartPoll(o)
            \/ Tick
            \/ UNCHANGED queueVars
  <2>1. UNCHANGED <<queues, removed, published, call, task>>
    BY <1>10 DEF QueueExists, Pause, Unpause, StartPoll, Tick, queueVars
  <2> QED BY <1>7, <2>1
<1> QED BY <1>1, <1>2, <1>3, <1>4, <1>5, <1>8, <1>9, <1>10 DEF QueuesNext

\* A queue with tasks that no inspector has removed is listed, although SADD and
\* the script are two commands, SADD is skipped where an RDB has its mark, and
\* both may fail (rdb.go, every enqueue).
THEOREM ListedTheorem == QueuesSpec => []ListedBeforeFilled
<1>1. QueuesInit => ListedInv
  <2> SUFFICES ASSUME QueuesInit PROVE ListedInv
    OBVIOUS
  <2> QED BY NoCallFact DEF QueuesInit, ListedInv
<1>2. ListedInv /\ [QueuesNext]_queueVars => ListedInv'
  BY StepInv
<1>3. ListedInv => ListedBeforeFilled
  BY DEF ListedInv, ListedBeforeFilled, In, Known
<1> QED BY <1>1, <1>2, <1>3, PTL DEF QueuesSpec

-----------------------------------------------------------------------------
(* What the options of a call become.                                      *)

\* A set of numbers that is not empty has a least one.
LEMMA LeastNumber ==
    ASSUME NEW T, T \in SUBSET Nat, T # {}
    PROVE  \E d \in T : \A e \in T : d <= e
<1> DEFINE R == {ss \in Nat \X Nat : ss[1] < ss[2]}
<1>1. IsWellFoundedOn(R, Nat)
  BY NatLessThanWellFounded DEF OpToRel
<1>2. PICK d \in T : \A e \in T : ~(<<e, d>> \in R)
  <2> HIDE DEF R
  <2> QED BY <1>1, WFMin
<1>3. ASSUME NEW e \in T PROVE d <= e
  <2>1. d \in Nat /\ e \in Nat /\ <<e, d>> \in Nat \X Nat /\ <<e, d>>[1] = e /\ <<e, d>>[2] = d
    BY <1>2
  <2>2. ~(e < d)
    BY <1>2, <2>1
  <2> QED BY <2>1, <2>2
<1> QED BY <1>2, <1>3

\* Indices of a sequence of n elements.
Indices(S, n) == n \in Nat /\ S \in SUBSET (1 .. n)

\* A set of indices that is not empty has a largest one.
LEMMA LastIndex ==
    ASSUME NEW n, NEW S, Indices(S, n), S # {}
    PROVE  Max(S) \in S /\ \A i \in S : i <= Max(S)
<1> USE DEF Indices
<1> DEFINE D == {n - i : i \in S}
<1>1. D \in SUBSET Nat /\ D # {}
  <2>1. \A i \in S : n - i \in Nat
    OBVIOUS
  <2>2. PICK i : i \in S
    OBVIOUS
  <2>3. n - i \in D
    BY <2>2
  <2> QED BY <2>1, <2>3
<1> HIDE DEF D
<1>4. PICK d \in D : \A e \in D : d <= e
  BY <1>1, LeastNumber
<1>5. PICK m \in S : d = n - m
  BY DEF D
<1>6. \A i \in S : n - i \in D
  BY DEF D
<1>7. \A i \in S : m >= i
  BY <1>4, <1>5, <1>6
<1>8. Max(S) \in S /\ \A i \in S : Max(S) >= i
  BY <1>5, <1>7 DEF Max
<1> QED BY <1>8

\* The value of the last option of the kinds, and the time to process, of the options
\* at the indices s.
Given(opts, s, kinds) == {i \in s : opts[i].kind \in kinds}
LastOf(opts, s, kinds, default) ==
    IF Given(opts, s, kinds) = {} THEN default ELSE opts[Max(Given(opts, s, kinds))].value
LastTime(opts, s, now0) ==
    IF Given(opts, s, {"processAt", "processIn"}) = {} THEN now0
    ELSE LET o == opts[Max(Given(opts, s, {"processAt", "processIn"}))] IN
         IF o.kind = "processIn" THEN now0 + o.value ELSE o.value

\* What the loop has composed of them.
Result(opts, s, now0) ==
    [queue |-> LastOf(opts, s, {"queue"}, DefaultQueue),
     taskID |-> LastOf(opts, s, {"taskID"}, Nil),
     timeout |-> LastOf(opts, s, {"timeout"}, 0), deadline |-> LastOf(opts, s, {"deadline"}, Nil),
     unique |-> LastOf(opts, s, {"unique"}, 0), processAt |-> LastTime(opts, s, now0),
     retention |-> LastOf(opts, s, {"retention"}, 0), group |-> LastOf(opts, s, {"group"}, Nil)]

\* m is the last of the indices s of n options, and r are the others.
LastAmong(s, n, m, r) == Indices(s, n) /\ s # {} /\ m = Max(s) /\ r = s \ {m}

\* The last option of all is the last one of its kind and of no other.
LEMMA LastStep ==
    ASSUME NEW opts, NEW s, NEW n, NEW m, NEW r, LastAmong(s, n, m, r), NEW kinds
    PROVE  /\ opts[m].kind \in kinds => /\ Given(opts, s, kinds) # {}
                                        /\ Max(Given(opts, s, kinds)) = m
           /\ opts[m].kind \notin kinds => Given(opts, s, kinds) = Given(opts, r, kinds)
<1>0. Indices(s, n) /\ s # {} /\ m = Max(s) /\ r = s \ {m}
  BY DEF LastAmong
<1>1. m \in s /\ \A i \in s : i <= m
  BY <1>0, LastIndex
<1>2. CASE opts[m].kind \in kinds
  <2>1. Indices(Given(opts, s, kinds), n) /\ m \in Given(opts, s, kinds)
    BY <1>0, <1>1, <1>2 DEF Given, Indices
  <2>2. PICK g, h : g = Given(opts, s, kinds) /\ h = Max(g)
    OBVIOUS
  <2>3. h \in g /\ m <= h
    BY <2>1, <2>2, LastIndex
  <2>4. h \in s /\ h <= m
    BY <1>1, <2>2, <2>3 DEF Given
  <2>5. h = m
    BY <1>0, <1>1, <2>3, <2>4 DEF Indices
  <2> QED BY <1>2, <2>1, <2>2, <2>5
<1>3. CASE opts[m].kind \notin kinds
  BY <1>0, <1>1, <1>3 DEF Given
<1> QED BY <1>2, <1>3

\* One round of the loop.
LEMMA ResultStep ==
    ASSUME NEW opts, NEW s, NEW n, NEW m, NEW r, LastAmong(s, n, m, r), NEW now0, IsOption(opts[m])
    PROVE  Result(opts, s, now0) = Apply(Result(opts, r, now0), opts[m], now0)
<1>1. PICK k, v : k = opts[m].kind /\ v = opts[m].value
  OBVIOUS
<1>2. k \in {"queue", "taskID", "timeout", "deadline", "unique", "processAt", "retention", "group",
             "processIn"}
  BY <1>1 DEF IsOption, Kinds, Defaults
<1>3. ASSUME NEW kind \in {"queue", "taskID", "timeout", "deadline", "unique", "retention", "group"},
             NEW d
      PROVE  LastOf(opts, s, {kind}, d) = IF k = kind THEN v ELSE LastOf(opts, r, {kind}, d)
  <2>1. /\ k = kind => Given(opts, s, {kind}) # {} /\ Max(Given(opts, s, {kind})) = m
        /\ k # kind => Given(opts, s, {kind}) = Given(opts, r, {kind})
    <3>1. PICK K : K = {kind}
      OBVIOUS
    <3>2. /\ k \in K => Given(opts, s, K) # {} /\ Max(Given(opts, s, K)) = m
          /\ k \notin K => Given(opts, s, K) = Given(opts, r, K)
      BY <1>1, LastStep
    <3> QED BY <3>1, <3>2
  <2> QED BY <1>1, <2>1 DEF LastOf
<1>4. LastTime(opts, s, now0) =
        IF k = "processIn" THEN now0 + v ELSE IF k = "processAt" THEN v ELSE LastTime(opts, r, now0)
  <2>0. PICK K : K = {"processAt", "processIn"}
    OBVIOUS
  <2>1. /\ k \in K => Given(opts, s, K) # {} /\ Max(Given(opts, s, K)) = m
        /\ k \notin K => Given(opts, s, K) = Given(opts, r, K)
    BY <1>1, LastStep
  <2> QED BY <1>1, <2>0, <2>1 DEF LastTime
<1> DEFINE L(kind, d) == LastOf(opts, r, {kind}, d)
           P == LastTime(opts, r, now0)
           V(kind, d) == IF k = kind THEN v ELSE L(kind, d)
<1>5. Result(opts, s, now0) =
        [queue |-> V("queue", DefaultQueue), taskID |-> V("taskID", Nil),
         timeout |-> V("timeout", 0), deadline |-> V("deadline", Nil), unique |-> V("unique", 0),
         processAt |-> IF k = "processIn" THEN now0 + v ELSE IF k = "processAt" THEN v ELSE P,
         retention |-> V("retention", 0), group |-> V("group", Nil)]
  BY <1>3, <1>4 DEF Result
<1>6. Result(opts, r, now0) =
        [queue |-> L("queue", DefaultQueue), taskID |-> L("taskID", Nil),
         timeout |-> L("timeout", 0), deadline |-> L("deadline", Nil), unique |-> L("unique", 0),
         processAt |-> P, retention |-> L("retention", 0), group |-> L("group", Nil)]
  BY DEF Result
<1> HIDE DEF L, P
<1>7. PICK res : res = Result(opts, r, now0)
  OBVIOUS
<1>8. Apply(res, opts[m], now0) =
        IF k = "processIn" THEN [res EXCEPT !.processAt = now0 + v] ELSE [res EXCEPT ![k] = v]
  BY <1>1 DEF Apply
<1>9. Result(opts, s, now0) = Apply(res, opts[m], now0)
  BY <1>2, <1>5, <1>6, <1>7, <1>8
<1> QED BY <1>1, <1>7, <1>9

\* Two functions that agree at 0 and go on in the same way agree.
LEMMA StepwiseEqual ==
    ASSUME NEW n \in Nat, NEW f, NEW g, f[0] = g[0],
           \A i \in 1 .. n : f[i - 1] = g[i - 1] => f[i] = g[i]
    PROVE  f[n] = g[n]
<1>1. ASSUME f[n] # g[n] PROVE FALSE
  <2> DEFINE A == {i \in 1 .. n : f[i] = g[i]}
  <2>1. n # 0
    BY <1>1
  <2>2. CASE A = {}
    <3>1. f[1 - 1] = g[1 - 1] /\ 1 \in 1 .. n
      BY <2>1
    <3> QED BY <2>2, <3>1
  <2>3. CASE A # {}
    <3>1. PICK m : m = Max(A)
      OBVIOUS
    <3>2. m \in A /\ \A i \in A : i <= m
      <4>1. Indices(A, n)
        BY DEF Indices
      <4> HIDE DEF A
      <4> QED BY <2>3, <3>1, <4>1, LastIndex
    <3>3. m # n /\ m + 1 \in 1 .. n /\ (m + 1) - 1 = m /\ ~(m + 1 <= m)
      BY <1>1, <3>2
    <3> QED BY <3>2, <3>3
  <2> QED BY <2>2, <2>3
<1> QED BY <1>1

\* composeOptions yields, for each field, what was asked for last.
LEMMA ComposedIs ==
    ASSUME NEW opts, IsOptions(opts), NEW now0, ComposeOptions(opts, now0) # Nil
    PROVE  ComposeOptions(opts, now0) = Result(opts, DOMAIN opts, now0)
<1>1. PICK n, N : n = Len(opts) /\ N = DOMAIN opts
  OBVIOUS
<1>2. /\ n \in Nat /\ N = 1 .. n
      /\ \A i \in N : IsOption(opts[i])
  <2>1. opts \in Seq(ToSet(opts)) /\ \A o \in ToSet(opts) : IsOption(o)
    BY DEF IsOptions
  <2>2. \A i \in N : opts[i] \in ToSet(opts)
    BY <1>1 DEF ToSet
  <2> QED BY <1>1, <2>1, <2>2, LenProperties
<1> DEFINE Def(h) == [s \in SUBSET N |->
                        IF s = {} THEN Defaults(now0)
                        ELSE Apply(h[s \ {Max(s)}], opts[Max(s)], now0)]
           w == [s \in SUBSET N |-> Result(opts, s, now0)]
           iter == CHOOSE h : h = Def(h)
<1>3. ComposeOptions(opts, now0) = iter[N]
  BY <1>1 DEF ComposeOptions, FoldLeft, MapThenFoldSet
<1>4. w = Def(w)
  <2>1. Result(opts, {}, now0) = Defaults(now0)
    BY DEF Result, Defaults, LastOf, LastTime, Given
  <2>2. ASSUME NEW s \in SUBSET N, s # {}
        PROVE  Result(opts, s, now0) = Apply(Result(opts, s \ {Max(s)}, now0), opts[Max(s)], now0)
    <3>1. PICK m : m = Max(s)
      OBVIOUS
    <3>2. Indices(s, n) /\ IsOption(opts[m])
      <4>1. Indices(s, n)
        BY <1>2 DEF Indices
      <4>2. m \in s
        BY <2>2, <3>1, <4>1, LastIndex
      <4> QED BY <1>2, <4>1, <4>2
    <3>3. PICK r : r = s \ {m}
      OBVIOUS
    <3>4. Result(opts, s, now0) = Apply(Result(opts, r, now0), opts[m], now0)
      <4>1. LastAmong(s, n, m, r)
        BY <2>2, <3>1, <3>2, <3>3 DEF LastAmong
      <4> QED BY ONLY <3>2, <4>1, ResultStep
    <3> QED BY <3>1, <3>3, <3>4
  <2>3. ASSUME NEW s \in SUBSET N
        PROVE  w[s] = IF s = {} THEN Defaults(now0)
                      ELSE Apply(w[s \ {Max(s)}], opts[Max(s)], now0)
    <3>1. s \ {Max(s)} \in SUBSET N
      OBVIOUS
    <3> QED BY <2>1, <2>2, <3>1
  <2>4. w = [s \in SUBSET N |-> w[s]]
    OBVIOUS
  <2> HIDE DEF w
  <2> QED BY <2>3, <2>4
<1>5. iter = Def(iter)
  <2> HIDE DEF w, Def
  <2> QED BY <1>4
<1> HIDE DEF iter
<1>6. \A s \in SUBSET N : iter[s] = IF s = {} THEN Defaults(now0)
                                    ELSE Apply(iter[s \ {Max(s)}], opts[Max(s)], now0)
  BY <1>5
<1>7. \A s \in SUBSET N : w[s] = IF s = {} THEN Defaults(now0)
                                 ELSE Apply(w[s \ {Max(s)}], opts[Max(s)], now0)
  <2> HIDE DEF w
  <2> QED BY <1>4
<1>8. iter[N] = w[N]
  <2> DEFINE f == [i \in 0 .. n |-> iter[1 .. i]]
             g == [i \in 0 .. n |-> w[1 .. i]]
  <2> HIDE DEF w, Def
  <2>1. f[0] = g[0]
    <3>1. {} \in SUBSET N /\ 1 .. 0 = {} /\ 0 \in 0 .. n
      BY <1>2
    <3> QED BY <1>6, <1>7, <3>1
  <2>2. ASSUME NEW i \in 1 .. n, f[i - 1] = g[i - 1] PROVE f[i] = g[i]
    <3>0. n \in Nat /\ N = 1 .. n
      BY <1>2
    <3>1. i \in 0 .. n /\ i - 1 \in 0 .. n /\ 1 .. i \in SUBSET N /\ 1 .. i # {}
      <4>1. i \in 1 .. i /\ i \in 0 .. n /\ i - 1 \in 0 .. n
        BY ONLY <3>0, i \in 1 .. n
      <4>2. \A x \in 1 .. i : x \in 1 .. n
        BY ONLY <3>0, i \in 1 .. n
      <4> QED BY ONLY <3>0, <4>1, <4>2
    <3>2. PICK s : s = 1 .. i
      OBVIOUS
    <3>3. Max(s) = i
      <4>1. Indices(s, n) /\ s # {} /\ i \in s
        <5>1. \A x \in 1 .. i : x \in 1 .. n
          BY ONLY <3>0, i \in 1 .. n
        <5>2. i \in 1 .. i
          BY ONLY <3>0, i \in 1 .. n
        <5> QED BY ONLY <3>0, <3>2, <5>1, <5>2 DEF Indices
      <4>2. Max(s) \in s /\ i <= Max(s)
        BY <4>1, LastIndex
      <4> QED BY <3>2, <4>2
    <3>4. s \ {i} = 1 .. i - 1
      BY <1>2, <3>2
    <3>5. /\ iter[s] = Apply(iter[1 .. i - 1], opts[i], now0)
          /\ w[s] = Apply(w[1 .. i - 1], opts[i], now0)
      BY <1>6, <1>7, <3>1, <3>2, <3>3, <3>4
    <3>6. iter[1 .. i - 1] = w[1 .. i - 1]
      BY <2>2, <3>1
    <3> QED BY <3>1, <3>2, <3>5, <3>6
  <2>3. f[n] = g[n]
    <3> HIDE DEF f, g
    <3> QED BY <1>2, <2>1, <2>2, StepwiseEqual
  <2> QED BY <1>2, <2>3
<1> QED BY <1>1, <1>3, <1>8

\* So each field of it is what was asked for.
LEMMA AskedIs ==
    ASSUME NEW opts, IsOptions(opts), NEW now0, NEW opt, opt = ComposeOptions(opts, now0), opt # Nil
    PROVE  /\ opt.queue = Asked(opts, {"queue"}, DefaultQueue)
           /\ opt.taskID = Asked(opts, {"taskID"}, Nil)
           /\ opt.timeout = Asked(opts, {"timeout"}, 0)
           /\ opt.deadline = Asked(opts, {"deadline"}, Nil)
           /\ opt.unique = Asked(opts, {"unique"}, 0)
           /\ opt.processAt = AskedAt(opts, now0)
           /\ opt.retention = Asked(opts, {"retention"}, 0)
           /\ opt.group = Asked(opts, {"group"}, Nil)
<1>1. opt = Result(opts, DOMAIN opts, now0)
  BY ComposedIs
<1> QED BY <1>1 DEF Result, LastOf, LastTime, Given, Asked, AskedAt

\* What is asked for is the default or the value of an option of that kind.
LEMMA AskedFrom ==
    ASSUME NEW opts, IsOptions(opts), NEW kinds, NEW default
    PROVE  \/ /\ \A d : Asked(opts, kinds, d) = d
           \/ \E i \in DOMAIN opts : /\ IsOption(opts[i]) /\ opts[i].kind \in kinds
                                     /\ \A d : Asked(opts, kinds, d) = opts[i].value
<1> DEFINE given == {i \in DOMAIN opts : opts[i].kind \in kinds}
<1>1. CASE given = {}
  BY <1>1 DEF Asked
<1>2. CASE given # {}
  <2>1. PICK m : m = Max(given)
    OBVIOUS
  <2>2. Len(opts) \in Nat /\ DOMAIN opts = 1 .. Len(opts)
    BY LenProperties DEF IsOptions
  <2>3. m \in given
    <3>1. Indices(given, Len(opts))
      BY <2>2 DEF Indices
    <3> HIDE DEF given
    <3> QED BY <1>2, <2>1, <2>2, <3>1, LastIndex
  <2>4. IsOption(opts[m])
    BY <2>3 DEF IsOptions, ToSet
  <2> QED BY <1>2, <2>1, <2>3, <2>4 DEF Asked
<1> QED BY <1>1, <1>2

\* The types of what is asked for.
LEMMA AskedTypes ==
    ASSUME NEW opts, IsOptions(opts)
    PROVE  /\ Asked(opts, {"timeout"}, 0) \in Nat
           /\ \/ Asked(opts, {"deadline"}, Nil) = Nil
              \/ Asked(opts, {"deadline"}, Nil) \in Nat /\ Asked(opts, {"deadline"}, Nil) >= Second
           /\ Asked(opts, {"unique"}, 0) \in Int
           /\ \A t : Asked(opts, {"taskID"}, Nil) \in {Nil, t} => Asked(opts, {"taskID"}, t) = t
           /\ \A now0 \in Int : AskedAt(opts, now0) \in Int
<1>1. Asked(opts, {"timeout"}, 0) \in Nat
  BY AskedFrom DEF IsOption
<1>2. \/ Asked(opts, {"deadline"}, Nil) = Nil
      \/ Asked(opts, {"deadline"}, Nil) \in Nat /\ Asked(opts, {"deadline"}, Nil) >= Second
  BY AskedFrom DEF IsOption
<1>3. Asked(opts, {"unique"}, 0) \in Int
  BY AskedFrom DEF IsOption
<1>4. \A t : Asked(opts, {"taskID"}, Nil) \in {Nil, t} => Asked(opts, {"taskID"}, t) = t
  BY AskedFrom DEF IsOption
<1>5. ASSUME NEW now0 \in Int PROVE AskedAt(opts, now0) \in Int
  <2> DEFINE given == {i \in DOMAIN opts : opts[i].kind \in {"processAt", "processIn"}}
  <2>1. CASE given = {}
    BY <2>1 DEF AskedAt
  <2>2. CASE given # {}
    <3>1. PICK m : m = Max(given)
      OBVIOUS
    <3>2. Len(opts) \in Nat /\ DOMAIN opts = 1 .. Len(opts)
      BY LenProperties DEF IsOptions
    <3>3. m \in given
      <4>1. Indices(given, Len(opts))
        BY <3>2 DEF Indices
      <4> HIDE DEF given
      <4> QED BY <2>2, <3>1, <3>2, <4>1, LastIndex
    <3>4. IsOption(opts[m])
      BY <3>3 DEF IsOptions, ToSet
    <3>5. opts[m].value \in Int
      BY <3>3, <3>4 DEF IsOption
    <3> QED BY <2>2, <3>1, <3>5 DEF AskedAt
  <2> QED BY <2>1, <2>2
<1> QED BY <1>1, <1>2, <1>3, <1>4, <1>5

\* A time cut to whole seconds is less than a second earlier.
LEMMA WholeSeconds ==
    ASSUME NEW a \in Int, NEW q, q = a \div Second
    PROVE  /\ q \in Int /\ q * Second \in Int
           /\ q * Second <= a /\ a < q * Second + Second
           /\ a >= Second => q >= 1
           /\ a % Second = 0 => q * Second = a
BY ClientAssumption

\* The limits that a timeout and a deadline set to a task started at start.
LimitsOf(T, D, start) ==
    (IF T = 0 THEN {} ELSE {start + T}) \cup (IF D = Nil THEN {} ELSE {D})

\* The context of a task ends by the earlier of its limits, less than two seconds
\* before it, although both are cut to seconds and added to a start that is.
LEMMA ContextEnds ==
    ASSUME NEW opt, NEW at, NEW start \in Nat, NEW T \in Nat, NEW D,
           opt.timeout = T, opt.deadline = D,
           D = Nil \/ (D \in Nat /\ D >= Second), T \notin 1 .. Second - 1,
           NEW ctx, ctx = ComputeDeadline(Message(opt, at), start), NEW L, L = LimitsOf(T, D, start)
    PROVE  IF L = {} THEN ctx = start + DefaultTimeout
           ELSE ctx <= Min(L) /\ ctx > Min(L) - 2 * Second
<1> USE ClientAssumption
<1>1. PICK msg, t, d, w, n : /\ msg = Message(opt, at) /\ t = T \div Second /\ d = D \div Second
                             /\ w = DefaultTimeout \div Second /\ n = start \div Second
  OBVIOUS
<1>2. D # 0
  OBVIOUS
<1>3. /\ msg.timeout = IF T = 0 /\ D = Nil THEN w ELSE t
      /\ msg.deadline = IF D = Nil THEN 0 ELSE d
  BY <1>1, <1>2 DEF Message
<1>4. /\ w \in Int /\ w >= 1 /\ w * Second = DefaultTimeout
  <2>1. DefaultTimeout >= Second
    OBVIOUS
  <2>2. PICK e : e = DefaultTimeout
    OBVIOUS
  <2>3. e \in Int /\ e % Second = 0 /\ e >= Second /\ w = e \div Second
    BY <1>1, <2>1, <2>2
  <2>4. w \in Int /\ (e >= Second => w >= 1) /\ (e % Second = 0 => w * Second = e)
    BY ONLY <2>3, WholeSeconds
  <2> QED BY ONLY <2>2, <2>3, <2>4
<1>5. /\ t \in Int /\ (T = 0 => t = 0) /\ (T # 0 => t >= 1)
      /\ t * Second \in Int /\ t * Second <= T /\ T < t * Second + Second
  <2>1. T # 0 => T >= Second
    OBVIOUS
  <2>2. T \in Int /\ t = T \div Second
    BY <1>1
  <2>3. /\ t \in Int /\ t * Second \in Int /\ t * Second <= T /\ T < t * Second + Second
        /\ T >= Second => t >= 1
    BY ONLY <2>2, WholeSeconds
  <2>4. T = 0 => t = 0
    BY <2>2
  <2> QED BY ONLY <2>1, <2>3, <2>4
<1>6. D # Nil => /\ d \in Int /\ d >= 1
                 /\ d * Second \in Int /\ d * Second <= D /\ D < d * Second + Second
  BY <1>1, WholeSeconds
<1>7. n \in Int /\ n * Second \in Int /\ n * Second <= start /\ start < n * Second + Second
  BY <1>1, WholeSeconds
<1>8. ctx = CASE msg.timeout = 0 /\ msg.deadline = 0 -> start + DefaultTimeout
              [] msg.timeout # 0 /\ msg.deadline # 0 -> Min({n + msg.timeout, msg.deadline}) * Second
              [] msg.timeout # 0 /\ msg.deadline = 0 -> start + msg.timeout * Second
              [] OTHER -> msg.deadline * Second
  BY <1>1 DEF ComputeDeadline
<1>9. CASE T = 0 /\ D = Nil
  <2>1. L = {}
    BY <1>9 DEF LimitsOf
  <2>2. msg.timeout = w /\ msg.deadline = 0 /\ w # 0
    BY <1>3, <1>4, <1>9
  <2>3. ctx = start + w * Second
    BY <1>8, <2>2
  <2> QED BY <1>4, <2>1, <2>3
<1>10. CASE T # 0 /\ D = Nil
  <2>1. L = {start + T}
    BY <1>10 DEF LimitsOf
  <2>2. msg.timeout = t /\ msg.deadline = 0 /\ t # 0
    BY <1>3, <1>5, <1>10
  <2>3. ctx = start + t * Second
    BY <1>8, <2>2
  <2>4. Min(L) = start + T
    BY <2>1 DEF Min
  <2> QED BY <1>5, <2>1, <2>3, <2>4
<1>11. CASE T = 0 /\ D # Nil
  <2>1. L = {D}
    BY <1>11 DEF LimitsOf
  <2>2. msg.timeout = 0 /\ msg.deadline = d /\ d # 0
    BY <1>3, <1>5, <1>6, <1>11
  <2>3. ctx = d * Second
    BY <1>8, <2>2
  <2>4. Min(L) = D
    BY <1>11, <2>1 DEF Min
  <2>5. D \in Nat /\ d * Second \in Int /\ d * Second <= D /\ D < d * Second + Second
    BY <1>6, <1>11
  <2>6. PICK c : c = d * Second
    OBVIOUS
  <2>7. ctx <= D /\ ctx > D - 2 * Second
    BY ONLY <2>3, <2>5, <2>6, Second \in Nat \ {0}
  <2> QED BY <2>1, <2>4, <2>7
<1>12. CASE T # 0 /\ D # Nil
  <2>1. L = {start + T, D}
    BY <1>12 DEF LimitsOf
  <2>2. msg.timeout = t /\ msg.deadline = d /\ t # 0 /\ d # 0
    BY <1>3, <1>5, <1>6, <1>12
  <2>3. ctx = Min({n + t, d}) * Second
    BY <1>8, <2>2
  <2>4. PICK x, y : x = Min({n + t, d}) /\ y = Min({start + T, D})
    OBVIOUS
  <2>5. (x = n + t /\ x <= d) \/ (x = d /\ x <= n + t)
    <3>1. n + t \in Int /\ d \in Int
      BY <1>5, <1>6, <1>7, <1>12
    <3>2. \E z \in {n + t, d} : \A u \in {n + t, d} : z <= u
      BY <3>1
    <3> QED BY <2>4, <3>2 DEF Min
  <2>6. y \in Int /\ ((y = start + T /\ y <= D) \/ (y = D /\ y <= start + T))
    <3>1. start + T \in Int /\ D \in Int
      BY <1>12
    <3>2. \E z \in {start + T, D} : \A u \in {start + T, D} : z <= u
      BY <3>1
    <3> QED BY <2>4, <3>1, <3>2 DEF Min
  <2>7. PICK a, b, c : a = n * Second /\ b = t * Second /\ c = d * Second
    OBVIOUS
  <2>8. (n + t) * Second = a + b
    BY <1>5, <1>7, <2>7
  <2>9. ctx = x * Second /\ (ctx = a + b \/ ctx = c)
    BY <2>3, <2>4, <2>5, <2>7, <2>8
  <2>10. ctx <= a + b /\ ctx <= c
    <3>1. x \in Int /\ n + t \in Int /\ d \in Int /\ x <= n + t /\ x <= d
      BY <1>5, <1>6, <1>7, <1>12, <2>5
    <3>2. x * Second <= (n + t) * Second /\ x * Second <= d * Second
      BY ONLY <3>1, Second \in Nat \ {0}
    <3> QED BY <2>7, <2>8, <2>9, <3>2
  <2>11. /\ a \in Int /\ b \in Int /\ c \in Int /\ Second \in Nat /\ D \in Nat
         /\ a <= start /\ start < a + Second /\ b <= T /\ T < b + Second /\ c <= D /\ D < c + Second
    BY <1>5, <1>6, <1>7, <1>12, <2>7
  <2>12. ctx <= y /\ ctx > y - 2 * Second
    BY ONLY <2>6, <2>9, <2>10, <2>11, start \in Nat, T \in Nat
  <2> QED BY <2>1, <2>4, <2>12
<1> QED BY <1>9, <1>10, <1>11, <1>12

-----------------------------------------------------------------------------
\* The options find room in the array of the task's own.
Fit(opts) == opts # << >> /\ Len(opts) <= Spare

\* There are no two callers whose options do.
OwnOptions ==
    \A c, d \in Caller : \A x \in CallOpts[c], y \in CallOpts[d] : Fit(x) /\ Fit(y) => c = d

\* The fields of a task, with values in V.
TaskRecord(V) == [msg : V, state : V, asked : V, at : V, start : V, ctx : V]
IsTask(r) == \E V : r \in TaskRecord(V)

\* The array b shows a call r its own options behind those of the task.
InPlace(r, b) == TaskOpts \o SubSeq(b, 1, Len(r.asked) - Len(TaskOpts)) = r.asked

\* Only the caller whose options fit works in the array, and finds them there.
PlaceInv ==
    /\ \E S : backing \in Seq(S)
    /\ \A c \in Caller : \/ call[c].shared = FALSE
                         \/ InPlace(call[c], backing) /\ \E opts \in CallOpts[c] : Fit(opts)

\* What a call sends is what its own options ask for.
CallKept(r, time) ==
    /\ IsOptions(r.asked)
    /\ r.stage \in {"publish", "run"} =>
         /\ r.at \in Nat /\ r.at <= time
         /\ r.opt # Nil /\ r.opt = ComposeOptions(r.asked, r.at)
         /\ r.opt.taskID \in {Nil, r.id}

\* The message of a task comes from the options it was asked for with.
FromOptions(k, r) ==
    /\ IsTask(r) /\ IsOptions(r.asked) /\ r.at \in Nat
    /\ \E opt : /\ opt # Nil /\ opt = ComposeOptions(r.asked, r.at)
                /\ r.msg = Message(opt, r.at)
                /\ k[1] = opt.queue /\ opt.taskID \in {Nil, k[2]}

\* It is pending no earlier than a second before its time, and active since then.
TaskKept(k, r, time) ==
    /\ FromOptions(k, r)
    /\ r.state = "pending" => time > AskedAt(r.asked, r.at) - Second
    /\ r.state = "active" => /\ r.start \in Nat /\ r.start > AskedAt(r.asked, r.at) - Second
                             /\ r.ctx = ComputeDeadline(r.msg, r.start)

OptionsInv ==
    /\ now \in Nat
    /\ \A c \in Caller : CallKept(call[c], now)
    /\ \A k \in Key : task[k] # Nil => TaskKept(k, task[k], now)

\* What holds of a task and a call holds later.
LEMMA KeptLater ==
    ASSUME NEW a \in Nat, NEW b \in Nat, a <= b
    PROVE  /\ \A r : CallKept(r, a) => CallKept(r, b)
           /\ \A k, r : TaskKept(k, r, a) => TaskKept(k, r, b)
<1>1. ASSUME NEW r, CallKept(r, a) PROVE CallKept(r, b)
  BY <1>1 DEF CallKept
<1>2. ASSUME NEW k, NEW r, TaskKept(k, r, a) PROVE TaskKept(k, r, b)
  <2>1. PICK x : x = AskedAt(r.asked, r.at)
    OBVIOUS
  <2>2. x \in Int /\ Second \in Int
    BY <1>2, <2>1, AskedTypes, ClientAssumption DEF TaskKept, FromOptions
  <2>3. r.state = "pending" => b > x - Second
    BY <1>2, <2>1, <2>2 DEF TaskKept
  <2> QED BY <1>2, <2>1, <2>3 DEF TaskKept
<1> QED BY <1>1, <1>2

\* No call is kept.
LEMMA NoCallKept == \A time : CallKept(NoCall, time)
<1>1. IsOptions(<< >>)
  BY DEF IsOptions, ToSet
<1>2. NoCall.asked = << >> /\ NoCall.stage = "idle"
  BY DEF NoCall
<1> QED BY <1>1, <1>2 DEF CallKept

\* Options that are written over the first elements of an array are found there.
LEMMA WrittenFirst ==
    ASSUME NEW S, NEW own \in Seq(S), NEW opts \in Seq(S), NEW b \in Seq(S), NEW d,
           d = opts \o SubSeq(b, Len(opts) + 1, Len(b))
    PROVE  d \in Seq(S) /\ SubSeq(d, 1, Len(own \o opts) - Len(own)) = opts
<1>1. PICK n, rest : n = Len(opts) /\ rest = SubSeq(b, Len(opts) + 1, Len(b))
  OBVIOUS
<1>2. n \in Nat /\ Len(b) \in Nat /\ Len(own) \in Nat
  BY <1>1, LenProperties
<1>3. rest \in Seq(S)
  <2>1. \A i \in n + 1 .. Len(b) : b[i] \in S
    BY <1>2, ElementOfSeq
  <2> QED BY ONLY <1>1, <1>2, <2>1, SubSeqProperties
<1>4. /\ d = opts \o rest /\ d \in Seq(S)
      /\ Len(d) = n + Len(rest) /\ \A i \in 1 .. n + Len(rest) : i <= n => d[i] = opts[i]
  BY ONLY <1>1, <1>3, ConcatProperties, opts \in Seq(S), d = opts \o SubSeq(b, Len(opts) + 1, Len(b))
<1>5. Len(own \o opts) - Len(own) = n
  <2>1. Len(own \o opts) = Len(own) + n
    BY <1>1, ConcatProperties
  <2> QED BY <1>2, <2>1
<1>6. Len(rest) \in Nat
  BY <1>3, LenProperties
<1>7. \A i \in 1 .. n : d[i] = opts[i] /\ d[i] \in S
  <2>1. \A i \in 1 .. n : opts[i] \in S
    BY <1>1, ElementOfSeq
  <2> QED BY <1>2, <1>4, <1>6, <2>1
<1>8. PICK f : f = SubSeq(d, 1, n)
  OBVIOUS
<1>9. f \in Seq(S) /\ Len(f) = n /\ \A i \in 1 .. n : f[i] = d[i]
  <2>1. /\ f \in Seq(S) /\ Len(f) = (IF 1 <= n THEN n - 1 + 1 ELSE 0)
        /\ \A i \in 1 .. n - 1 + 1 : f[i] = d[1 + i - 1]
    <3>1. 1 \in Int /\ n \in Int /\ \A i \in 1 .. n : d[i] \in S
      BY ONLY <1>2, <1>7
    <3> QED BY ONLY <1>8, <3>1, SubSeqProperties
  <2> QED BY ONLY <1>2, <2>1
<1>10. f = opts
  <2>1. \A i \in 1 .. Len(f) : f[i] = opts[i]
    BY <1>7, <1>9
  <2> QED BY ONLY <1>1, <1>9, <2>1, SeqEqual, opts \in Seq(S)
<1> QED BY <1>4, <1>5, <1>8, <1>10

\* A step that leaves the array alone and the options of a call as they are, or drops
\* the call, keeps the options in place.
LEMMA PlaceLater ==
    ASSUME PlaceInv, backing' = backing,
           \A c \in Caller : \/ call'[c].shared = FALSE
                             \/ call'[c].shared = call[c].shared /\ call'[c].asked = call[c].asked
    PROVE  PlaceInv'
<1>1. ASSUME NEW c \in Caller, call'[c].shared # FALSE
      PROVE  InPlace(call'[c], backing) /\ \E opts \in CallOpts[c] : Fit(opts)
  <2>1. call[c].shared # FALSE /\ call'[c].asked = call[c].asked
    BY <1>1
  <2> QED BY <2>1 DEF PlaceInv, InPlace
<1>2. \A c \in Caller : \/ call'[c].shared = FALSE
                        \/ InPlace(call'[c], backing) /\ \E opts \in CallOpts[c] : Fit(opts)
  BY <1>1
<1> QED BY <1>2 DEF PlaceInv, InPlace

\* A call that appends its options in place finds them there, and no other call
\* works in the array.
LEMMA AppendPlaced ==
    ASSUME ListedInv, PlaceInv, OwnOptions, NEW c \in Caller, NEW opts \in CallOpts[c],
           AppendOpts(c, opts)
    PROVE  PlaceInv'
<1>1. PICK x, asked : x = Fit(opts) /\ asked = TaskOpts \o opts
  OBVIOUS
<1>2. PICK r : r = Appended(NoCall, "compose", asked, x)
  OBVIOUS
<1>3. /\ call' = [call EXCEPT ![c] = r]
      /\ backing' = IF x THEN opts \o SubSeq(backing, Len(opts) + 1, Len(backing)) ELSE backing
  BY <1>1, <1>2 DEF AppendOpts, Set, Fit, Appended
<1>4. r.asked = asked /\ r.shared = x
  <2>1. PICK a : a = "compose"
    OBVIOUS
  <2>2. r = Appended(NoCall, a, asked, x)
    BY <1>2, <2>1
  <2> QED BY ONLY <2>2, NoCallFact, AppendEdit
<1>5. \A d \in Caller : call'[d] = IF d = c THEN r ELSE call[d]
  BY <1>3 DEF ListedInv
<1>6. CASE ~Fit(opts)
  <2>1. x = FALSE
    BY <1>1, <1>6, Zenon DEF Fit
  <2> QED BY <1>3, <1>4, <1>5, <2>1, PlaceLater
<1>7. CASE Fit(opts)
  <2>1. x = TRUE
    BY <1>1, <1>7, Zenon DEF Fit
  <2>2. PICK S : backing \in Seq(S)
    BY DEF PlaceInv
  <2>3. PICK U : U = S \cup ToSet(TaskOpts) \cup ToSet(opts)
    OBVIOUS
  <2>4. TaskOpts \in Seq(U) /\ opts \in Seq(U) /\ backing \in Seq(U)
    <3>1. TaskOpts \in Seq(ToSet(TaskOpts)) /\ opts \in Seq(ToSet(opts))
      BY OptionsAssumption DEF IsOptions
    <3>2. S \subseteq U /\ ToSet(TaskOpts) \subseteq U /\ ToSet(opts) \subseteq U
      BY <2>3
    <3> QED BY ONLY <2>2, <3>1, <3>2
  <2>5. PICK b : b = backing' /\ b = opts \o SubSeq(backing, Len(opts) + 1, Len(backing))
    BY <1>3, <2>1
  <2>6. b \in Seq(U) /\ SubSeq(b, 1, Len(TaskOpts \o opts) - Len(TaskOpts)) = opts
    BY ONLY <2>4, <2>5, WrittenFirst
  <2>7. InPlace(r, b)
    BY <1>1, <1>4, <2>6 DEF InPlace
  <2>8. ASSUME NEW d \in Caller, d # c PROVE call'[d].shared = FALSE
    <3>1. \A y \in CallOpts[d] : ~Fit(y)
      BY <1>7, <2>8 DEF OwnOptions
    <3> QED BY <1>5, <2>8, <3>1 DEF PlaceInv
  <2>9. \A d \in Caller : \/ call'[d].shared = FALSE
                          \/ InPlace(call'[d], b) /\ \E y \in CallOpts[d] : Fit(y)
    BY <1>5, <1>7, <2>7, <2>8
  <2> QED BY <2>5, <2>6, <2>9 DEF PlaceInv, InPlace
<1> QED BY <1>6, <1>7

\* The options of a call stay in place.
LEMMA PlaceStep ==
    ASSUME ListedInv, PlaceInv, OwnOptions, [QueuesNext]_queueVars
    PROVE  PlaceInv'
<1> USE DEF redisVars, clientVars
<1>1. CASE \E c \in Caller : \E opts \in CallOpts[c] : AppendOpts(c, opts)
  BY <1>1, AppendPlaced
<1>2. \A d \in Caller : IsCall(call[d])
  BY DEF ListedInv
<1>3. NoCall.shared = FALSE
  BY DEF NoCall
<1>4. ASSUME NEW c \in Caller, NEW r, call' = [call EXCEPT ![c] = r], backing' = backing,
             r.shared = FALSE \/ (r.shared = call[c].shared /\ r.asked = call[c].asked)
      PROVE  PlaceInv'
  <2>1. \A d \in Caller : call'[d] = IF d = c THEN r ELSE call[d]
    BY <1>4 DEF ListedInv
  <2> QED BY <1>4, <2>1, PlaceLater
<1>5. ASSUME NEW c \in Caller, Compose(c) PROVE PlaceInv'
  <2>1. CASE call' = [call EXCEPT ![c] = NoCall]
    BY <1>3, <1>4, <1>5, <2>1 DEF Compose
  <2>2. ASSUME NEW opt, NEW t, call' = [call EXCEPT ![c] = Composed(call[c], "publish", opt, now, t)]
        PROVE  PlaceInv'
    <3>1. PICK r : r = Composed(call[c], "publish", opt, now, t)
      OBVIOUS
    <3>2. r.shared = call[c].shared /\ r.asked = call[c].asked
      BY <1>2, <3>1, ComposeEdit
    <3> QED BY <1>4, <1>5, <2>2, <3>1, <3>2 DEF Compose
  <2> QED BY <1>5, <2>1, <2>2 DEF Compose, Set, Composed
<1>6. ASSUME NEW c \in Caller, Publish(c) \/ RunScript(c) PROVE PlaceInv'
  <2>1. backing' = backing
    BY <1>6 DEF Publish, RunScript
  <2>2. CASE call' = [call EXCEPT ![c] = NoCall]
    BY <1>3, <1>4, <2>1, <2>2
  <2>3. CASE call' = [call EXCEPT ![c] = [call[c] EXCEPT !.stage = "run"]]
    <3>1. PICK r : r = [call[c] EXCEPT !.stage = "run"]
      OBVIOUS
    <3>2. r.shared = call[c].shared /\ r.asked = call[c].asked
      BY <1>2, <3>1, StageEdit
    <3> QED BY <1>4, <2>1, <2>3, <3>1, <3>2
  <2> QED BY <1>6, <2>2, <2>3 DEF Publish, RunScript, Set
<1>7. CASE \E r \in RDB : Restart(r)
  <2>1. backing' = backing /\ \A c \in Caller : call'[c] \in {NoCall, call[c]}
    BY <1>7 DEF Restart
  <2> QED BY <1>3, <2>1, PlaceLater
<1>8. CASE \/ \E k \in Key : Finish(k) \/ Forward(k) \/ Expire(k)
           \/ \E q \in QueueNames, force \in BOOLEAN : QueueExists(q, force)
           \/ \E q \in QueueNames : Pause(q) \/ Unpause(q)
           \/ \E o \in orders : StartPoll(o)
           \/ Try \/ RemoveScript \/ RemoveFromSet \/ Tick \/ UNCHANGED queueVars
  <2>1. backing' = backing /\ call' = call
    BY <1>8 DEF Finish, Forward, Expire, QueueExists, Pause, Unpause, StartPoll, Try,
                RemoveScript, RemoveFromSet, Tick, queueVars
  <2> QED BY <2>1, PlaceLater
<1> QED BY <1>1, <1>5, <1>6, <1>7, <1>8 DEF QueuesNext

\* The options of a call behind those of the task are options.
LEMMA OptionsJoined ==
    ASSUME NEW s, NEW u, IsOptions(s), IsOptions(u)
    PROVE  IsOptions(s \o u)
<1> DEFINE S == ToSet(s) \cup ToSet(u)
<1>1. s \in Seq(S) /\ u \in Seq(S) /\ \A o \in S : IsOption(o)
  <2>1. s \in Seq(ToSet(s)) /\ u \in Seq(ToSet(u)) /\ ToSet(s) \subseteq S /\ ToSet(u) \subseteq S
    BY DEF IsOptions
  <2>2. \A o \in S : IsOption(o)
    BY DEF IsOptions
  <2> HIDE DEF S
  <2> QED BY <2>1, <2>2
<1> HIDE DEF S
<1>2. PICK q : q = s \o u
  OBVIOUS
<1>3. q \in Seq(S)
  BY <1>1, <1>2, ConcatProperties
<1>4. ToSet(q) \subseteq S
  BY <1>3, ElementOfSeq, LenProperties DEF ToSet
<1>5. q \in Seq(ToSet(q))
  <2>1. Len(q) \in Nat /\ DOMAIN q = 1 .. Len(q) /\ q = [i \in 1 .. Len(q) |-> q[i]]
    BY <1>3, LenProperties
  <2>2. \A i \in 1 .. Len(q) : q[i] \in ToSet(q)
    BY <2>1 DEF ToSet
  <2>3. [i \in 1 .. Len(q) |-> q[i]] \in Seq(ToSet(q))
    BY <2>1, <2>2, IsASeq
  <2> QED BY <2>1, <2>3
<1> QED BY <1>1, <1>2, <1>4, <1>5 DEF IsOptions

\* The edit of Forward and Finish ...
LEMMA StateEdit ==
    ASSUME NEW r, IsTask(r), NEW a
    PROVE  /\ IsTask([r EXCEPT !.state = a]) /\ [r EXCEPT !.state = a].state = a
           /\ \A f \in {"msg", "asked", "at", "start", "ctx"} : [r EXCEPT !.state = a][f] = r[f]
<1>1. PICK V : r \in TaskRecord(V)
  BY DEF IsTask
<1> DEFINE W == V \cup {a}
<1>2. r \in TaskRecord(W) /\ a \in W
  BY <1>1 DEF TaskRecord
<1> HIDE DEF W
<1>3. /\ [r EXCEPT !.state = a] \in TaskRecord(W) /\ [r EXCEPT !.state = a].state = a
      /\ \A f \in {"msg", "asked", "at", "start", "ctx"} : [r EXCEPT !.state = a][f] = r[f]
  BY <1>2 DEF TaskRecord
<1> QED BY <1>3 DEF IsTask

\* ... and of Try.
Started(r, a, b, d) == [r EXCEPT !.state = a, !.start = b, !.ctx = d]

\* A task that is started keeps its options.
LEMMA StartEdit ==
    ASSUME NEW r, IsTask(r), NEW a, NEW b, NEW d
    PROVE  /\ IsTask(Started(r, a, b, d)) /\ Started(r, a, b, d).state = a
           /\ Started(r, a, b, d).start = b /\ Started(r, a, b, d).ctx = d
           /\ \A f \in {"msg", "asked", "at"} : Started(r, a, b, d)[f] = r[f]
<1>1. PICK V : r \in TaskRecord(V)
  BY DEF IsTask
<1> DEFINE W == V \cup {a, b, d}
<1>2. r \in TaskRecord(W) /\ a \in W /\ b \in W /\ d \in W
  BY <1>1 DEF TaskRecord
<1> HIDE DEF W
<1>3. /\ Started(r, a, b, d) \in TaskRecord(W) /\ Started(r, a, b, d).state = a
      /\ Started(r, a, b, d).start = b /\ Started(r, a, b, d).ctx = d
      /\ \A f \in {"msg", "asked", "at"} : Started(r, a, b, d)[f] = r[f]
  BY <1>2 DEF TaskRecord, Started
<1> QED BY <1>3 DEF IsTask

\* A caller goes on to a record that is kept; the tasks stay as they are.
LEMMA CallKeptInv ==
    ASSUME ListedInv, OptionsInv, NEW c \in Caller, NEW r, CallKept(r, now),
           call' = [call EXCEPT ![c] = r], UNCHANGED <<task, now>>
    PROVE  OptionsInv'
<1>1. \A d \in Caller : call'[d] = r \/ call'[d] = call[d]
  BY DEF ListedInv
<1> QED BY <1>1 DEF OptionsInv

\* An enqueue keeps what its caller asks for.
LEMMA CallerKept ==
    ASSUME ListedInv, OptionsInv, PlaceInv, NEW c \in Caller,
           Compose(c) \/ Publish(c) \/ \E opts \in CallOpts[c] : AppendOpts(c, opts)
    PROVE  OptionsInv'
<1>1. IsCall(call[c]) /\ CallKept(call[c], now) /\ now \in Nat
  BY DEF ListedInv, OptionsInv
<1>2. ASSUME NEW opts \in CallOpts[c], AppendOpts(c, opts) PROVE OptionsInv'
  <2>1. /\ Set(c, [NoCall EXCEPT !.stage = "compose", !.asked = TaskOpts \o opts,
                                 !.shared = (opts # << >> /\ Len(opts) <= Spare)])
        /\ UNCHANGED <<task, now>>
    BY <1>2 DEF AppendOpts, redisVars
  <2>2. PICK x : x = (opts # << >> /\ Len(opts) <= Spare)
    OBVIOUS
  <2>3. IsOptions(TaskOpts \o opts)
    BY OptionsAssumption, OptionsJoined
  <2>4. PICK asked : asked = TaskOpts \o opts
    OBVIOUS
  <2>5. PICK r : r = Appended(NoCall, "compose", asked, x)
    OBVIOUS
  <2>6. r.stage = "compose" /\ r.asked = asked
    <3>1. PICK a : a = "compose"
      OBVIOUS
    <3>2. r = Appended(NoCall, a, asked, x)
      BY <2>5, <3>1
    <3>3. r.stage = a /\ r.asked = asked
      BY ONLY <3>2, NoCallFact, AppendEdit
    <3> QED BY <3>1, <3>3
  <2>7. CallKept(r, now)
    BY <2>3, <2>4, <2>6 DEF CallKept
  <2>8. call' = [call EXCEPT ![c] = r]
    BY <2>1, <2>2, <2>4, <2>5 DEF Set, Appended
  <2> QED BY <2>1, <2>7, <2>8, CallKeptInv
<1>3. CASE Compose(c)
  <2>1. UNCHANGED <<task, now>> /\ call[c].stage = "compose"
    BY <1>3 DEF Compose, redisVars
  <2>2. PICK opt : opt = ComposeOptions(Options(c), now)
    OBVIOUS
  <2>3. Options(c) = call[c].asked
    <3>1. CASE call[c].shared = FALSE
      BY <3>1 DEF Options
    <3>2. CASE InPlace(call[c], backing)
      BY <3>2 DEF Options, InPlace
    <3> QED BY <3>1, <3>2 DEF PlaceInv
  <2>4. CASE Set(c, NoCall)
    BY <2>1, <2>4, NoCallKept, CallKeptInv DEF Set
  <2>5. ASSUME NEW t, t \in Ids(opt), opt # Nil,
               Set(c, [call[c] EXCEPT !.stage = "publish", !.opt = opt, !.at = now, !.id = t])
        PROVE  OptionsInv'
    <3>1. PICK r : r = Composed(call[c], "publish", opt, now, t)
      OBVIOUS
    <3>2. /\ r.stage = "publish" /\ r.opt = opt /\ r.at = now /\ r.id = t
          /\ r.asked = call[c].asked /\ r.shared = call[c].shared
      BY <1>1, <3>1, ComposeEdit
    <3>3. opt.taskID \in {Nil, t}
      BY <2>5 DEF Ids
    <3>4. CallKept(r, now)
      BY <1>1, <2>2, <2>3, <2>5, <3>2, <3>3 DEF CallKept
    <3>5. call' = [call EXCEPT ![c] = r]
      BY <2>5, <3>1 DEF Set, Composed
    <3> QED BY <2>1, <3>4, <3>5, CallKeptInv
  <2> QED BY <1>3, <2>2, <2>4, <2>5 DEF Compose
<1>4. CASE Publish(c)
  <2>1. UNCHANGED <<task, now>> /\ call[c].stage = "publish"
    BY <1>4 DEF Publish
  <2>2. CASE Set(c, NoCall)
    BY <2>1, <2>2, NoCallKept, CallKeptInv DEF Set
  <2>3. CASE Set(c, [call[c] EXCEPT !.stage = "run"])
    <3>1. PICK r : r = [call[c] EXCEPT !.stage = "run"]
      OBVIOUS
    <3>2. /\ r.opt = call[c].opt /\ r.at = call[c].at /\ r.id = call[c].id
          /\ r.asked = call[c].asked /\ r.shared = call[c].shared
      BY <1>1, <3>1, StageEdit
    <3>3. CallKept(r, now)
      BY <1>1, <2>1, <3>2 DEF CallKept
    <3> QED BY <2>1, <2>3, <3>1, <3>3, CallKeptInv DEF Set
  <2> QED BY <1>4, <2>2, <2>3 DEF Publish
<1> QED BY <1>2, <1>3, <1>4

\* The script stores what the call asked for.
LEMMA ScriptKept ==
    ASSUME ListedInv, OptionsInv, NEW c \in Caller, RunScript(c)
    PROVE  OptionsInv'
<1> DEFINE k == <<call[c].opt.queue, call[c].id>>
           opt == call[c].opt
           r == [msg |-> Message(opt, call[c].at), state |-> InitialState(opt, call[c].at),
                 asked |-> call[c].asked, at |-> call[c].at, start |-> Nil, ctx |-> Nil]
<1>1. now' = now /\ call' = [call EXCEPT ![c] = NoCall] /\ call[c].stage = "run"
  BY DEF RunScript, Set
<1>2. task' = task \/ task' = [task EXCEPT ![k] = r]
  BY DEF RunScript
<1>3. \A d \in Caller : CallKept(call'[d], now')
  BY <1>1, NoCallKept DEF ListedInv, OptionsInv
<1>4. /\ IsOptions(call[c].asked) /\ call[c].at \in Nat /\ call[c].at <= now /\ now \in Nat
      /\ opt # Nil /\ opt = ComposeOptions(call[c].asked, call[c].at)
      /\ opt.taskID \in {Nil, call[c].id}
  BY <1>1 DEF OptionsInv, CallKept
<1>5. TaskKept(k, r, now)
  <2>1. IsTask(r)
    <3> DEFINE V == {Message(opt, call[c].at), InitialState(opt, call[c].at), call[c].asked,
                     call[c].at, Nil}
    <3>1. r \in TaskRecord(V)
      BY DEF TaskRecord
    <3> HIDE DEF V, r
    <3> QED BY <3>1 DEF IsTask
  <2>2. FromOptions(k, r)
    <3>1. /\ r.asked = call[c].asked /\ r.at = call[c].at /\ r.msg = Message(opt, call[c].at)
          /\ k[1] = opt.queue /\ k[2] = call[c].id
      OBVIOUS
    <3> HIDE DEF r, k, opt
    <3> QED BY <1>4, <2>1, <3>1 DEF FromOptions
  <2>3. r.state # "active"
    BY DEF InitialState
  <2>4. ASSUME r.state = "pending" PROVE now > AskedAt(r.asked, r.at) - Second
    <3>1. opt.processAt = AskedAt(call[c].asked, call[c].at)
      <4> HIDE DEF opt
      <4> QED BY <1>4, AskedIs
    <3>2. AskedAt(call[c].asked, call[c].at) \in Int /\ Second \in Nat \ {0}
      BY <1>4, AskedTypes, ClientAssumption
    <3>3. ~(opt.processAt > call[c].at)
      BY <2>4 DEF InitialState
    <3>4. AskedAt(r.asked, r.at) = AskedAt(call[c].asked, call[c].at)
      OBVIOUS
    <3> QED BY <1>4, <3>1, <3>2, <3>3, <3>4
  <2> HIDE DEF r, k
  <2> QED BY <2>2, <2>3, <2>4 DEF TaskKept
<1> HIDE DEF r, k, opt
<1>6. \A x \in Key : task'[x] # Nil => TaskKept(x, task'[x], now')
  <2>1. CASE task' = task
    BY <1>1, <2>1 DEF OptionsInv
  <2>2. CASE task' = [task EXCEPT ![k] = r]
    <3>1. \A x \in Key : task'[x] = IF x = k THEN r ELSE task[x]
      BY <2>2 DEF ListedInv
    <3> QED BY <1>1, <1>5, <3>1 DEF OptionsInv
  <2> QED BY <1>2, <2>1, <2>2
<1> QED BY <1>1, <1>3, <1>4, <1>6 DEF OptionsInv

\* A step of a server or an inspector changes one task at most into one that is kept,
\* or takes tasks away.
LEMMA TasksKept ==
    ASSUME OptionsInv, UNCHANGED <<call, now>>,
           \A k \in Key : task'[k] \in {Nil, task[k]} \/ TaskKept(k, task'[k], now)
    PROVE  OptionsInv'
BY DEF OptionsInv

\* Forward makes a task pending when it is due.
LEMMA ServerKept ==
    ASSUME ListedInv, OptionsInv, NEW k \in Key, Finish(k) \/ Forward(k) \/ Expire(k)
    PROVE  OptionsInv'
<1> USE DEF redisVars, clientVars
<1>1. \A x \in Key : task[x] # Nil => /\ TaskKept(x, task[x], now)
                                      /\ FromOptions(x, task[x]) /\ IsTask(task[x])
  BY DEF OptionsInv, TaskKept, FromOptions
<1>2. ASSUME NEW x \in Key, task[x] # Nil, NEW a, a \notin {"pending", "active"}
      PROVE  TaskKept(x, [task[x] EXCEPT !.state = a], now)
  <2>1. PICK r : r = [task[x] EXCEPT !.state = a]
    OBVIOUS
  <2>2. /\ IsTask(r) /\ r.state = a
        /\ r.msg = task[x].msg /\ r.asked = task[x].asked /\ r.at = task[x].at
    BY <1>1, <1>2, <2>1, StateEdit
  <2>3. FromOptions(x, r)
    BY <1>1, <1>2, <2>2 DEF FromOptions
  <2> QED BY <1>2, <2>1, <2>2, <2>3 DEF TaskKept
<1>3. CASE Expire(k)
  <2>1. UNCHANGED <<call, now>> /\ task' = [task EXCEPT ![k] = Nil]
    BY <1>3 DEF Expire
  <2>2. \A x \in Key : task'[x] \in {Nil, task[x]}
    BY <2>1 DEF ListedInv
  <2> QED BY <2>1, <2>2, TasksKept
<1>4. CASE Finish(k)
  <2>1. /\ UNCHANGED <<call, now>> /\ task[k] # Nil
        /\ task' = [task EXCEPT ![k] = IF task[k].msg.retention > 0
                                       THEN [task[k] EXCEPT !.state = "completed"] ELSE Nil]
    BY <1>4 DEF Finish
  <2>2. \A x \in Key : task'[x] \in {Nil, task[x], [task[k] EXCEPT !.state = "completed"]}
                       /\ (x # k => task'[x] = task[x])
    BY <2>1 DEF ListedInv
  <2>3. TaskKept(k, [task[k] EXCEPT !.state = "completed"], now)
    BY <1>2, <2>1
  <2> QED BY <2>1, <2>2, <2>3, TasksKept
<1>5. CASE Forward(k)
  <2>1. PICK a, r : /\ a = (IF task[k].msg.group = Nil THEN "pending" ELSE "aggregating")
                    /\ r = [task[k] EXCEPT !.state = a]
    OBVIOUS
  <2>2. /\ UNCHANGED <<call, now>> /\ task[k] # Nil
        /\ task[k].msg.due <= now \div Second
    BY <1>5 DEF Forward
  <2>3. \A x \in Key : IF x = k THEN task'[x] = r ELSE task'[x] = task[x]
    BY <1>5, <2>1 DEF Forward, ListedInv
  <2>4. TaskKept(k, r, now)
    <3>1. /\ IsTask(r) /\ r.state = a
          /\ r.msg = task[k].msg /\ r.asked = task[k].asked /\ r.at = task[k].at
      <4>1. IsTask(task[k]) /\ r = [task[k] EXCEPT !.state = a]
        BY <1>1, <2>1, <2>2
      <4> QED BY ONLY <4>1, StateEdit
    <3>2. FromOptions(k, r)
      BY <1>1, <2>2, <3>1 DEF FromOptions
    <3>3. PICK p, w : p = AskedAt(r.asked, r.at) /\ w = p \div Second
      OBVIOUS
    <3>4. p \in Int /\ Second \in Nat \ {0} /\ now \in Nat
      BY <3>2, <3>3, AskedTypes, ClientAssumption DEF FromOptions, OptionsInv
    <3>5. r.msg.due = w
      <4>1. PICK opt : opt # Nil /\ opt = ComposeOptions(r.asked, r.at) /\ r.msg = Message(opt, r.at)
        BY <3>2 DEF FromOptions
      <4>2. opt.processAt = p
        BY <3>2, <3>3, <4>1, AskedIs DEF FromOptions
      <4> QED BY <3>3, <4>1, <4>2 DEF Message
    <3>6. now > p - Second
      <4>1. PICK n : n = now \div Second
        OBVIOUS
      <4>2. n \in Int /\ n * Second <= now /\ n * Second \in Int
        BY <3>4, <4>1, WholeSeconds
      <4>3. w \in Int /\ p < w * Second + Second /\ w * Second \in Int
        BY <3>3, <3>4, WholeSeconds
      <4>4. w <= n
        BY <2>2, <3>1, <3>5, <4>1
      <4>5. w * Second <= n * Second
        BY ONLY <3>4, <4>2, <4>3, <4>4
      <4> QED BY ONLY <3>4, <4>2, <4>3, <4>5
    <3>7. a # "active"
      BY <2>1
    <3> QED BY <3>1, <3>2, <3>3, <3>6, <3>7 DEF TaskKept
  <2> QED BY <2>2, <2>3, <2>4, TasksKept
<1> QED BY <1>3, <1>4, <1>5

\* Try starts a task that is pending.
LEMMA TryKept ==
    ASSUME ListedInv, OptionsInv, Try
    PROVE  OptionsInv'
<1> USE DEF redisVars, clientVars
<1>0. \A x \in Key : task[x] # Nil => /\ TaskKept(x, task[x], now)
                                      /\ FromOptions(x, task[x]) /\ IsTask(task[x])
  BY DEF OptionsInv, TaskKept, FromOptions
<1>1. UNCHANGED <<call, now>>
  BY DEF Try
<1>2. CASE UNCHANGED task
  BY <1>1, <1>2, TasksKept
<1>3. ASSUME NEW x \in Held(Head(poll), {"pending"}),
             task' = [task EXCEPT ![x] = [task[x] EXCEPT
               !.state = "active", !.start = now, !.ctx = ComputeDeadline(task[x].msg, now)]]
      PROVE  OptionsInv'
  <2>1. x \in Key /\ task[x] # Nil /\ task[x].state = "pending"
    BY DEF Held, In
  <2>2. PICK d, r : d = ComputeDeadline(task[x].msg, now) /\ r = Started(task[x], "active", now, d)
    OBVIOUS
  <2>3. /\ IsTask(r) /\ r.state = "active" /\ r.start = now /\ r.ctx = d
        /\ r.msg = task[x].msg /\ r.asked = task[x].asked /\ r.at = task[x].at
    BY <1>0, <2>1, <2>2, StartEdit
  <2>4. FromOptions(x, r)
    BY <1>0, <2>1, <2>3 DEF FromOptions
  <2>5. now > AskedAt(r.asked, r.at) - Second /\ now \in Nat
    BY <1>0, <2>1, <2>3 DEF TaskKept, OptionsInv
  <2>6. TaskKept(x, r, now)
    BY <2>2, <2>3, <2>4, <2>5 DEF TaskKept
  <2>7. task' = [task EXCEPT ![x] = r]
    BY <1>3, <2>2 DEF Started
  <2>8. \A y \in Key : task'[y] = IF y = x THEN r ELSE task[y]
    BY <2>1, <2>7 DEF ListedInv
  <2> QED BY <1>1, <2>6, <2>8, TasksKept
<1> QED BY <1>2, <1>3 DEF Try

\* Every step keeps what was asked for.
LEMMA OptionsStep ==
    ASSUME ListedInv, OptionsInv, PlaceInv, [QueuesNext]_queueVars
    PROVE  OptionsInv'
<1> USE DEF redisVars, clientVars
<1>1. CASE \E c \in Caller : \/ Compose(c) \/ Publish(c)
                             \/ \E opts \in CallOpts[c] : AppendOpts(c, opts)
  BY <1>1, CallerKept
<1>2. CASE \E c \in Caller : RunScript(c)
  BY <1>2, ScriptKept
<1>3. CASE \E k \in Key : Finish(k) \/ Forward(k) \/ Expire(k)
  BY <1>3, ServerKept
<1>4. CASE Try
  BY <1>4, TryKept
<1>5. CASE \E r \in RDB : Restart(r)
  <2>1. UNCHANGED <<task, now>> /\ \A c \in Caller : call'[c] \in {NoCall, call[c]}
    BY <1>5 DEF Restart
  <2> QED BY <2>1, NoCallKept DEF OptionsInv
<1>6. CASE RemoveScript
  <2>1. UNCHANGED <<call, now>> /\ \A k \in Key : task'[k] \in {Nil, task[k]}
    BY <1>6 DEF RemoveScript
  <2> QED BY <2>1, TasksKept
<1>7. CASE Tick
  <2>1. UNCHANGED <<call, task>> /\ now' = now + 1
    BY <1>7 DEF Tick
  <2>2. now \in Nat /\ now' \in Nat /\ now <= now'
    BY <2>1 DEF OptionsInv
  <2>3. PICK a, b : a = now /\ b = now'
    OBVIOUS
  <2>4. \A r : CallKept(r, a) => CallKept(r, b)
    BY <2>2, <2>3, KeptLater
  <2>5. \A k, r : TaskKept(k, r, a) => TaskKept(k, r, b)
    BY <2>2, <2>3, KeptLater
  <2> QED BY <2>1, <2>2, <2>3, <2>4, <2>5 DEF OptionsInv
<1>8. CASE \/ \E q \in QueueNames, force \in BOOLEAN : QueueExists(q, force)
           \/ RemoveFromSet
           \/ \E q \in QueueNames : Pause(q) \/ Unpause(q)
           \/ \E o \in orders : StartPoll(o)
           \/ UNCHANGED queueVars
  <2>1. UNCHANGED <<call, task, now>>
    BY <1>8 DEF QueueExists, RemoveFromSet, Pause, Unpause, StartPoll, queueVars
  <2> QED BY <2>1 DEF OptionsInv
<1> QED BY <1>1, <1>2, <1>3, <1>4, <1>5, <1>6, <1>7, <1>8 DEF QueuesNext

\* What the invariant says of a task is what OptionsHonoured asks of it.
LEMMA TaskHonoured ==
    ASSUME NEW k, NEW r, NEW time, TaskKept(k, r, time)
    PROVE  /\ k[1] = r.msg.queue /\ r.msg.queue = Asked(r.asked, {"queue"}, DefaultQueue)
           /\ r.msg.group = Asked(r.asked, {"group"}, Nil)
           /\ r.msg.retention = Asked(r.asked, {"retention"}, 0) \div Second
           /\ r.msg.unique <=> Asked(r.asked, {"unique"}, 0) # 0
           /\ r.msg.due = AskedAt(r.asked, r.at) \div Second
           /\ Asked(r.asked, {"taskID"}, k[2]) = k[2]
<1>1. IsOptions(r.asked)
  BY DEF TaskKept, FromOptions
<1>2. PICK opt : /\ opt # Nil /\ opt = ComposeOptions(r.asked, r.at)
                 /\ r.msg = Message(opt, r.at)
                 /\ k[1] = opt.queue /\ opt.taskID \in {Nil, k[2]}
  BY DEF TaskKept, FromOptions
<1>3. /\ opt.queue = Asked(r.asked, {"queue"}, DefaultQueue)
      /\ opt.taskID = Asked(r.asked, {"taskID"}, Nil)
      /\ opt.unique = Asked(r.asked, {"unique"}, 0)
      /\ opt.processAt = AskedAt(r.asked, r.at)
      /\ opt.retention = Asked(r.asked, {"retention"}, 0)
      /\ opt.group = Asked(r.asked, {"group"}, Nil)
  BY <1>1, <1>2, AskedIs
<1>4. /\ r.msg.queue = opt.queue /\ r.msg.group = opt.group
      /\ r.msg.retention = opt.retention \div Second
      /\ r.msg.due = opt.processAt \div Second
      /\ r.msg.unique = (opt.unique > 0)
  BY <1>2 DEF Message
<1>5. opt.unique = 0 \/ (opt.unique \in Int /\ opt.unique > 0)
  <2>1. ~(\E i \in DOMAIN r.asked : Invalid(r.asked[i]))
    BY <1>2 DEF ComposeOptions
  <2>2. \/ Asked(r.asked, {"unique"}, 0) = 0
        \/ \E i \in DOMAIN r.asked : /\ IsOption(r.asked[i]) /\ r.asked[i].kind = "unique"
                                     /\ Asked(r.asked, {"unique"}, 0) = r.asked[i].value
    BY <1>1, AskedFrom
  <2>3. ASSUME NEW i \in DOMAIN r.asked, IsOption(r.asked[i]), r.asked[i].kind = "unique"
        PROVE  r.asked[i].value \in Int /\ r.asked[i].value > 0
    <3>1. r.asked[i].value \in Int
      BY <2>3 DEF IsOption
    <3>2. ~(r.asked[i].value < Second)
      BY <2>1, <2>3 DEF Invalid
    <3> QED BY <3>1, <3>2, ClientAssumption
  <2> QED BY <1>3, <2>2, <2>3
<1>6. r.msg.unique <=> Asked(r.asked, {"unique"}, 0) # 0
  <2>1. PICK u, y : u = r.msg.unique /\ y = Asked(r.asked, {"unique"}, 0)
    OBVIOUS
  <2>2. opt.unique = y /\ u = (opt.unique > 0)
    BY <1>3, <1>4, <2>1
  <2>3. (opt.unique > 0) = (y # 0)
    BY <1>5, <2>2
  <2>4. u = (y # 0)
    BY <2>2, <2>3, Zenon
  <2>5. r.msg.unique = (Asked(r.asked, {"unique"}, 0) # 0)
    BY <2>1, <2>4, Zenon
  <2> QED BY <2>5, Zenon
<1>7. Asked(r.asked, {"taskID"}, k[2]) = k[2]
  BY <1>1, <1>2, <1>3, AskedTypes
<1> QED BY <1>2, <1>3, <1>4, <1>6, <1>7

\* The context of a task that is active ends where its options say.
LEMMA ContextHonoured ==
    ASSUME NEW k, NEW r, NEW time, TaskKept(k, r, time), r.state = "active",
           NEW T, NEW D, NEW L,
           T = Asked(r.asked, {"timeout"}, 0), D = Asked(r.asked, {"deadline"}, Nil),
           T \notin 1 .. Second - 1, L = LimitsOf(T, D, r.start)
    PROVE  IF L = {} THEN r.ctx = r.start + DefaultTimeout
           ELSE r.ctx <= Min(L) /\ r.ctx > Min(L) - 2 * Second
<1>1. IsOptions(r.asked) /\ r.start \in Nat /\ r.ctx = ComputeDeadline(r.msg, r.start)
  BY DEF TaskKept, FromOptions
<1>2. PICK opt : opt # Nil /\ opt = ComposeOptions(r.asked, r.at) /\ r.msg = Message(opt, r.at)
  BY DEF TaskKept, FromOptions
<1>3. opt.timeout = T /\ opt.deadline = D
  BY <1>1, <1>2, AskedIs
<1>4. T \in Nat /\ (D = Nil \/ (D \in Nat /\ D >= Second))
  BY <1>1, AskedTypes
<1>5. PICK at, start, ctx : at = r.at /\ start = r.start /\ ctx = r.ctx
  OBVIOUS
<1>6. start \in Nat /\ ctx = ComputeDeadline(Message(opt, at), start) /\ L = LimitsOf(T, D, start)
  BY <1>1, <1>2, <1>5
<1>7. IF L = {} THEN ctx = start + DefaultTimeout
      ELSE ctx <= Min(L) /\ ctx > Min(L) - 2 * Second
  BY ONLY <1>3, <1>4, <1>6, T \notin 1 .. Second - 1, ContextEnds
<1> QED BY <1>5, <1>7

\* A task has, and runs within, what its own caller asked for (client.go, the options
\* of EnqueueContext; processor.go, computeDeadline): a later option overrides an
\* earlier one, and the times that are cut to seconds in three places add up.  It
\* takes that of the callers of one *Task one at most has options that fit behind the
\* task's own: two that do overwrite each other's (QueuesSharedOpts.cfg).
THEOREM OptionsTheorem ==
    ASSUME OwnOptions
    PROVE  QueuesSpec => []OptionsHonoured
<1>1. QueuesInit => ListedInv /\ OptionsInv /\ PlaceInv
  <2> SUFFICES ASSUME QueuesInit PROVE ListedInv /\ OptionsInv /\ PlaceInv
    OBVIOUS
  <2>1. ListedInv
    BY NoCallFact DEF QueuesInit, ListedInv
  <2>2. OptionsInv
    BY NoCallKept, QueuesAssumption DEF QueuesInit, OptionsInv
  <2>3. PlaceInv
    <3>1. backing \in Seq({})
      BY DEF QueuesInit
    <3>2. \A c \in Caller : call[c].shared = FALSE
      BY DEF QueuesInit, NoCall
    <3> QED BY <3>1, <3>2 DEF PlaceInv
  <2> QED BY <2>1, <2>2, <2>3
<1>2. /\ ListedInv /\ OptionsInv /\ PlaceInv /\ [QueuesNext]_queueVars
      => (ListedInv /\ OptionsInv /\ PlaceInv)'
  BY StepInv, OptionsStep, PlaceStep
<1>3. OptionsInv => OptionsHonoured
  <2> SUFFICES ASSUME OptionsInv PROVE OptionsHonoured
    OBVIOUS
  <2>1. FieldsHonoured
    BY TaskHonoured DEF OptionsInv, FieldsHonoured
  <2>2. DeadlineHonoured
    <3> SUFFICES ASSUME NEW k \in Key, Active(k),
                        Asked(task[k].asked, {"timeout"}, 0) \notin 1 .. Second - 1
                 PROVE  IF Limits(k) = {}
                        THEN Asked(task[k].asked, {"timeout"}, Nil) = Nil
                               => task[k].ctx = task[k].start + DefaultTimeout
                        ELSE /\ task[k].ctx <= Min(Limits(k))
                             /\ task[k].ctx > Min(Limits(k)) - 2 * Second
      BY DEF DeadlineHonoured
    <3>1. PICK r, T, D, L : /\ r = task[k] /\ T = Asked(r.asked, {"timeout"}, 0)
                            /\ D = Asked(r.asked, {"deadline"}, Nil) /\ L = LimitsOf(T, D, r.start)
      OBVIOUS
    <3>2. L = Limits(k)
      BY <3>1 DEF Limits, LimitsOf
    <3>3. TaskKept(k, r, now) /\ r.state = "active" /\ T \notin 1 .. Second - 1
      BY <3>1 DEF OptionsInv, Active
    <3>4. IF L = {} THEN r.ctx = r.start + DefaultTimeout
          ELSE r.ctx <= Min(L) /\ r.ctx > Min(L) - 2 * Second
      BY <3>1, <3>3, ContextHonoured
    <3> QED BY <3>1, <3>2, <3>4
  <2>3. NotEarly
    BY DEF OptionsInv, TaskKept, NotEarly, Active
  <2> QED BY <2>1, <2>2, <2>3 DEF OptionsHonoured
<1> QED BY <1>1, <1>2, <1>3, PTL DEF QueuesSpec

-----------------------------------------------------------------------------
(* What a fold computes, for any order in which it takes the elements.      *)

\* ch takes an element out of every set of elements of S.
Chooses(ch, S) == \A s \in SUBSET S : s # {} => ch[s] \in s

\* What is left when it has.
Rest(ch, s) == s \ {ch[s]}

\* It leaves a set that is smaller by one.
LEMMA RestSmaller ==
    ASSUME NEW S, IsFiniteSet(S), NEW ch, Chooses(ch, S), NEW s, s \in SUBSET S, s # {}
    PROVE  /\ Rest(ch, s) \in SUBSET S /\ ch[s] \in S /\ ch[s] \in s
           /\ Cardinality(s) \in Nat \ {0} /\ Cardinality(Rest(ch, s)) \in Nat
           /\ Cardinality(Rest(ch, s)) = Cardinality(s) - 1
<1>1. ch[s] \in s
  BY DEF Chooses
<1>2. IsFiniteSet(s) /\ Cardinality(s) \in Nat /\ Cardinality(s) # 0
  BY FS_Subset, FS_CardinalityType, FS_EmptySet
<1>3. PICK x : x = ch[s]
  OBVIOUS
<1>4. Cardinality(s \ {x}) = Cardinality(s) - 1
  BY <1>1, <1>2, <1>3, FS_RemoveElement
<1> QED BY <1>1, <1>2, <1>3, <1>4 DEF Rest

\* Induction along the choices.
LEMMA ChoiceInduction ==
    ASSUME NEW S, IsFiniteSet(S), NEW ch, Chooses(ch, S), NEW Q, {} \in Q,
           \A s \in SUBSET S : s # {} /\ Rest(ch, s) \in Q => s \in Q
    PROVE  S \in Q
<1>1. ASSUME S \notin Q PROVE FALSE
  <2> DEFINE T == {Cardinality(s) : s \in (SUBSET S) \ Q}
  <2>1. \A s \in SUBSET S : Cardinality(s) \in Nat
    BY FS_Subset, FS_CardinalityType
  <2>2. T \in SUBSET Nat /\ T # {}
    <3>1. Cardinality(S) \in T
      BY <1>1
    <3> QED BY <2>1, <3>1
  <2>3. PICK d \in T : \A e \in T : d <= e
    <3> HIDE DEF T
    <3> QED BY <2>2, LeastNumber
  <2>4. PICK s \in (SUBSET S) \ Q : d = Cardinality(s)
    BY <2>3
  <2>5. s # {}
    OBVIOUS
  <2>6. PICK r : r = Rest(ch, s)
    OBVIOUS
  <2>7. r \in SUBSET S /\ Cardinality(r) = Cardinality(s) - 1 /\ Cardinality(s) \in Nat
    BY <2>4, <2>5, <2>6, RestSmaller
  <2>8. r \in Q
    <3>1. ASSUME r \notin Q PROVE FALSE
      <4>1. Cardinality(r) \in T
        BY <2>7, <3>1
      <4> HIDE DEF T
      <4>2. d <= Cardinality(r)
        BY <2>3, <4>1
      <4> QED BY <2>4, <2>7, <4>2
    <3> QED BY <3>1
  <2> QED BY <2>4, <2>5, <2>6, <2>8
<1> QED BY <1>1

\* h folds F over the sets of elements of S, in the order of the choices.
FoldOf(h, S, ch, base, F) ==
    \A s \in SUBSET S : h[s] = IF s = {} THEN base ELSE F[<<h[Rest(ch, s)], ch[s]>>]

\* There is a fold.
LEMMA FoldExists ==
    ASSUME NEW S, IsFiniteSet(S), NEW ch, Chooses(ch, S), NEW V, NEW base \in V,
           NEW F \in [V \X S -> V]
    PROVE  \E h \in [SUBSET S -> V] : FoldOf(h, S, ch, base, F)
<1> DEFINE Upto(n, h) == \A s \in SUBSET S : Cardinality(s) <= n =>
                           h[s] = IF s = {} THEN base ELSE F[<<h[Rest(ch, s)], ch[s]>>]
           T == {n \in Nat : ~(\E h \in [SUBSET S -> V] : Upto(n, h))}
<1>0. \A s \in SUBSET S : s # {} => /\ Rest(ch, s) \in SUBSET S /\ ch[s] \in S
                                    /\ Cardinality(s) \in Nat \ {0}
                                    /\ Cardinality(Rest(ch, s)) = Cardinality(s) - 1
  BY RestSmaller
<1>1. ASSUME T # {} PROVE FALSE
  <2>1. PICK d \in T : \A e \in T : d <= e
    <3>1. T \in SUBSET Nat
      OBVIOUS
    <3> HIDE DEF T
    <3> QED BY <1>1, <3>1, LeastNumber
  <2>2. d \in Nat /\ ~(\E h \in [SUBSET S -> V] : Upto(d, h))
    BY <2>1
  <2>3. CASE d = 0
    <3> DEFINE h == [s \in SUBSET S |-> base]
    <3>1. h \in [SUBSET S -> V]
      OBVIOUS
    <3>2. ASSUME NEW s \in SUBSET S, Cardinality(s) <= 0 PROVE s = {}
      BY <1>0, <3>2
    <3>3. Upto(d, h)
      BY <2>3, <3>2
    <3> HIDE DEF h, Upto
    <3> QED BY <2>2, <3>1, <3>3
  <2>4. CASE d # 0
    <3>1. d - 1 \in Nat /\ d - 1 \notin T
      <4>1. d - 1 \in Nat /\ ~(d <= d - 1)
        BY <2>2, <2>4
      <4> HIDE DEF T
      <4> QED BY <2>1, <4>1
    <3>2. PICK f \in [SUBSET S -> V] : Upto(d - 1, f)
      BY <3>1
    <3> DEFINE g == [s \in SUBSET S |-> IF s = {} THEN base ELSE F[<<f[Rest(ch, s)], ch[s]>>]]
    <3>3. g \in [SUBSET S -> V]
      BY <1>0
    <3>4. ASSUME NEW s \in SUBSET S, Cardinality(s) <= d - 1 PROVE g[s] = f[s]
      BY <3>2, <3>4
    <3>5. ASSUME NEW s \in SUBSET S, Cardinality(s) <= d
          PROVE  g[s] = IF s = {} THEN base ELSE F[<<g[Rest(ch, s)], ch[s]>>]
      <4>1. CASE s # {}
        <5>1. Rest(ch, s) \in SUBSET S /\ Cardinality(Rest(ch, s)) <= d - 1
          BY <1>0, <2>2, <3>5, <4>1
        <5>2. g[Rest(ch, s)] = f[Rest(ch, s)]
          <6> HIDE DEF g
          <6> QED BY <3>4, <5>1
        <5>3. g[s] = F[<<f[Rest(ch, s)], ch[s]>>]
          BY <4>1
        <5> QED BY <4>1, <5>2, <5>3
      <4> QED BY <4>1
    <3>6. Upto(d, g)
      <4> HIDE DEF g
      <4> QED BY <3>5
    <3> HIDE DEF g, Upto
    <3> QED BY <2>2, <3>3, <3>6
  <2> QED BY <2>3, <2>4
<1>2. PICK n : n = Cardinality(S)
  OBVIOUS
<1>3. n \in Nat /\ \A s \in SUBSET S : Cardinality(s) <= n
  BY <1>2, FS_Subset, FS_CardinalityType
<1>4. PICK h \in [SUBSET S -> V] : Upto(n, h)
  BY <1>1, <1>3
<1>5. FoldOf(h, S, ch, base, F)
  BY <1>3, <1>4 DEF FoldOf
<1> QED BY <1>4, <1>5

\* Patterns are sequences.
AllSequences(P) == \A p \in P : Len(p) \in Nat

\* The entries of a mux, from the longest pattern to the shortest.
LongestFirst(es) == \A i, j \in DOMAIN es : i <= j => Len(es[i]) >= Len(es[j])

\* r is es with e put in at k.
PutAt(r, es, k, e) ==
    /\ k \in 1 .. Len(es) + 1 /\ Len(r) = Len(es) + 1
    /\ \A i \in 1 .. Len(es) + 1 :
         r[i] = IF i < k THEN es[i] ELSE IF i = k THEN e ELSE es[i - 1]

\* What InsertAt and Append do.
LEMMA InsertPuts ==
    ASSUME NEW P, NEW es \in Seq(P), NEW e \in P, NEW k \in 1 .. Len(es) + 1, NEW r,
           r = InsertAt(es, k, e) \/ (k = Len(es) + 1 /\ r = Append(es, e))
    PROVE  r \in Seq(P) /\ PutAt(r, es, k, e)
<1>0. PICK n : n = Len(es)
  OBVIOUS
<1>1. n \in Nat /\ DOMAIN es = 1 .. n /\ (\A i \in 1 .. n : es[i] \in P) /\ k \in 1 .. n + 1
  BY <1>0, LenProperties, ElementOfSeq
<1>2. CASE k = Len(es) + 1 /\ r = Append(es, e)
  <2>1. /\ r \in Seq(P) /\ Len(r) = n + 1
        /\ \A i \in 1 .. n + 1 : r[i] = IF i <= n THEN es[i] ELSE e
    BY <1>0, <1>1, <1>2
  <2> QED BY <1>0, <1>1, <1>2, <2>1 DEF PutAt
<1>3. CASE r = InsertAt(es, k, e)
  <2>1. PICK a, m, b : a = SubSeq(es, 1, k - 1) /\ m = <<e>> /\ b = SubSeq(es, k, n)
    OBVIOUS
  <2>2. /\ a \in Seq(P) /\ Len(a) = k - 1
        /\ \A i \in 1 .. k - 1 : a[i] = es[i]
    <3>1. PICK u, v : u = 1 /\ v = k - 1
      OBVIOUS
    <3>2. u \in Int /\ v \in Int /\ \A i \in u .. v : es[i] \in P
      BY <1>1, <3>1
    <3>3. /\ SubSeq(es, u, v) \in Seq(P)
          /\ Len(SubSeq(es, u, v)) = IF u <= v THEN v - u + 1 ELSE 0
          /\ \A i \in 1 .. v - u + 1 : SubSeq(es, u, v)[i] = es[u + i - 1]
      BY <3>2, SubSeqProperties
    <3> QED BY <1>1, <2>1, <3>1, <3>3
  <2>3. /\ b \in Seq(P) /\ Len(b) = n - k + 1
        /\ \A i \in 1 .. n - k + 1 : b[i] = es[k + i - 1]
    <3>2. k \in Int /\ n \in Int /\ \A i \in k .. n : es[i] \in P
      BY <1>1
    <3>3. /\ SubSeq(es, k, n) \in Seq(P)
          /\ Len(SubSeq(es, k, n)) = IF k <= n THEN n - k + 1 ELSE 0
          /\ \A i \in 1 .. n - k + 1 : SubSeq(es, k, n)[i] = es[k + i - 1]
      BY <3>2, SubSeqProperties
    <3> QED BY <1>1, <2>1, <3>3
  <2>4. m \in Seq(P) /\ Len(m) = 1 /\ m[1] = e
    BY <2>1
  <2>5. PICK c : c = a \o m
    OBVIOUS
  <2>6. /\ c \in Seq(P) /\ Len(c) = k
        /\ \A i \in 1 .. k : c[i] = IF i <= k - 1 THEN a[i] ELSE m[i - (k - 1)]
    <3>1. /\ c \in Seq(P) /\ Len(c) = Len(a) + Len(m)
          /\ \A i \in 1 .. Len(a) + Len(m) : c[i] = IF i <= Len(a) THEN a[i] ELSE m[i - Len(a)]
      BY ONLY <2>2, <2>4, <2>5, ConcatProperties
    <3>2. Len(a) = k - 1 /\ Len(a) + Len(m) = k
      BY <1>1, <2>2, <2>4
    <3> QED BY ONLY <3>1, <3>2
  <2>7. r = c \o b
    BY <1>0, <1>3, <2>1, <2>5 DEF InsertAt
  <2>8. /\ r \in Seq(P) /\ Len(r) = k + (n - k + 1)
        /\ \A i \in 1 .. k + (n - k + 1) : r[i] = IF i <= k THEN c[i] ELSE b[i - k]
    <3>1. /\ r \in Seq(P) /\ Len(r) = Len(c) + Len(b)
          /\ \A i \in 1 .. Len(c) + Len(b) : r[i] = IF i <= Len(c) THEN c[i] ELSE b[i - Len(c)]
      BY ONLY <2>3, <2>6, <2>7, ConcatProperties
    <3>2. Len(c) = k /\ Len(b) = n - k + 1
      BY <2>3, <2>6
    <3> QED BY ONLY <3>1, <3>2
  <2>9. ASSUME NEW i \in 1 .. n + 1
        PROVE  r[i] = IF i < k THEN es[i] ELSE IF i = k THEN e ELSE es[i - 1]
    <3>0. i \in 1 .. k + (n - k + 1)
      BY <1>1
    <3>1. CASE i < k
      BY <1>1, <2>2, <2>6, <2>8, <3>0, <3>1
    <3>2. CASE i = k
      <4>1. r[i] = m[k - (k - 1)] /\ k - (k - 1) = 1
        BY <1>1, <2>6, <2>8, <3>0, <3>2
      <4> QED BY <2>4, <3>2, <4>1
    <3>3. CASE i > k
      <4>1. r[i] = b[i - k] /\ i - k \in 1 .. n - k + 1 /\ k + (i - k) - 1 = i - 1
        BY <1>1, <2>8, <3>0, <3>3
      <4> QED BY <1>1, <2>3, <3>3, <4>1
    <3> QED BY <1>1, <3>1, <3>2, <3>3
  <2>10. k + (n - k + 1) = n + 1
    BY <1>1
  <2> QED BY <1>0, <1>1, <2>8, <2>9, <2>10 DEF PutAt
<1> QED BY <1>2, <1>3

\* appendSorted keeps the longest first, and all of them.
LEMMA AppendedEntries ==
    ASSUME NEW P, AllSequences(P), NEW es \in Seq(P), LongestFirst(es), NEW e \in P,
           NEW r, r = AppendSorted(es, e)
    PROVE  r \in Seq(P) /\ LongestFirst(r) /\ ToSet(r) = ToSet(es) \cup {e}
<1>0. PICK n, shorter : n = Len(es) /\ shorter = {i \in DOMAIN es : Len(es[i]) < Len(e)}
  OBVIOUS
<1>1. /\ n \in Nat /\ DOMAIN es = 1 .. n
      /\ \A i \in 1 .. n : es[i] \in P /\ Len(es[i]) \in Nat
      /\ Len(e) \in Nat
  BY <1>0, LenProperties, ElementOfSeq DEF AllSequences
<1>2. \E k \in 1 .. n + 1 : /\ r \in Seq(P) /\ PutAt(r, es, k, e)
                            /\ \A i \in 1 .. n : i < k => Len(es[i]) >= Len(e)
                            /\ \A i \in 1 .. n : i >= k => Len(es[i]) < Len(e)
  <2>1. CASE shorter = {}
    <3>1. r = Append(es, e)
      BY <1>0, <2>1 DEF AppendSorted
    <3>2. PICK k : k = n + 1
      OBVIOUS
    <3>3. r \in Seq(P) /\ PutAt(r, es, k, e) /\ k \in 1 .. n + 1
      <4>1. k \in 1 .. Len(es) + 1 /\ k = Len(es) + 1
        BY <1>0, <1>1, <3>2
      <4>2. r \in Seq(P) /\ PutAt(r, es, k, e)
        BY <3>1, <4>1, InsertPuts
      <4> QED BY <1>0, <4>1, <4>2
    <3>4. /\ \A i \in 1 .. n : i < k => Len(es[i]) >= Len(e)
          /\ \A i \in 1 .. n : i >= k => Len(es[i]) < Len(e)
      BY <1>0, <1>1, <2>1, <3>2
    <3> QED BY <3>3, <3>4
  <2>2. CASE shorter # {}
    <3>1. PICK k : k = Min(shorter)
      OBVIOUS
    <3>2. k \in shorter /\ \A i \in shorter : k <= i
      <4>1. shorter \in SUBSET Nat
        BY <1>0, <1>1
      <4>2. \E d \in shorter : \A i \in shorter : d <= i
        BY <2>2, <4>1, LeastNumber
      <4> QED BY <3>1, <4>2 DEF Min
    <3>3. r = InsertAt(es, k, e)
      BY <1>0, <2>2, <3>1 DEF AppendSorted
    <3>4. k \in 1 .. n /\ k \in 1 .. n + 1 /\ Len(es[k]) < Len(e)
      BY <1>0, <1>1, <3>2
    <3>5. r \in Seq(P) /\ PutAt(r, es, k, e)
      BY <1>0, <1>1, <3>3, <3>4, InsertPuts
    <3>6. \A i \in 1 .. n : i < k => Len(es[i]) >= Len(e)
      BY <1>0, <1>1, <3>2, <3>4
    <3>7. ASSUME NEW i \in 1 .. n, i >= k PROVE Len(es[i]) < Len(e)
      <4>1. i \in DOMAIN es /\ k \in DOMAIN es /\ k <= i
        BY <1>1, <3>4, <3>7
      <4>2. Len(es[k]) >= Len(es[i])
        BY <4>1 DEF LongestFirst
      <4>3. Len(es[k]) \in Nat /\ Len(es[i]) \in Nat /\ Len(e) \in Nat
        BY <1>1, <3>4
      <4> QED BY <3>4, <4>2, <4>3
    <3> QED BY <3>4, <3>5, <3>6, <3>7
  <2> QED BY <2>1, <2>2
<1>3. PICK k \in 1 .. n + 1 : /\ r \in Seq(P) /\ PutAt(r, es, k, e)
                              /\ \A i \in 1 .. n : i < k => Len(es[i]) >= Len(e)
                              /\ \A i \in 1 .. n : i >= k => Len(es[i]) < Len(e)
  BY <1>2
<1>4. /\ Len(r) = n + 1 /\ DOMAIN r = 1 .. n + 1
      /\ \A i \in 1 .. n + 1 : r[i] = IF i < k THEN es[i] ELSE IF i = k THEN e ELSE es[i - 1]
  BY <1>0, <1>3, LenProperties DEF PutAt
<1>5. LongestFirst(r)
  <2> SUFFICES ASSUME NEW i \in 1 .. n + 1, NEW j \in 1 .. n + 1, i <= j
               PROVE  Len(r[i]) >= Len(r[j])
    BY <1>4 DEF LongestFirst
  <2>1. \A a, b \in 1 .. n : a <= b => Len(es[a]) >= Len(es[b])
    BY <1>1 DEF LongestFirst
  <2>2. CASE j < k
    BY <1>1, <1>4, <2>1, <2>2
  <2>3. CASE j = k
    <3>1. i = k \/ (i < k /\ i \in 1 .. n)
      BY <1>1, <2>3
    <3> QED BY <1>1, <1>3, <1>4, <2>3, <3>1
  <2>4. CASE j > k
    <3>1. r[j] = es[j - 1] /\ j - 1 \in 1 .. n /\ j - 1 >= k
      BY <1>1, <1>4, <2>4
    <3>2. CASE i < k
      <4>1. i \in 1 .. n /\ i <= j - 1 /\ r[i] = es[i]
        BY <1>1, <1>4, <2>4, <3>2
      <4> QED BY <2>1, <3>1, <4>1
    <3>3. CASE i = k
      <4>1. r[i] = e /\ Len(es[j - 1]) < Len(e) /\ Len(es[j - 1]) \in Nat
        BY <1>1, <1>3, <1>4, <3>1, <3>3
      <4> QED BY <1>1, <3>1, <4>1
    <3>4. CASE i > k
      <4>1. r[i] = es[i - 1] /\ i - 1 \in 1 .. n /\ i - 1 <= j - 1
        BY <1>1, <1>4, <3>4
      <4> QED BY <2>1, <3>1, <4>1
    <3> QED BY <1>1, <3>2, <3>3, <3>4
  <2> QED BY <1>1, <2>2, <2>3, <2>4
<1>6. ToSet(r) = ToSet(es) \cup {e}
  <2>1. ASSUME NEW i \in 1 .. n + 1 PROVE r[i] \in ToSet(es) \cup {e}
    BY <1>1, <1>4 DEF ToSet
  <2>2. e \in ToSet(r)
    BY <1>4 DEF ToSet
  <2>3. ASSUME NEW i \in 1 .. n PROVE es[i] \in ToSet(r)
    <3>1. CASE i < k
      <4>1. i \in 1 .. n + 1 /\ r[i] = es[i]
        BY <1>1, <1>4, <3>1
      <4> QED BY <1>4, <4>1 DEF ToSet
    <3>2. CASE i >= k
      <4>1. i + 1 \in 1 .. n + 1 /\ r[i + 1] = es[(i + 1) - 1] /\ (i + 1) - 1 = i
        BY <1>1, <1>4, <3>2
      <4> QED BY <1>4, <4>1 DEF ToSet
    <3> QED BY <1>1, <3>1, <3>2
  <2>4. ToSet(r) = {r[i] : i \in 1 .. n + 1} /\ ToSet(es) = {es[i] : i \in 1 .. n}
    BY <1>1, <1>4 DEF ToSet
  <2>5. ToSet(r) \subseteq ToSet(es) \cup {e}
    BY <2>1, <2>4
  <2>6. ToSet(es) \subseteq ToSet(r)
    BY <2>3, <2>4
  <2> QED BY <2>2, <2>5, <2>6
<1> QED BY <1>3, <1>5, <1>6

\* So does Handle, for each pattern in turn.
LEMMA HandledEntries ==
    ASSUME NEW P, AllSequences(P), NEW o \in Seq(P), NEW es, es = Handle(o)
    PROVE  es \in Seq(P) /\ LongestFirst(es) /\ ToSet(es) = ToSet(o)
<1>1. PICK n, N : n = Len(o) /\ N = DOMAIN o
  OBVIOUS
<1>2. n \in Nat /\ N = 1 .. n /\ IsFiniteSet(N) /\ \A i \in N : o[i] \in P
  BY <1>1, LenProperties, ElementOfSeq, FS_Interval
<1> DEFINE V == {q \in Seq(P) : LongestFirst(q)}
           ch == [s \in SUBSET N |-> Max(s)]
           F == [x \in V \X N |-> AppendSorted(x[1], o[x[2]])]
           Def(h) == [s \in SUBSET N |-> IF s = {} THEN << >>
                                         ELSE AppendSorted(h[s \ {Max(s)}], o[Max(s)])]
           iter == CHOOSE h : h = Def(h)
<1>3. Chooses(ch, N)
  <2> SUFFICES ASSUME NEW s \in SUBSET N, s # {} PROVE Max(s) \in s
    BY DEF Chooses
  <2>1. Indices(s, n)
    BY <1>2 DEF Indices
  <2> QED BY <2>1, LastIndex
<1>4. << >> \in V
  <2>1. LongestFirst(<< >>)
    BY DEF LongestFirst
  <2> QED BY <2>1, EmptySeq
<1>5. ASSUME NEW q \in V, NEW i \in N
      PROVE  AppendSorted(q, o[i]) \in V /\ ToSet(AppendSorted(q, o[i])) = ToSet(q) \cup {o[i]}
  <2>1. PICK e, r : e = o[i] /\ r = AppendSorted(q, e)
    OBVIOUS
  <2>2. q \in Seq(P) /\ LongestFirst(q) /\ e \in P
    BY <1>2, <2>1
  <2>3. r \in Seq(P) /\ LongestFirst(r) /\ ToSet(r) = ToSet(q) \cup {e}
    <3>1. AllSequences(P) /\ q \in Seq(P) /\ LongestFirst(q) /\ e \in P /\ r = AppendSorted(q, e)
      BY <2>1, <2>2
    <3> QED BY ONLY <3>1, AppendedEntries
  <2> QED BY <2>1, <2>3
<1>6. F \in [V \X N -> V]
  <2> HIDE DEF V
  <2> QED BY <1>5
<1>7. PICK h \in [SUBSET N -> V] : FoldOf(h, N, ch, << >>, F)
  <2> HIDE DEF V, F, ch
  <2> QED BY <1>2, <1>3, <1>4, <1>6, FoldExists
<1>8. \A s \in SUBSET N : s # {} => /\ ch[s] = Max(s) /\ Rest(ch, s) = s \ {Max(s)}
                                    /\ Max(s) \in N /\ s \ {Max(s)} \in SUBSET N
  BY <1>3 DEF Rest, Chooses
<1>9. ASSUME NEW s \in SUBSET N
      PROVE  h[s] = IF s = {} THEN << >> ELSE AppendSorted(h[s \ {Max(s)}], o[Max(s)])
  <2>1. CASE s = {}
    BY <1>7, <2>1 DEF FoldOf
  <2>2. CASE s # {}
    <3>1. PICK x, t : x = Max(s) /\ t = s \ {x}
      OBVIOUS
    <3>2. x \in N /\ t \in SUBSET N /\ ch[s] = x /\ Rest(ch, s) = t
      BY <1>8, <2>2, <3>1
    <3>3. h[s] = F[<<h[t], x>>]
      <4> HIDE DEF F, ch, V
      <4> QED BY <1>7, <2>2, <3>2 DEF FoldOf
    <3>4. h[t] \in V
      <4> HIDE DEF V
      <4> QED BY <1>7, <3>2
    <3>5. F[<<h[t], x>>] = AppendSorted(h[t], o[x])
      <4> HIDE DEF V
      <4> QED BY <3>2, <3>4
    <3> QED BY <2>2, <3>1, <3>3, <3>5
  <2> QED BY <2>1, <2>2
<1>10. h = Def(h)
  <2>1. h = [s \in SUBSET N |-> h[s]]
    <3> HIDE DEF V
    <3> QED BY <1>7
  <2> QED BY <1>9, <2>1
<1>11. iter = Def(iter)
  <2> HIDE DEF Def
  <2> QED BY <1>10
<1>12. es = iter[N]
  BY <1>1 DEF Handle, FoldLeft, MapThenFoldSet
<1> HIDE DEF iter
<1>13. \A s \in SUBSET N : iter[s] = IF s = {} THEN << >>
                                     ELSE AppendSorted(iter[s \ {Max(s)}], o[Max(s)])
  BY <1>11
<1> DEFINE Q == {s \in SUBSET N : iter[s] \in V /\ ToSet(iter[s]) = {o[i] : i \in s}}
<1>14. {} \in Q
  <2>1. iter[{}] = << >>
    BY <1>13
  <2>2. ToSet(<< >>) = {}
    BY DEF ToSet
  <2> HIDE DEF V
  <2> QED BY <1>4, <2>1, <2>2
<1>15. ASSUME NEW s \in SUBSET N, s # {}, Rest(ch, s) \in Q PROVE s \in Q
  <2>1. PICK x, t : x = Max(s) /\ t = s \ {x}
    OBVIOUS
  <2>2. x \in N /\ x \in s /\ t \in SUBSET N /\ Rest(ch, s) = t
    BY <1>3, <1>8, <1>15, <2>1 DEF Chooses
  <2>3. iter[s] = AppendSorted(iter[t], o[x])
    BY <1>13, <1>15, <2>1
  <2> HIDE DEF V, ch
  <2>4. iter[t] \in V /\ ToSet(iter[t]) = {o[i] : i \in t}
    BY <1>15, <2>2
  <2>5. iter[s] \in V /\ ToSet(iter[s]) = ToSet(iter[t]) \cup {o[x]}
    BY <1>5, <2>2, <2>3, <2>4
  <2>6. {o[i] : i \in s} = {o[i] : i \in t} \cup {o[x]}
    BY <2>1, <2>2
  <2> QED BY <2>4, <2>5, <2>6
<1>16. N \in Q
  <2> HIDE DEF Q, ch
  <2> QED BY <1>2, <1>3, <1>14, <1>15, ChoiceInduction
<1>17. ToSet(o) = {o[i] : i \in N}
  BY <1>1 DEF ToSet
<1> QED BY <1>12, <1>16, <1>17

\* Each order of the patterns has all of them.
LEMMA OrderHasAll ==
    ASSUME NEW R, IsFiniteSet(R), NEW o, o \in SetToSeqs(R)
    PROVE  o \in Seq(R) /\ ToSet(o) = R
<1>1. PICK n, D : n = Cardinality(R) /\ D = 1 .. n
  OBVIOUS
<1>2. n \in Nat /\ IsFiniteSet(D) /\ Cardinality(D) = n
  BY <1>1, FS_CardinalityType, FS_Interval
<1>3. o \in [D -> R] /\ \A i, j \in D : i # j => o[i] # o[j]
  BY <1>1 DEF SetToSeqs
<1>4. o \in Injection(D, R)
  BY <1>3 DEF Injection, IsInjective
<1>5. o \in Surjection(D, R)
  BY <1>1, <1>2, <1>4, FS_Injection
<1>6. ToSet(o) = R
  BY <1>3, <1>5 DEF Surjection, ToSet
<1>7. o \in Seq(R)
  BY <1>1, <1>2, <1>3
<1> QED BY <1>6, <1>7

\* A task goes to the longest of the patterns that its type begins with.
LEMMA Routed ==
    ASSUME NEW R, AllSequences(R), NEW es, es \in Seq(R), LongestFirst(es), ToSet(es) = R,
           NEW type, type \in Seq(ToSet(type)), NEW h, h = Match(es, type),
           NEW fits, fits = {p \in R : IsPrefix(p, type)}
    PROVE  IF fits = {} THEN h = << >> ELSE h \in fits /\ \A p \in fits : Len(p) <= Len(h)
<1>1. PICK n, prefixes : n = Len(es) /\ prefixes = {i \in DOMAIN es : IsPrefix(es[i], type)}
  OBVIOUS
<1>2. n \in Nat /\ DOMAIN es = 1 .. n /\ R = {es[i] : i \in 1 .. n}
  BY <1>1, LenProperties DEF ToSet
<1>3. CASE Contains(es, type)
  <2>1. h = type /\ type \in R
    BY <1>1, <1>2, <1>3 DEF Match, Contains
  <2>2. IsPrefix(type, type)
    <3>1. Len(type) \in Nat
      BY LenProperties
    <3> QED BY <3>1 DEF IsPrefix
  <2>3. \A p \in fits : Len(p) <= Len(type)
    BY DEF IsPrefix
  <2> QED BY <2>1, <2>2, <2>3
<1>4. CASE ~Contains(es, type) /\ prefixes = {}
  <2>1. h = << >>
    BY <1>1, <1>4 DEF Match
  <2>2. fits = {}
    BY <1>1, <1>2, <1>4
  <2> QED BY <2>1, <2>2
<1>5. CASE ~Contains(es, type) /\ prefixes # {}
  <2>1. PICK k : k = Min(prefixes)
    OBVIOUS
  <2>2. h = es[k]
    BY <1>1, <1>5, <2>1 DEF Match
  <2>3. k \in prefixes /\ \A i \in prefixes : k <= i
    <3>1. prefixes \in SUBSET Nat
      BY <1>1, <1>2
    <3>2. \E d \in prefixes : \A i \in prefixes : d <= i
      BY <1>5, <3>1, LeastNumber
    <3> QED BY <2>1, <3>2 DEF Min
  <2>4. h \in fits
    BY <1>1, <1>2, <2>2, <2>3
  <2>5. ASSUME NEW p \in fits PROVE Len(p) <= Len(h)
    <3>1. PICK j \in 1 .. n : p = es[j]
      BY <1>2
    <3>2. j \in prefixes /\ k \in 1 .. n /\ k <= j
      BY <1>1, <1>2, <2>3, <3>1
    <3>3. Len(es[k]) >= Len(es[j])
      BY <1>2, <3>2 DEF LongestFirst
    <3>4. Len(p) \in Nat /\ Len(h) \in Nat
      BY <2>4 DEF AllSequences
    <3> QED BY <2>2, <3>1, <3>3, <3>4
  <2> QED BY <2>4, <2>5
<1> QED BY <1>3, <1>4, <1>5

\* The longest pattern wins, in whatever order handlers are registered.
LEMMA Routes == RoutesToLongest
<1> SUFFICES ASSUME NEW R \in SUBSET Patterns, NEW o \in SetToSeqs(R), NEW type \in TypeNames,
                    NEW es, NEW h, NEW fits, es = Handle(o), h = Match(es, type),
                    fits = {p \in R : IsPrefix(p, type)}
             PROVE  IF fits = {} THEN h = << >> ELSE h \in fits /\ \A p \in fits : Len(p) <= Len(h)
  BY DEF RoutesToLongest
<1>1. IsFiniteSet(R) /\ AllSequences(R) /\ type \in Seq(ToSet(type))
  <2>1. IsFiniteSet(R)
    BY DispatchAssumption, FS_Subset
  <2>2. ASSUME NEW p \in R PROVE Len(p) \in Nat
    <3>1. p \in Seq(ToSet(p))
      BY DispatchAssumption
    <3> QED BY <3>1, LenProperties
  <2> QED BY <2>1, <2>2, DispatchAssumption DEF AllSequences
<1>2. o \in Seq(R) /\ ToSet(o) = R
  BY <1>1, OrderHasAll
<1>3. es \in Seq(R) /\ LongestFirst(es) /\ ToSet(es) = R
  BY <1>1, <1>2, HandledEntries
<1> QED BY ONLY <1>1, <1>3, h = Match(es, type), fits = {p \in R : IsPrefix(p, type)}, Routed

-----------------------------------------------------------------------------
(* Shares of the priorities: the gcd, sums, and sequences put together.     *)

\* d divides a.
Divides(d, a) == \E k \in Nat : a = d * k

\* What divides two numbers divides their sum ...
LEMMA DividesSum ==
    ASSUME NEW d \in Nat, NEW x \in Nat, NEW y \in Nat, Divides(d, x), Divides(d, y)
    PROVE  Divides(d, x + y)
<1>1. PICK k \in Nat : x = d * k
  BY DEF Divides
<1>2. PICK l \in Nat : y = d * l
  BY DEF Divides
<1>3. k + l \in Nat /\ d * (k + l) = d * k + d * l
  OBVIOUS
<1>4. x + y = d * (k + l)
  BY <1>1, <1>2, <1>3
<1> QED BY <1>3, <1>4 DEF Divides

\* ... what divides one divides its multiples ...
LEMMA DividesProduct ==
    ASSUME NEW d \in Nat, NEW x \in Nat, NEW q \in Nat, Divides(d, x)
    PROVE  Divides(d, x * q)
<1>1. PICK k \in Nat : x = d * k
  BY DEF Divides
<1>2. k * q \in Nat /\ (d * k) * q = d * (k * q)
  OBVIOUS
<1> QED BY <1>1, <1>2 DEF Divides

\* ... and what divides a part and the whole divides the other part.
LEMMA DividesRest ==
    ASSUME NEW d \in Nat, NEW x \in Nat, NEW y \in Nat, Divides(d, x), Divides(d, x + y)
    PROVE  Divides(d, y)
<1>1. PICK k \in Nat : x = d * k
  BY DEF Divides
<1>2. PICK l \in Nat : x + y = d * l
  BY DEF Divides
<1>3. CASE d = 0
  <2>1. x = 0 /\ x + y = 0
    BY <1>1, <1>2, <1>3
  <2>2. y = d * 0
    BY <1>3, <2>1
  <2> QED BY <2>2 DEF Divides
<1>4. CASE d # 0
  <2>1. ~(l < k)
    <3>1. ASSUME l < k PROVE FALSE
      <4>1. d * l < d * k
        BY <1>4, <3>1
      <4> QED BY <1>1, <1>2, <4>1
    <3> QED BY <3>1
  <2>2. l - k \in Nat /\ d * (l - k) = d * l - d * k
    BY <2>1
  <2>3. y = d * (l - k)
    BY <1>1, <1>2, <2>2
  <2> QED BY <2>2, <2>3 DEF Divides
<1> QED BY <1>3, <1>4

\* Nothing that divides a number is larger, 0 divides 0 only.
LEMMA DividesBound ==
    ASSUME NEW d \in Nat, NEW b \in Nat \ {0}, Divides(d, b)
    PROVE  d <= b /\ d # 0
<1>1. PICK k \in Nat : b = d * k
  BY DEF Divides
<1>2. d # 0 /\ k # 0
  BY <1>1
<1>3. d * k >= d
  BY <1>2
<1> QED BY <1>1, <1>2, <1>3

\* One round of Euclid.
LEMMA Euclid ==
    ASSUME NEW a \in Nat, NEW b \in Nat \ {0}, NEW r, r = a % b
    PROVE  /\ r \in Nat /\ r < b
           /\ \A d \in Nat : Divides(d, b) => (Divides(d, a) <=> Divides(d, r))
<1>1. PICK q : q = a \div b
  OBVIOUS
<1>2. q \in Nat /\ r \in Nat /\ r < b /\ a = b * q + r
  BY <1>1
<1>3. ASSUME NEW d \in Nat, Divides(d, b) PROVE Divides(d, a) <=> Divides(d, r)
  <2>1. PICK x : x = b * q
    OBVIOUS
  <2>2. x \in Nat /\ a = x + r
    BY <1>2, <2>1
  <2>3. Divides(d, x)
    BY <1>2, <1>3, <2>1, DividesProduct
  <2>4. Divides(d, a) => Divides(d, r)
    BY <1>2, <2>2, <2>3, DividesRest
  <2>5. Divides(d, r) => Divides(d, a)
    BY <1>2, <2>2, <2>3, DividesSum
  <2> QED BY <2>4, <2>5
<1> QED BY <1>2, <1>3

\* The divisors that two numbers have in common, and the largest.
Common(a, b) == {d \in Nat : Divides(d, a) /\ Divides(d, b)}
Largest(S) == CHOOSE d \in S : \A e \in S : e <= d

\* The function Gcd2 exists.
LEMMA Gcd2Is ==
    \A a, b \in Nat : Gcd2[<<a, b>>] = IF b = 0 THEN a ELSE Gcd2[<<b, a % b>>]
<1> DEFINE Def(g) == [p \in Nat \X Nat |-> IF p[2] = 0 THEN p[1] ELSE g[<<p[2], p[1] % p[2]>>]]
           w == [p \in Nat \X Nat |-> IF p[2] = 0 THEN p[1] ELSE Largest(Common(p[1], p[2]))]
<1>1. ASSUME NEW a \in Nat, NEW b \in Nat \ {0}
      PROVE  /\ a % b \in Nat
             /\ Largest(Common(a, b)) = IF a % b = 0 THEN b ELSE Largest(Common(b, a % b))
  <2>1. PICK r : r = a % b
    OBVIOUS
  <2>2. r \in Nat /\ \A d \in Nat : Divides(d, b) => (Divides(d, a) <=> Divides(d, r))
    BY <2>1, Euclid
  <2>3. Common(a, b) = Common(b, r)
    BY <2>2 DEF Common
  <2>4. CASE r = 0
    <3>1. b \in Common(a, b)
      <4>1. Divides(b, b) /\ Divides(b, 0)
        <5>1. b = b * 1 /\ 0 = b * 0
          OBVIOUS
        <5> QED BY <5>1 DEF Divides
      <4> QED BY <2>2, <2>4, <4>1 DEF Common
    <3>2. \A e \in Common(a, b) : e \in Nat /\ e <= b
      BY DividesBound DEF Common
    <3>3. PICK g : g = Largest(Common(a, b))
      OBVIOUS
    <3>4. g \in Common(a, b) /\ b <= g
      BY <3>1, <3>2, <3>3 DEF Largest
    <3>5. g = b
      BY <3>2, <3>4
    <3> QED BY <2>1, <2>4, <3>3, <3>5
  <2>5. CASE r # 0
    BY <2>1, <2>2, <2>3, <2>5
  <2> QED BY <2>4, <2>5
<1>2. ASSUME NEW p \in Nat \X Nat
      PROVE  w[p] = IF p[2] = 0 THEN p[1] ELSE w[<<p[2], p[1] % p[2]>>]
  <2>1. PICK a \in Nat, b \in Nat : p = <<a, b>>
    OBVIOUS
  <2>2. CASE b = 0
    BY <2>1, <2>2
  <2>3. CASE b # 0
    <3>1. /\ a % b \in Nat
          /\ Largest(Common(a, b)) = IF a % b = 0 THEN b ELSE Largest(Common(b, a % b))
      BY <1>1, <2>3
    <3>2. PICK r : r = a % b
      OBVIOUS
    <3>3. r \in Nat /\ Largest(Common(a, b)) = IF r = 0 THEN b ELSE Largest(Common(b, r))
      BY <3>1, <3>2
    <3>4. w[<<a, b>>] = Largest(Common(a, b))
      BY <2>3
    <3>5. w[<<b, r>>] = IF r = 0 THEN b ELSE Largest(Common(b, r))
      BY <3>3
    <3>6. w[<<a, b>>] = w[<<b, r>>]
      <4> HIDE DEF w
      <4> QED BY <3>3, <3>4, <3>5
    <3> HIDE DEF w
    <3> QED BY <2>1, <2>3, <3>2, <3>6
  <2> QED BY <2>2, <2>3
<1>3. w = Def(w)
  <2>1. w = [p \in Nat \X Nat |-> w[p]]
    OBVIOUS
  <2> HIDE DEF w
  <2> QED BY <1>2, <2>1
<1>4. Gcd2 = Def(Gcd2)
  <2>1. Gcd2 = CHOOSE g : g = Def(g)
    BY DEF Gcd2
  <2> HIDE DEF Def
  <2> QED BY <1>3, <2>1
<1> HIDE DEF w
<1>5. ASSUME NEW a \in Nat, NEW b \in Nat
      PROVE  Gcd2[<<a, b>>] = IF b = 0 THEN a ELSE Gcd2[<<b, a % b>>]
  <2>1. PICK p : p = <<a, b>>
    OBVIOUS
  <2>2. p \in Nat \X Nat /\ p[1] = a /\ p[2] = b
    BY <2>1
  <2>3. Gcd2[p] = IF p[2] = 0 THEN p[1] ELSE Gcd2[<<p[2], p[1] % p[2]>>]
    BY <1>4, <2>2
  <2> QED BY <2>1, <2>2, <2>3
<1> QED BY <1>5

\* It is a number that divides both.
LEMMA Gcd2Divides ==
    ASSUME NEW a \in Nat, NEW b \in Nat
    PROVE  Gcd2[<<a, b>>] \in Nat /\ Divides(Gcd2[<<a, b>>], a) /\ Divides(Gcd2[<<a, b>>], b)
<1> DEFINE Good(x, y) == /\ Gcd2[<<x, y>>] \in Nat
                         /\ Divides(Gcd2[<<x, y>>], x) /\ Divides(Gcd2[<<x, y>>], y)
           T == {y \in Nat : ~(\A x \in Nat : Good(x, y))}
<1>1. ASSUME T # {} PROVE FALSE
  <2>1. PICK y \in T : \A e \in T : y <= e
    <3>1. T \in SUBSET Nat
      OBVIOUS
    <3> HIDE DEF T
    <3> QED BY <1>1, <3>1, LeastNumber
  <2>2. PICK x \in Nat : ~Good(x, y)
    BY <2>1
  <2>3. y \in Nat
    BY <2>1
  <2>4. CASE y = 0
    <3>1. Gcd2[<<x, y>>] = x
      BY <2>4, Gcd2Is
    <3>2. x = x * 1 /\ y = x * 0
      BY <2>4
    <3>3. Divides(x, x) /\ Divides(x, y)
      BY <3>2 DEF Divides
    <3> QED BY <2>2, <3>1, <3>3
  <2>5. CASE y # 0
    <3>1. PICK r, g : r = x % y /\ g = Gcd2[<<y, r>>]
      OBVIOUS
    <3>2. r \in Nat /\ r < y /\ \A d \in Nat : Divides(d, y) => (Divides(d, x) <=> Divides(d, r))
      <4>1. x \in Nat /\ y \in Nat \ {0} /\ r = x % y
        BY <2>2, <2>3, <2>5, <3>1
      <4>2. r \in Nat /\ r < y
        BY ONLY <4>1, Euclid
      <4>3. ASSUME NEW d \in Nat, Divides(d, y) PROVE Divides(d, x) <=> Divides(d, r)
        BY ONLY <4>1, <4>3, Euclid
      <4> QED BY <4>2, <4>3
    <3>3. Gcd2[<<x, y>>] = g
      BY <2>3, <2>5, <3>1, Gcd2Is
    <3>4. r \notin T
      <4> HIDE DEF T
      <4> QED BY <2>1, <2>3, <3>2
    <3>5. Good(y, r)
      BY <2>3, <3>2, <3>4
    <3>6. g \in Nat /\ Divides(g, y) /\ Divides(g, r)
      BY <3>1, <3>5
    <3>7. Good(x, y)
      BY <3>2, <3>3, <3>6
    <3> QED BY <2>2, <3>7
  <2> QED BY <2>4, <2>5
<1>2. Good(a, b)
  BY <1>1
<1> QED BY <1>2

\* Some element of every set.
Picked(S) == [s \in SUBSET S |-> CHOOSE x \in s : TRUE]

\* The choice that FoldSet and FoldFunction make.
LEMMA PickedChooses ==
    ASSUME NEW S
    PROVE  /\ Chooses(Picked(S), S)
           /\ \A s \in SUBSET S : s # {} => /\ (CHOOSE x \in s : TRUE) = Picked(S)[s]
                                            /\ Picked(S)[s] \in s
BY DEF Picked, Chooses

\* The greatest common divisor of a set of numbers is one, and divides each of them.
LEMMA GcdDivides ==
    ASSUME NEW S, IsFiniteSet(S), S \in SUBSET Nat, NEW d, d = Gcd(S)
    PROVE  d \in Nat /\ \A x \in S : Divides(d, x)
<1> DEFINE c(s) == CHOOSE x \in s : TRUE
           F == [x \in Nat \X S |-> Gcd2[<<x[2], x[1]>>]]
           Def(h) == [s \in SUBSET S |-> IF s = {} THEN 0 ELSE Gcd2[<<c(s), h[s \ {c(s)}]>>]]
           iter == CHOOSE h : h = Def(h)
<1>0. PICK ch : ch = Picked(S)
  OBVIOUS
<1>1. /\ Chooses(ch, S)
      /\ \A s \in SUBSET S : s # {} => /\ c(s) = ch[s] /\ ch[s] \in s /\ ch[s] \in S
                                       /\ s \ {c(s)} = Rest(ch, s) /\ Rest(ch, s) \in SUBSET S
  BY <1>0, PickedChooses DEF Rest
<1>2. F \in [Nat \X S -> Nat]
  BY Gcd2Divides
<1>3. PICK h \in [SUBSET S -> Nat] : FoldOf(h, S, ch, 0, F)
  <2> HIDE DEF F
  <2> QED BY <1>1, <1>2, FoldExists
<1>4. ASSUME NEW s \in SUBSET S
      PROVE  h[s] = IF s = {} THEN 0 ELSE Gcd2[<<c(s), h[s \ {c(s)}]>>]
  <2>1. CASE s = {}
    BY <1>3, <2>1 DEF FoldOf
  <2>2. CASE s # {}
    <3>1. PICK x, t : x = ch[s] /\ t = Rest(ch, s)
      OBVIOUS
    <3>2. x \in S /\ t \in SUBSET S /\ c(s) = x /\ s \ {c(s)} = t
      BY <1>1, <2>2, <3>1
    <3>3. h[s] = F[<<h[t], x>>]
      <4> HIDE DEF F, c
      <4> QED BY <1>3, <2>2, <3>1 DEF FoldOf
    <3>4. F[<<h[t], x>>] = Gcd2[<<x, h[t]>>]
      BY <1>3, <3>2
    <3> HIDE DEF c, F
    <3> QED BY <2>2, <3>2, <3>3, <3>4
  <2> QED BY <2>1, <2>2
<1> HIDE DEF c
<1>5. h = Def(h)
  <2>1. h = [s \in SUBSET S |-> h[s]]
    BY <1>3
  <2> QED BY <1>4, <2>1
<1>6. iter = Def(iter)
  <2> HIDE DEF Def
  <2> QED BY <1>5
<1>7. d = iter[S]
  BY DEF Gcd, FoldSet, MapThenFoldSet, c
<1> HIDE DEF iter
<1>8. \A s \in SUBSET S : iter[s] = IF s = {} THEN 0 ELSE Gcd2[<<c(s), iter[s \ {c(s)}]>>]
  BY <1>6
<1> DEFINE Q == {s \in SUBSET S : iter[s] \in Nat /\ \A x \in s : Divides(iter[s], x)}
<1>9. {} \in Q
  <2>1. iter[{}] = 0
    BY <1>8
  <2> QED BY <2>1
<1>10. ASSUME NEW s \in SUBSET S, s # {}, Rest(ch, s) \in Q PROVE s \in Q
  <2>1. PICK x, t, g, e : x = ch[s] /\ t = Rest(ch, s) /\ g = iter[s] /\ e = iter[t]
    OBVIOUS
  <2>2. x \in Nat /\ c(s) = x /\ s \ {c(s)} = t
    BY <1>1, <1>10, <2>1
  <2>3. g = Gcd2[<<x, e>>]
    BY <1>8, <1>10, <2>1, <2>2
  <2>4. e \in Nat /\ \A y \in t : Divides(e, y)
    BY <1>10, <2>1
  <2>5. g \in Nat /\ Divides(g, x) /\ Divides(g, e)
    BY <2>2, <2>3, <2>4, Gcd2Divides
  <2>6. ASSUME NEW y \in t PROVE Divides(g, y)
    <3>1. PICK k \in Nat : y = e * k
      BY <2>4, <2>6 DEF Divides
    <3>2. Divides(g, e * k)
      BY <2>4, <2>5, DividesProduct
    <3> QED BY <3>1, <3>2
  <2>7. \A y \in s : y = x \/ y \in t
    BY <2>2
  <2> QED BY <2>1, <2>5, <2>6, <2>7
<1>11. S \in Q
  <2> HIDE DEF Q
  <2> QED BY <1>1, <1>9, <1>10, ChoiceInduction
<1> QED BY <1>7, <1>11

\* h adds up the values of f for sets of arguments, in the order of the choices.
Sums(h, f, S) ==
    /\ h \in [SUBSET S -> Nat] /\ h[S] = SumFunction(f) /\ h[{}] = 0
    /\ \A s \in SUBSET S : s # {} => h[s] = f[Picked(S)[s]] + h[Rest(Picked(S), s)]

\* SumFunction adds up the values.
LEMMA SumIs ==
    ASSUME NEW S, IsFiniteSet(S), NEW f, f \in [S -> Nat]
    PROVE  \E h : Sums(h, f, S)
<1> DEFINE c(s) == CHOOSE x \in s : TRUE
           F == [x \in Nat \X S |-> f[x[2]] + x[1]]
           Def(h) == [s \in SUBSET S |-> IF s = {} THEN 0 ELSE f[c(s)] + h[s \ {c(s)}]]
           iter == CHOOSE h : h = Def(h)
<1>0. PICK ch : ch = Picked(S)
  OBVIOUS
<1>1. /\ Chooses(ch, S)
      /\ \A s \in SUBSET S : s # {} => /\ c(s) = ch[s] /\ ch[s] \in s /\ ch[s] \in S
                                       /\ s \ {c(s)} = Rest(ch, s) /\ Rest(ch, s) \in SUBSET S
  BY <1>0, PickedChooses DEF Rest
<1>2. F \in [Nat \X S -> Nat]
  OBVIOUS
<1>3. PICK h \in [SUBSET S -> Nat] : FoldOf(h, S, ch, 0, F)
  <2> HIDE DEF F
  <2> QED BY <1>1, <1>2, FoldExists
<1>4. ASSUME NEW s \in SUBSET S
      PROVE  h[s] = IF s = {} THEN 0 ELSE f[c(s)] + h[s \ {c(s)}]
  <2>1. CASE s = {}
    BY <1>3, <2>1 DEF FoldOf
  <2>2. CASE s # {}
    <3>1. PICK x, t : x = ch[s] /\ t = Rest(ch, s)
      OBVIOUS
    <3>2. x \in S /\ t \in SUBSET S /\ c(s) = x /\ s \ {c(s)} = t
      BY <1>1, <2>2, <3>1
    <3>3. h[s] = F[<<h[t], x>>]
      <4> HIDE DEF F, c
      <4> QED BY <1>3, <2>2, <3>1 DEF FoldOf
    <3>4. F[<<h[t], x>>] = f[x] + h[t]
      BY <1>3, <3>2
    <3> HIDE DEF c, F
    <3> QED BY <2>2, <3>2, <3>3, <3>4
  <2> QED BY <2>1, <2>2
<1> HIDE DEF c
<1>5. h = Def(h)
  <2>1. h = [s \in SUBSET S |-> h[s]]
    BY <1>3
  <2> QED BY <1>4, <2>1
<1>6. iter = Def(iter)
  <2> HIDE DEF Def
  <2> QED BY <1>5
<1>7. SumFunction(f) = iter[S]
  <2>1. DOMAIN f = S
    OBVIOUS
  <2> QED BY <2>1 DEF SumFunction, SumFunctionOnSet, FoldFunctionOnSet, MapThenFoldSet, c
<1> HIDE DEF iter
<1>8. \A s \in SUBSET S : iter[s] = IF s = {} THEN 0 ELSE f[c(s)] + iter[s \ {c(s)}]
  BY <1>6
<1>9. \A s \in SUBSET S : s # {} => iter[s] = f[ch[s]] + iter[Rest(ch, s)]
  BY <1>1, <1>8
<1>10. iter[{}] = 0
  BY <1>8
<1>11. ASSUME NEW t \in SUBSET S PROVE iter[t] \in Nat
  <2>1. IsFiniteSet(t) /\ Chooses(ch, t)
    BY <1>1, FS_Subset DEF Chooses
  <2> DEFINE R == {s \in SUBSET t : iter[s] \in Nat}
  <2>2. {} \in R
    BY <1>10
  <2>3. ASSUME NEW s \in SUBSET t, s # {}, Rest(ch, s) \in R PROVE s \in R
    <3>1. s \in SUBSET S /\ f[ch[s]] \in Nat /\ iter[Rest(ch, s)] \in Nat
      BY <1>1, <2>3
    <3> QED BY <1>9, <2>3, <3>1
  <2>4. t \in R
    <3> HIDE DEF R
    <3> QED BY <2>1, <2>2, <2>3, ChoiceInduction
  <2> QED BY <2>4
<1>12. iter \in [SUBSET S -> Nat]
  <2>1. iter = [s \in SUBSET S |-> iter[s]]
    BY <1>6
  <2> QED BY <1>11, <2>1
<1>13. Sums(iter, f, S)
  BY <1>0, <1>7, <1>9, <1>10, <1>12 DEF Sums
<1> QED BY <1>13

\* A common factor of all values is one of the sum.
LEMMA SumTimes ==
    ASSUME NEW S, IsFiniteSet(S), NEW f, f \in [S -> Nat], NEW g, g \in [S -> Nat], NEW d \in Nat,
           \A x \in S : f[x] = d * g[x]
    PROVE  SumFunction(f) = d * SumFunction(g) /\ SumFunction(g) \in Nat
<1>1. PICK ch : ch = Picked(S)
  OBVIOUS
<1>2. PICK h : Sums(h, f, S)
  BY SumIs
<1>3. PICK k : Sums(k, g, S)
  BY SumIs
<1>4. Chooses(ch, S) /\ \A s \in SUBSET S : s # {} => ch[s] \in S /\ Rest(ch, s) \in SUBSET S
  BY <1>1, PickedChooses DEF Rest
<1> USE <1>1 DEF Sums
<1> DEFINE Q == {s \in SUBSET S : h[s] = d * k[s]}
<1>5. {} \in Q
  BY <1>2, <1>3
<1>6. ASSUME NEW s \in SUBSET S, s # {}, Rest(ch, s) \in Q PROVE s \in Q
  <2>1. PICK x, t, a, b, e : x = ch[s] /\ t = Rest(ch, s) /\ a = g[x] /\ b = k[t] /\ e = h[t]
    OBVIOUS
  <2>2. x \in S /\ t \in SUBSET S /\ a \in Nat /\ b \in Nat /\ f[x] = d * a
    BY <1>3, <1>4, <1>6, <2>1
  <2>3. e = d * b
    BY <1>6, <2>1
  <2>4. h[s] = d * a + d * b /\ k[s] = a + b
    BY <1>2, <1>3, <1>6, <2>1, <2>2, <2>3
  <2>5. d * a + d * b = d * (a + b)
    BY ONLY <2>2, d \in Nat
  <2> QED BY <2>4, <2>5
<1>7. S \in Q
  <2> HIDE DEF Q
  <2> QED BY <1>4, <1>5, <1>6, ChoiceInduction
<1>8. k[S] \in Nat
  BY <1>3
<1> QED BY <1>2, <1>3, <1>7, <1>8

\* Where a sequence has the elements of a set, and how often it has one.
Places(q, s) == {i \in DOMAIN q : q[i] \in s}
Times(q, x) == Cardinality({i \in DOMAIN q : q[i] = x})

\* A sequence is as long as its elements are frequent, taken together.
LEMMA LengthIsSum ==
    ASSUME NEW S, IsFiniteSet(S), NEW g, g \in [S -> Nat], NEW q, q \in Seq(S),
           \A x \in S : Times(q, x) = g[x]
    PROVE  Len(q) = SumFunction(g)
<1>1. PICK ch : ch = Picked(S)
  OBVIOUS
<1>2. PICK k : Sums(k, g, S)
  BY SumIs
<1> USE <1>1 DEF Sums
<1>3. Chooses(ch, S) /\ \A s \in SUBSET S : s # {} => /\ ch[s] \in S /\ ch[s] \in s
                                                     /\ Rest(ch, s) \in SUBSET S
  BY <1>1, PickedChooses DEF Rest
<1>4. Len(q) \in Nat /\ DOMAIN q = 1 .. Len(q) /\ \A i \in DOMAIN q : q[i] \in S
  BY LenProperties, ElementOfSeq
<1>5. IsFiniteSet(DOMAIN q) /\ Cardinality(DOMAIN q) = Len(q)
  <2>1. PICK n : n = Len(q)
    OBVIOUS
  <2>2. IsFiniteSet(1 .. n) /\ Cardinality(1 .. n) = n
    <3>1. n \in Nat
      BY <1>4, <2>1
    <3> QED BY ONLY <3>1, FS_Interval
  <2> QED BY <1>4, <2>1, <2>2
<1> DEFINE Q == {s \in SUBSET S : Cardinality(Places(q, s)) = k[s]}
<1>6. {} \in Q
  <2>1. Places(q, {}) = {}
    BY DEF Places
  <2> QED BY <1>2, <2>1, FS_EmptySet
<1>7. ASSUME NEW s \in SUBSET S, s # {}, Rest(ch, s) \in Q PROVE s \in Q
  <2>1. PICK x, t : x = ch[s] /\ t = Rest(ch, s)
    OBVIOUS
  <2>2. x \in S /\ x \in s /\ t \in SUBSET S /\ t = s \ {x}
    BY <1>3, <1>7, <2>1 DEF Rest
  <2>3. PICK A, B, C : A = Places(q, s) /\ B = Places(q, t) /\ C = {i \in DOMAIN q : q[i] = x}
    OBVIOUS
  <2>4. A = B \cup C /\ B \cap C = {}
    BY <2>2, <2>3 DEF Places
  <2>5. B \in SUBSET DOMAIN q /\ C \in SUBSET DOMAIN q
    BY <2>3 DEF Places
  <2>6. IsFiniteSet(B) /\ IsFiniteSet(C) /\ Cardinality(B) \in Nat /\ Cardinality(C) \in Nat
    BY <1>5, <2>5, FS_Subset, FS_CardinalityType
  <2>7. Cardinality(B \cup C) = Cardinality(B) + Cardinality(C) - Cardinality(B \cap C)
    BY <2>6, FS_Union
  <2>8. Cardinality(A) = Cardinality(B) + Cardinality(C)
    <3>1. Cardinality(B \cap C) = 0
      BY <2>4, FS_EmptySet
    <3> QED BY <2>4, <2>6, <2>7, <3>1
  <2>9. Cardinality(C) = g[x] /\ Cardinality(B) = k[t]
    BY <1>7, <2>1, <2>2, <2>3 DEF Times
  <2>10. k[s] = g[x] + k[t]
    BY <1>2, <1>7, <2>1
  <2> QED BY <2>3, <2>6, <2>8, <2>9, <2>10
<1>8. S \in Q
  <2> HIDE DEF Q
  <2> QED BY <1>3, <1>6, <1>7, ChoiceInduction
<1>9. Places(q, S) = DOMAIN q
  BY <1>4 DEF Places
<1> QED BY <1>2, <1>5, <1>8, <1>9

\* How often two sequences have an element, one behind the other.
LEMMA TimesConcat ==
    ASSUME NEW S, NEW q \in Seq(S), NEW r \in Seq(S), NEW x
    PROVE  /\ Times(q \o r, x) = Times(q, x) + Times(r, x)
           /\ Times(q, x) \in Nat /\ Times(r, x) \in Nat
<1>1. PICK m, n, u : m = Len(q) /\ n = Len(r) /\ u = q \o r
  OBVIOUS
<1>2. m \in Nat /\ n \in Nat /\ DOMAIN q = 1 .. m /\ DOMAIN r = 1 .. n
  BY <1>1, LenProperties
<1>3. /\ u \in Seq(S) /\ Len(u) = m + n
      /\ \A i \in 1 .. m + n : u[i] = IF i <= m THEN q[i] ELSE r[i - m]
  BY <1>1, ConcatProperties
<1>4. DOMAIN u = 1 .. m + n
  BY <1>3, LenProperties
<1> DEFINE A == {i \in 1 .. m : q[i] = x}
           B == {i \in 1 .. n : r[i] = x}
           C == {i \in m + 1 .. m + n : r[i - m] = x}
           f == [i \in B |-> i + m]
<1>5. {i \in DOMAIN u : u[i] = x} = A \cup C /\ A \cap C = {}
  <2>1. A \cap C = {}
    BY <1>2
  <2>2. ASSUME NEW i PROVE (i \in DOMAIN u /\ u[i] = x) <=> (i \in A \/ i \in C)
    <3>1. CASE i \in 1 .. m
      <4>1. i \in 1 .. m + n /\ u[i] = q[i] /\ i \notin m + 1 .. m + n
        BY <1>2, <1>3, <3>1
      <4> QED BY <1>4, <3>1, <4>1
    <3>2. CASE i \in m + 1 .. m + n
      <4>1. i \in 1 .. m + n /\ u[i] = r[i - m] /\ i \notin 1 .. m
        BY <1>2, <1>3, <3>2
      <4> QED BY <1>4, <3>2, <4>1
    <3>3. CASE i \notin 1 .. m /\ i \notin m + 1 .. m + n
      <4>1. i \notin 1 .. m + n
        BY <1>2, <3>3
      <4> QED BY <1>4, <3>3, <4>1
    <3> QED BY <3>1, <3>2, <3>3
  <2> HIDE DEF A, C
  <2> QED BY <2>1, <2>2
<1>6. IsFiniteSet(A) /\ IsFiniteSet(B) /\ Cardinality(A) \in Nat /\ Cardinality(B) \in Nat
  <2>1. IsFiniteSet(1 .. m) /\ IsFiniteSet(1 .. n) /\ A \in SUBSET (1 .. m) /\ B \in SUBSET (1 .. n)
    BY <1>2, FS_Interval
  <2> HIDE DEF A, B
  <2> QED BY <2>1, FS_Subset, FS_CardinalityType
<1>7. IsFiniteSet(C) /\ Cardinality(C) = Cardinality(B)
  <2>1. f \in [B -> C]
    BY <1>2
  <2>2. \A i, j \in B : f[i] = f[j] => i = j
    BY <1>2
  <2>3. ASSUME NEW j \in C PROVE \E i \in B : f[i] = j
    <3>1. j - m \in B /\ (j - m) + m = j
      BY <1>2
    <3> QED BY <3>1
  <2>4. DOMAIN f = B
    OBVIOUS
  <2> HIDE DEF A, B, C, f
  <2>5. f \in Bijection(B, C)
    BY <2>1, <2>2, <2>3, <2>4 DEF Bijection, Injection, Surjection, IsInjective
  <2> QED BY <1>6, <2>5, FS_Bijection DEF ExistsBijection
<1>8. /\ Times(u, x) = Cardinality(A \cup C)
      /\ Times(q, x) = Cardinality(A) /\ Times(r, x) = Cardinality(B)
  BY <1>2, <1>5 DEF Times
<1> HIDE DEF A, B, C, f
<1>9. Cardinality(A \cup C) = Cardinality(A) + Cardinality(C) - Cardinality(A \cap C)
  BY <1>6, <1>7, FS_Union
<1>10. Cardinality(A \cap C) = 0
  BY <1>5, FS_EmptySet
<1> QED BY <1>1, <1>6, <1>7, <1>8, <1>9, <1>10

\* Induction over the indices of a sequence.
LEMMA IndexInduction ==
    ASSUME NEW n \in Nat \ {0}, NEW Q, 1 \in Q, \A i \in 1 .. n : i # 1 /\ i - 1 \in Q => i \in Q
    PROVE  n \in Q
<1>1. ASSUME n \notin Q PROVE FALSE
  <2> DEFINE T == {i \in 1 .. n : i \notin Q}
  <2>1. T \in SUBSET Nat /\ T # {}
    BY <1>1
  <2>2. PICK d \in T : \A e \in T : d <= e
    <3> HIDE DEF T
    <3> QED BY <2>1, LeastNumber
  <2>3. d \in 1 .. n /\ d \notin Q /\ d # 1
    BY <2>2
  <2>4. d - 1 \in 1 .. n /\ ~(d <= d - 1)
    BY <2>3
  <2>5. d - 1 \in Q
    BY <2>2, <2>4
  <2> QED BY <2>3, <2>5
<1> QED BY <1>1

\* The last index of the first i.
LEMMA FirstIndices ==
    ASSUME NEW n \in Nat, NEW i \in 1 .. n
    PROVE  /\ 1 .. i \in SUBSET (1 .. n) /\ 1 .. i # {} /\ Max(1 .. i) = i
           /\ (1 .. i) \ {i} = 1 .. i - 1 /\ 1 .. i - 1 \in SUBSET (1 .. n)
<1>1. PICK s : s = 1 .. i
  OBVIOUS
<1>2. s \in SUBSET (1 .. n) /\ i \in s /\ s \ {i} = 1 .. i - 1 /\ 1 .. i - 1 \in SUBSET (1 .. n)
  BY <1>1
<1>3. Indices(s, n) /\ s # {}
  BY <1>2 DEF Indices
<1>4. Max(s) \in s /\ i <= Max(s)
  BY <1>2, <1>3, LastIndex
<1>5. Max(s) = i
  BY <1>1, <1>4
<1> QED BY <1>1, <1>2, <1>3, <1>5

\* flat puts one of the sequences bs behind the other.
Joins(flat, bs, m) ==
    /\ flat[m] = FlattenSeq(bs) /\ flat[1] = bs[1]
    /\ \A i \in 1 .. m : i # 1 => flat[i] = flat[i - 1] \o bs[i]

\* FlattenSeq puts sequences one behind the other.
LEMMA Flattened ==
    ASSUME NEW S, NEW m \in Nat \ {0}, NEW bs, bs \in [1 .. m -> Seq(S)], Len(bs) = m
    PROVE  \E flat : Joins(flat, bs, m)
<1> DEFINE N == 1 .. m
           V == Seq(S)
           ch == [s \in SUBSET N |-> Max(s)]
           F == [x \in V \X N |-> IF x[2] = 1 THEN bs[1] ELSE x[1] \o bs[x[2]]]
           Def(f) == [i \in 1 .. m |-> IF i = 1 THEN bs[i] ELSE f[i - 1] \o bs[i]]
           flat == CHOOSE f : f = Def(f)
<1>1. Chooses(ch, N)
  <2> SUFFICES ASSUME NEW s \in SUBSET N, s # {} PROVE Max(s) \in s
    BY DEF Chooses
  <2>1. Indices(s, m)
    BY DEF Indices
  <2> QED BY <2>1, LastIndex
<1>2. IsFiniteSet(N)
  BY FS_Interval
<1>3. << >> \in V
  BY EmptySeq
<1>4. F \in [V \X N -> V]
  <2>1. ASSUME NEW a \in V, NEW i \in N PROVE bs[1] \in V /\ a \o bs[i] \in V
    <3>1. 1 \in N /\ bs[1] \in V /\ bs[i] \in V
      OBVIOUS
    <3> QED BY <3>1, ConcatProperties
  <2> HIDE DEF V
  <2> QED BY <2>1
<1>5. PICK h \in [SUBSET N -> V] : FoldOf(h, N, ch, << >>, F)
  <2> HIDE DEF V, F, ch, N
  <2> QED BY <1>1, <1>2, <1>3, <1>4, FoldExists
<1> DEFINE w == [i \in 1 .. m |-> h[1 .. i]]
<1>6. ASSUME NEW i \in 1 .. m
      PROVE  w[i] = IF i = 1 THEN bs[i] ELSE w[i - 1] \o bs[i]
  <2>1. PICK s, t : s = 1 .. i /\ t = 1 .. i - 1
    OBVIOUS
  <2>2. s \in SUBSET N /\ s # {} /\ Max(s) = i /\ s \ {i} = t /\ t \in SUBSET N
    BY <2>1, FirstIndices
  <2>3. ch[s] = i /\ Rest(ch, s) = t
    BY <2>2 DEF Rest
  <2>4. h[s] = F[<<h[t], i>>]
    <3> HIDE DEF V, F, ch, N
    <3> QED BY <1>5, <2>2, <2>3 DEF FoldOf
  <2>5. h[t] \in V
    <3> HIDE DEF V, N
    <3> QED BY <1>5, <2>2
  <2>6. F[<<h[t], i>>] = IF i = 1 THEN bs[1] ELSE h[t] \o bs[i]
    <3> HIDE DEF V
    <3> QED BY <2>5
  <2>7. w[i] = h[s] /\ (i # 1 => w[i - 1] = h[t])
    BY <2>1
  <2> HIDE DEF w, F
  <2> QED BY <2>4, <2>6, <2>7
<1>7. w = Def(w)
  <2>1. w = [i \in 1 .. m |-> w[i]]
    OBVIOUS
  <2> HIDE DEF w
  <2> QED BY <1>6, <2>1
<1>8. flat = Def(flat)
  <2> HIDE DEF w, Def
  <2> QED BY <1>7
<1>9. FlattenSeq(bs) = flat[m]
  BY DEF FlattenSeq
<1> HIDE DEF flat
<1>10. \A i \in 1 .. m : flat[i] = IF i = 1 THEN bs[i] ELSE flat[i - 1] \o bs[i]
  BY <1>8
<1>11. 1 \in 1 .. m
  OBVIOUS
<1> HIDE DEF N, V, F, w, Def, ch
<1>12. flat[1] = bs[1]
  BY ONLY <1>10, <1>11
<1>13. Joins(flat, bs, m)
  BY <1>9, <1>10, <1>12 DEF Joins
<1> QED BY <1>13

\* A queue name as often as its priority.
Block(g, x) == [i \in 1 .. g[x] |-> x]

\* How often a block has a name.
LEMMA BlockTimes ==
    ASSUME NEW S, NEW g, g \in [S -> Nat \ {0}], NEW x \in S
    PROVE  /\ Block(g, x) \in Seq(S) /\ Times(Block(g, x), x) = g[x]
           /\ \A y \in S : y # x => Times(Block(g, x), y) = 0 /\ Block(g, x) # Block(g, y)
<1>1. PICK n, b : n = g[x] /\ b = Block(g, x)
  OBVIOUS
<1>2. n \in Nat \ {0} /\ b = [i \in 1 .. n |-> x] /\ DOMAIN b = 1 .. n /\ \A i \in 1 .. n : b[i] = x
  BY <1>1 DEF Block
<1>3. b \in Seq(S)
  BY <1>2, IsASeq
<1>4. Times(b, x) = n
  <2>1. {i \in DOMAIN b : b[i] = x} = 1 .. n
    BY <1>2
  <2>2. Cardinality(1 .. n) = n
    BY ONLY <1>2, FS_Interval
  <2> QED BY <2>1, <2>2 DEF Times
<1>5. ASSUME NEW y \in S, y # x PROVE Times(b, y) = 0 /\ b # Block(g, y)
  <2>1. {i \in DOMAIN b : b[i] = y} = {}
    BY <1>2, <1>5
  <2>2. Block(g, y)[1] = y /\ b[1] = x
    <3>1. g[y] \in Nat \ {0} /\ 1 \in 1 .. g[y] /\ 1 \in 1 .. n
      BY <1>2
    <3> QED BY <1>2, <3>1 DEF Block
  <2> QED BY <1>5, <2>1, <2>2, FS_EmptySet DEF Times
<1> QED BY <1>1, <1>3, <1>4, <1>5

\* q has every name as often as its priority.
Spells(q, S, g) == q \in Seq(S) /\ \A x \in S : Times(q, x) = g[x]

\* Names has every name as often as its priority.
LEMMA NamesTimes ==
    ASSUME NEW S, IsFiniteSet(S), S # {}, NEW g, g \in [S -> Nat \ {0}], NEW q, q = Names(g)
    PROVE  Spells(q, S, g)
<1>1. PICK B, m, bs : B = {Block(g, x) : x \in S} /\ m = Cardinality(B) /\ bs = SetToSeq(B)
  OBVIOUS
<1>2. q = FlattenSeq(bs)
  <2>1. DOMAIN g = S
    OBVIOUS
  <2> QED BY <1>1, <2>1 DEF Names, Block
<1>3. IsFiniteSet(B) /\ m \in Nat \ {0}
  <2> DEFINE bl == [x \in S |-> Block(g, x)]
  <2>1. bl \in Surjection(S, B)
    BY <1>1 DEF Surjection
  <2>2. IsFiniteSet(B)
    <3> HIDE DEF bl
    <3> QED BY <2>1, FS_Surjection
  <2>3. B # {}
    BY <1>1
  <2> QED BY <1>1, <2>2, <2>3, FS_CardinalityType, FS_EmptySet
<1>4. bs \in [1 .. m -> B] /\ bs \in Injection(1 .. m, B) /\ bs \in Surjection(1 .. m, B)
  <2>1. \E f \in [1 .. m -> B] : IsInjective(f)
    <3>1. PICK f : f \in Bijection(1 .. m, B)
      BY <1>1, <1>3, FS_CardinalityType DEF ExistsBijection
    <3> QED BY <3>1 DEF Bijection, Injection
  <2>2. bs \in [1 .. m -> B] /\ IsInjective(bs)
    BY <1>1, <2>1 DEF SetToSeq
  <2>3. bs \in Injection(1 .. m, B)
    BY <2>2 DEF Injection
  <2>4. Cardinality(1 .. m) = m
    BY ONLY <1>3, FS_Interval
  <2>5. bs \in Surjection(1 .. m, B)
    BY <1>1, <1>3, <2>3, <2>4, FS_Injection
  <2> QED BY <2>2, <2>3, <2>5
<1>5. \A b \in B : b \in Seq(S)
  BY <1>1, BlockTimes
<1>6. bs \in [1 .. m -> Seq(S)] /\ Len(bs) = m
  <2>1. bs \in [1 .. m -> Seq(S)]
    BY <1>4, <1>5
  <2>2. bs \in Seq(B)
    BY <1>3, <1>4
  <2>3. DOMAIN bs = 1 .. m /\ DOMAIN bs = 1 .. Len(bs) /\ Len(bs) \in Nat
    BY <1>4, <2>2, LenProperties
  <2>4. Len(bs) = m
    BY ONLY <1>3, <2>3
  <2> QED BY <2>1, <2>4
<1>7. PICK flat : Joins(flat, bs, m)
  BY <1>3, <1>6, Flattened
<1> USE DEF Joins
<1>8. ASSUME NEW x \in S PROVE q \in Seq(S) /\ Times(q, x) = g[x]
  <2>1. PICK b \in 1 .. m : bs[b] = Block(g, x)
    BY <1>1, <1>4 DEF Surjection
  <2>2. ASSUME NEW i \in 1 .. m
        PROVE  bs[i] \in Seq(S) /\ Times(bs[i], x) = IF i = b THEN g[x] ELSE 0
    <3>1. PICK y \in S : bs[i] = Block(g, y)
      BY <1>1, <1>4
    <3>2. CASE i = b
      BY <1>6, <2>1, <3>2, BlockTimes
    <3>3. CASE i # b
      <4>1. bs[i] # bs[b]
        BY <1>4, <3>3 DEF Injection, IsInjective
      <4>2. x # y
        BY <2>1, <3>1, <4>1
      <4>3. Times(Block(g, y), x) = 0
        BY <4>2, BlockTimes
      <4> QED BY <1>6, <3>1, <3>3, <4>3
    <3> QED BY <3>2, <3>3
  <2> DEFINE Q == {i \in 1 .. m : /\ flat[i] \in Seq(S)
                                  /\ Times(flat[i], x) = IF b <= i THEN g[x] ELSE 0}
  <2>3. 1 \in Q
    <3>1. 1 \in 1 .. m /\ (b <= 1 <=> b = 1)
      BY <1>3
    <3>2. flat[1] \in Seq(S) /\ Times(flat[1], x) = IF 1 = b THEN g[x] ELSE 0
      BY <1>7, <2>2, <3>1
    <3> QED BY <3>1, <3>2
  <2>4. ASSUME NEW i \in 1 .. m, i # 1, i - 1 \in Q PROVE i \in Q
    <3>1. PICK u, v, n : u = flat[i - 1] /\ v = bs[i] /\ n = g[x]
      OBVIOUS
    <3>2. /\ u \in Seq(S) /\ Times(u, x) = IF b <= i - 1 THEN n ELSE 0
          /\ v \in Seq(S) /\ Times(v, x) = IF i = b THEN n ELSE 0
      BY <2>2, <2>4, <3>1
    <3>3. flat[i] = u \o v
      BY <1>7, <2>4, <3>1
    <3>4. Times(u \o v, x) = Times(u, x) + Times(v, x) /\ u \o v \in Seq(S)
      <4>1. u \in Seq(S) /\ v \in Seq(S)
        BY <3>2
      <4>2. u \o v \in Seq(S)
        BY <4>1, ConcatProperties
      <4>3. Times(u \o v, x) = Times(u, x) + Times(v, x)
        BY ONLY <4>1, TimesConcat
      <4> QED BY <4>2, <4>3
    <3>5. n \in Nat
      BY <3>1
    <3>6. Times(u \o v, x) = IF b <= i THEN n ELSE 0
      <4>1. b \in Int /\ i \in Int
        BY <1>3
      <4> QED BY ONLY <3>2, <3>4, <3>5, <4>1
    <3> QED BY <3>1, <3>3, <3>4, <3>6
  <2>5. m \in Q
    <3> HIDE DEF Q
    <3> QED BY <1>3, <2>3, <2>4, IndexInduction
  <2>6. b <= m
    BY <1>3
  <2> QED BY <1>2, <1>7, <2>5, <2>6
<1>9. q \in Seq(S)
  <2>1. PICK x : x \in S
    OBVIOUS
  <2> QED BY <1>8, <2>1
<1> QED BY <1>8, <1>9 DEF Spells

\* What NormalizeQueues divides the priorities by leaves whole numbers.
LEMMA Normalized ==
    ASSUME NEW S, IsFiniteSet(S), S # {}, NEW f, f \in [S -> Nat \ {0}],
           NEW g, g = NormalizeQueues(f)
    PROVE  g \in [S -> Nat \ {0}] /\ \E d \in Nat : \A q \in S : f[q] = d * g[q]
<1>1. PICK R, d : R = {f[q] : q \in S} /\ d = Gcd(R)
  OBVIOUS
<1>2. g = [q \in S |-> f[q] \div d]
  <2>1. DOMAIN f = S
    OBVIOUS
  <2> QED BY <1>1, <2>1 DEF NormalizeQueues
<1>3. IsFiniteSet(R) /\ R \in SUBSET Nat
  <2>1. f \in Surjection(S, R) /\ R \in SUBSET Nat
    BY <1>1 DEF Surjection
  <2> QED BY <2>1, FS_Surjection
<1>4. d \in Nat /\ \A x \in R : Divides(d, x)
  BY <1>1, <1>3, GcdDivides
<1>5. ASSUME NEW q \in S PROVE g[q] \in Nat \ {0} /\ f[q] = d * g[q]
  <2>1. PICK x : x = f[q]
    OBVIOUS
  <2>2. x \in Nat \ {0} /\ Divides(d, x)
    BY <1>1, <1>4, <2>1
  <2>3. d \in Nat \ {0}
    BY <1>4, <2>2, DividesBound
  <2>4. PICK k \in Nat : x = d * k
    BY <2>2 DEF Divides
  <2>5. k # 0 /\ (d * k) \div d = k
    BY ONLY <2>2, <2>3, <2>4, k \in Nat
  <2> QED BY <1>2, <2>1, <2>4, <2>5
<1>6. g \in [S -> Nat \ {0}]
  <2>1. g = [q \in S |-> g[q]]
    BY <1>2
  <2> QED BY <1>5, <2>1
<1> QED BY <1>4, <1>5, <1>6

\* The configuration of a server has queues, with priorities above 0.
LEMMA ConfigFact ==
    ASSUME NEW cfg, IsFiniteSet(DOMAIN cfg), cfg \in [DOMAIN cfg -> Int],
           NEW f, f = QueueConfig(cfg), NEW S, S = DOMAIN f
    PROVE  IsFiniteSet(S) /\ S # {} /\ f \in [S -> Nat \ {0}]
<1>1. PICK valid : valid = {q \in DOMAIN cfg : q # Blank /\ cfg[q] > 0}
  OBVIOUS
<1>2. CASE valid = {}
  <2>1. f = [q \in {DefaultQueue} |-> 1]
    BY <1>1, <1>2 DEF QueueConfig
  <2>2. S = {DefaultQueue}
    BY <2>1
  <2>3. IsFiniteSet(S) /\ S # {}
    BY <2>2, FS_Singleton
  <2>4. f \in [S -> Nat \ {0}]
    BY <2>1, <2>2
  <2> QED BY <2>3, <2>4
<1>3. CASE valid # {}
  <2>1. f = [q \in valid |-> cfg[q]]
    BY <1>1, <1>3 DEF QueueConfig
  <2>2. S = valid /\ valid \in SUBSET DOMAIN cfg
    BY <1>1, <2>1
  <2>3. IsFiniteSet(S)
    BY <2>2, FS_Subset
  <2>4. \A q \in valid : cfg[q] \in Nat \ {0}
    BY <1>1
  <2>5. f \in [S -> Nat \ {0}]
    BY <2>1, <2>2, <2>4
  <2> QED BY <1>3, <2>2, <2>3, <2>5
<1> QED BY <1>2, <1>3

\* Each queue keeps its share of the priorities.
LEMMA Shares == SharesKept
<1> SUFFICES ASSUME NEW cfg \in Configs, NEW f, NEW names, NEW q \in DOMAIN f,
                    f = QueueConfig(cfg), names = Names(NormalizeQueues(f))
             PROVE  Cardinality({i \in DOMAIN names : names[i] = q}) * SumFunction(f)
                      = f[q] * Len(names)
  BY DEF SharesKept
<1>1. PICK S, g : S = DOMAIN f /\ g = NormalizeQueues(f)
  OBVIOUS
<1>2. IsFiniteSet(S) /\ S # {} /\ f \in [S -> Nat \ {0}]
  <2>1. IsFiniteSet(DOMAIN cfg) /\ cfg \in [DOMAIN cfg -> Int] /\ f = QueueConfig(cfg)
    BY QueuesAssumption
  <2> QED BY ONLY <1>1, <2>1, ConfigFact
<1>3. g \in [S -> Nat \ {0}] /\ \E d \in Nat : \A x \in S : f[x] = d * g[x]
  BY <1>1, <1>2, Normalized
<1>4. PICK d \in Nat : \A x \in S : f[x] = d * g[x]
  BY <1>3
<1>5. names \in Seq(S) /\ \A x \in S : Times(names, x) = g[x]
  <2>1. names = Names(g)
    BY <1>1
  <2>2. Spells(names, S, g)
    BY ONLY <1>2, <1>3, <2>1, NamesTimes
  <2> QED BY <2>2 DEF Spells
<1>6. f \in [S -> Nat] /\ g \in [S -> Nat]
  BY <1>2, <1>3
<1>7. Len(names) = SumFunction(g)
  BY <1>2, <1>5, <1>6, LengthIsSum
<1>8. SumFunction(f) = d * SumFunction(g) /\ SumFunction(g) \in Nat
  BY <1>2, <1>4, <1>6, SumTimes
<1>9. PICK a, sum : a = g[q] /\ sum = SumFunction(g)
  OBVIOUS
<1>10. q \in S /\ a \in Nat /\ sum \in Nat /\ f[q] = d * a
  BY <1>1, <1>4, <1>6, <1>8, <1>9
<1>11. Cardinality({i \in DOMAIN names : names[i] = q}) = a
  BY <1>5, <1>9, <1>10 DEF Times
<1>12. a * (d * sum) = (d * a) * sum
  BY ONLY <1>10, d \in Nat
<1> QED BY <1>7, <1>8, <1>9, <1>10, <1>11, <1>12

\* Queues and handlers are treated as they were configured, for any configuration: a
\* shuffle of the names puts a queue first by its share of the priorities, also after
\* they are divided by their gcd (processor.go, queues and gcd), and a task goes
\* to the longest pattern, in whatever order the handlers are registered (servemux.go).
THEOREM ConfigTheorem == ConfigHonoured
BY Shares, Routes DEF ConfigHonoured

=============================================================================
