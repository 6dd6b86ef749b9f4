-------------------------- MODULE SemaphoreProofs --------------------------
(***************************************************************************)
(* The semaphore keeps its promise for any number of tasks, executions and *)
(* tokens, any timeouts and any resolution of the clock.                   *)
(***************************************************************************)
EXTENDS Semaphore, FiniteSetTheorems, TLAPS

\* Time cut to whole seconds keeps its order.
LEMMA UnixMonotone ==
    ASSUME NEW a \in Nat, NEW b \in Nat, a <= b
    PROVE  Unix(a) \in Nat /\ Unix(b) \in Nat /\ Unix(a) <= Unix(b)
  <1>1. Second \in Nat /\ Second > 0
    BY SemaphoreAssumption
  <1> QED BY <1>1 DEF Unix

\* The executions of a task take turns: at most one has a context that lives.
OneLive ==
    \A e, f \in Exec : Live(e) /\ Live(f) /\ TaskOf[e] = TaskOf[f] => e = f

TokensBounded == Cardinality(Taken(tokens)) <= MaxTokens

\* Inductive: a live holder's token is its own (OneLive), is not expired
\* (TokenBacked), and counts towards the limit (TokensBounded).
SemaInv == SemaTypeOK /\ OneLive /\ TokenBacked /\ TokensBounded

-----------------------------------------------------------------------------
\* There are finitely many tokens.
LEMMA TakenFinite == \A z : IsFiniteSet(Taken(z)) /\ Cardinality(Taken(z)) \in Nat
  <1> SUFFICES ASSUME NEW z PROVE IsFiniteSet(Taken(z)) /\ Cardinality(Taken(z)) \in Nat
    OBVIOUS
  <1>1. Taken(z) \in SUBSET Task
    BY DEF Taken
  <1>2. IsFiniteSet(Taken(z))
    BY <1>1, FS_Subset, SemaphoreAssumption
  <1> QED BY <1>2, FS_CardinalityType

\* ZREMRANGEBYSCORE removes no token of a live holder, and only shrinks the set.
LEMMA KeptFacts ==
    ASSUME SemaTypeOK
    PROVE  /\ Kept(tokens) \in [Task -> Nat \cup {Nil}]
           /\ \A t \in Task : Kept(tokens)[t] \in {tokens[t], Nil}
           /\ \A e \in Exec : Live(e) /\ tokens[TaskOf[e]] = Unix(exec[e].deadline)
                 => Kept(tokens)[TaskOf[e]] = Unix(exec[e].deadline)
           /\ Taken(Kept(tokens)) \subseteq Taken(tokens)
           /\ Cardinality(Taken(Kept(tokens))) <= Cardinality(Taken(tokens))
  <1>1. /\ Kept(tokens) \in [Task -> Nat \cup {Nil}]
        /\ \A t \in Task : Kept(tokens)[t] \in {tokens[t], Nil}
    BY DEF Kept, SemaTypeOK
  <1>2. ASSUME NEW e \in Exec, Live(e), tokens[TaskOf[e]] = Unix(exec[e].deadline)
        PROVE  Kept(tokens)[TaskOf[e]] = Unix(exec[e].deadline)
    <2>1. clock \in Nat /\ exec[e].deadline \in Nat /\ clock <= exec[e].deadline
          /\ TaskOf[e] \in Task
      BY <1>2, SemaphoreAssumption DEF SemaTypeOK, Live, CtxDone
    <2>2. /\ Unix(clock) \in Nat /\ Unix(exec[e].deadline) \in Nat
          /\ Unix(clock) <= Unix(exec[e].deadline)
      BY <2>1, UnixMonotone
    <2> QED BY <1>2, <2>1, <2>2 DEF Kept
  <1>3. Taken(Kept(tokens)) \subseteq Taken(tokens)
    BY <1>1 DEF Taken
  <1>4. Cardinality(Taken(Kept(tokens))) <= Cardinality(Taken(tokens))
    BY <1>3, TakenFinite, FS_Subset
  <1> QED BY <1>1, <1>2, <1>3, <1>4

\* A step after which no execution lives or holds that did not before.
Fewer ==
    \A f \in Exec :
        /\ Live(f)' => Live(f)
        /\ f \in Holders' => f \in Holders /\ exec'[f].deadline = exec[f].deadline

\* Such a step preserves the invariant if it leaves the tokens.
LEMMA FewerInv ==
    ASSUME SemaInv, SemaTypeOK', Fewer, UNCHANGED tokens
    PROVE  SemaInv'
  <1>1. OneLive'
    BY DEF SemaInv, OneLive, Fewer
  <1>2. TokenBacked'
    BY DEF SemaInv, TokenBacked, Fewer, Holders, Unix
  <1>3. TokensBounded'
    BY DEF SemaInv, TokensBounded, Taken
  <1> QED BY <1>1, <1>2, <1>3 DEF SemaInv

\* An execution begins only when its task has none that lives.
LEMMA BeginInv ==
    ASSUME SemaInv, NEW e \in Exec, Begin(e)
    PROVE  SemaInv'
  <1>1. PICK d \in Timeout :
          exec' = [exec EXCEPT ![e] = [NoCtx("running") EXCEPT !.deadline = clock + d]]
    BY DEF Begin
  <1>2. d \in Nat
    BY SemaphoreAssumption
  <1>3. SemaTypeOK'
    BY <1>1, <1>2 DEF Begin, SemaInv, SemaTypeOK, Phase, NoCtx
  <1>4. /\ \A f \in Exec \ {e} : exec'[f] = exec[f] /\ (Live(f)' <=> Live(f))
        /\ exec'[e].phase = "running"
    BY <1>1 DEF Begin, SemaInv, SemaTypeOK, Live, CtxDone, NoCtx
  <1>5. OneLive'
    BY <1>4 DEF Begin, SemaInv, OneLive
  <1>6. TokenBacked'
    <2> SUFFICES ASSUME NEW f \in Exec, f \in Holders'
                 PROVE  tokens'[TaskOf[f]] = Unix(exec'[f].deadline)
      BY DEF TokenBacked, Holders, Unix
    <2>1. f \in Holders /\ exec'[f] = exec[f] /\ tokens' = tokens
      BY <1>4 DEF Begin, Holders
    <2> QED BY <2>1 DEF SemaInv, TokenBacked
  <1>7. TokensBounded'
    BY DEF Begin, SemaInv, TokensBounded, Taken
  <1> QED BY <1>3, <1>5, <1>6, <1>7 DEF SemaInv

\* The only step that adds a token.
LEMMA AcquireInv ==
    ASSUME SemaInv, NEW e \in Exec, Acquire(e)
    PROVE  SemaInv'
  <1>t. SemaTypeOK
    BY DEF SemaInv
  <1>1. /\ clock' = clock
        /\ Live(e) /\ e \notin Holders /\ TaskOf[e] \in Task
        /\ exec[e].deadline \in Nat /\ Unix(exec[e].deadline) \in Nat
    BY <1>t, SemaphoreAssumption, UnixMonotone DEF Acquire, Live, Holders, SemaTypeOK
  <1>2. /\ exec' \in [Exec -> [phase: Phase, deadline: Nat, ctx: {"live", "canceled"}]]
        /\ \A f \in Exec \ {e} : exec'[f] = exec[f] /\ (Live(f)' <=> Live(f))
    <2>1. /\ \A f \in Exec \ {e} : exec'[f] = exec[f]
          /\ exec'[e] \in [phase: Phase, deadline: Nat, ctx: {"live", "canceled"}]
          /\ exec' = [exec EXCEPT ![e] = exec'[e]]
      BY <1>t DEF Acquire, Enter, Return, NoCtx, SemaTypeOK, Phase
    <2>2. \A f \in Exec \ {e} : Live(f)' <=> Live(f)
      BY <1>1, <2>1 DEF Live, CtxDone
    <2> QED BY <1>t, <2>1, <2>2 DEF SemaTypeOK
  <1>3. OneLive'
    BY <1>1, <1>2 DEF SemaInv, OneLive
  <1>4. \A f \in Holders : f # e => TaskOf[f] # TaskOf[e]
    BY <1>1 DEF SemaInv, OneLive, Holders
  <1>5. CASE Cardinality(Taken(Kept(tokens))) < MaxTokens
    <2>1. tokens' = [Kept(tokens) EXCEPT ![TaskOf[e]] = Unix(exec[e].deadline)]
      BY <1>5 DEF Acquire
    <2>2. SemaTypeOK'
      BY <1>t, <1>1, <1>2, <2>1, KeptFacts DEF SemaTypeOK
    <2>3. exec'[e].deadline = exec[e].deadline
      BY <1>t, <1>5 DEF Acquire, Enter, SemaTypeOK
    <2>4. TokenBacked'
      <3> SUFFICES ASSUME NEW f \in Exec, f \in Holders'
                   PROVE  tokens'[TaskOf[f]] = Unix(exec'[f].deadline)
        BY DEF TokenBacked, Holders, Unix
      <3>1. CASE f = e
        BY <3>1, <1>1, <1>t, <2>1, <2>3, KeptFacts
      <3>2. CASE f # e
        <4>1. f \in Holders /\ Live(f) /\ exec'[f] = exec[f] /\ TaskOf[f] # TaskOf[e]
          BY <1>2, <1>4, <3>2 DEF Holders
        <4>2. Kept(tokens)[TaskOf[f]] = Unix(exec[f].deadline)
          BY <4>1, <1>t, KeptFacts DEF SemaInv, TokenBacked
        <4>3. TaskOf[f] \in Task
          BY SemaphoreAssumption
        <4> QED BY <4>1, <4>2, <4>3, <1>t, <2>1, KeptFacts
      <3> QED BY <3>1, <3>2
    <2>5. TokensBounded'
      <3>1. Taken(tokens') \in SUBSET (Taken(Kept(tokens)) \cup {TaskOf[e]})
        <4>1. Kept(tokens) \in [Task -> Nat \cup {Nil}]
          BY <1>t, KeptFacts
        <4>2. \A t \in Task \ {TaskOf[e]} : tokens'[t] = Kept(tokens)[t]
          BY <2>1, <4>1
        <4> QED BY <4>2 DEF Taken
      <3>2. /\ IsFiniteSet(Taken(Kept(tokens)) \cup {TaskOf[e]})
            /\ Cardinality(Taken(Kept(tokens)) \cup {TaskOf[e]})
                 <= Cardinality(Taken(Kept(tokens))) + 1
        <4> DEFINE S == Taken(Kept(tokens))
        <4>1. IsFiniteSet(S) /\ Cardinality(S) \in Nat
          BY TakenFinite
        <4> HIDE DEF S
        <4>2. /\ IsFiniteSet(S \cup {TaskOf[e]})
              /\ Cardinality(S \cup {TaskOf[e]}) <= Cardinality(S) + 1
          BY <4>1, FS_AddElement
        <4> QED BY <4>2 DEF S
      <3>3. Cardinality(Taken(tokens')) <= Cardinality(Taken(Kept(tokens)) \cup {TaskOf[e]})
        BY <3>1, <3>2, FS_Subset
      <3>4. Cardinality(Taken(Kept(tokens)) \cup {TaskOf[e]}) \in Nat
        BY <3>2, FS_CardinalityType
      <3>5. /\ Cardinality(Taken(tokens')) \in Nat
            /\ Cardinality(Taken(Kept(tokens))) \in Nat
        BY TakenFinite
      <3>6. Cardinality(Taken(tokens')) <= MaxTokens
        BY <1>5, <3>2, <3>3, <3>4, <3>5, SemaphoreAssumption
      <3> QED BY <3>6 DEF TokensBounded, Taken
    <2> QED BY <1>3, <2>2, <2>4, <2>5 DEF SemaInv
  <1>6. CASE ~(Cardinality(Taken(Kept(tokens))) < MaxTokens)
    <2>1. tokens' = Kept(tokens) /\ exec'[e].phase = "ended"
      BY <1>6, <1>t DEF Acquire, Return, NoCtx, SemaTypeOK
    <2>2. SemaTypeOK'
      BY <1>t, <1>1, <1>2, <2>1, KeptFacts DEF SemaTypeOK
    <2>3. TokenBacked'
      <3> SUFFICES ASSUME NEW f \in Exec, f \in Holders'
                   PROVE  tokens'[TaskOf[f]] = Unix(exec'[f].deadline)
        BY DEF TokenBacked, Holders, Unix
      <3>1. f \in Holders /\ Live(f) /\ exec'[f] = exec[f]
        BY <1>2, <2>1 DEF Holders
      <3> QED BY <1>t, <2>1, <3>1, KeptFacts DEF SemaInv, TokenBacked
    <2>4. TokensBounded'
      <3>1. /\ Cardinality(Taken(Kept(tokens))) <= Cardinality(Taken(tokens))
            /\ Cardinality(Taken(Kept(tokens))) \in Nat
            /\ Cardinality(Taken(tokens)) \in Nat
        BY <1>t, KeptFacts, TakenFinite
      <3>2. Cardinality(Taken(tokens')) <= MaxTokens
        BY <2>1, <3>1, SemaphoreAssumption DEF SemaInv, TokensBounded
      <3> QED BY <3>2 DEF TokensBounded, Taken
    <2> QED BY <1>3, <2>2, <2>3, <2>4 DEF SemaInv
  <1> QED BY <1>5, <1>6

\* The only step that takes a token away from a context that lives: its own.
LEMMA ReleaseInv ==
    ASSUME SemaInv, NEW e \in Exec, Release(e)
    PROVE  SemaInv'
  <1>t. SemaTypeOK
    BY DEF SemaInv
  <1>1. /\ clock' = clock /\ Live(e) /\ TaskOf[e] \in Task
        /\ tokens' = [tokens EXCEPT ![TaskOf[e]] = Nil]
        /\ \A f \in Exec \ {e} : exec'[f] = exec[f] /\ (Live(f)' <=> Live(f))
        /\ exec'[e].phase = "ended"
    BY <1>t, SemaphoreAssumption DEF Release, Return, NoCtx, Live, CtxDone, SemaTypeOK
  <1>2. SemaTypeOK'
    BY <1>t, <1>1 DEF Release, Return, NoCtx, SemaTypeOK, Phase
  <1>3. OneLive'
    BY <1>1 DEF SemaInv, OneLive, Live
  <1>4. TokenBacked'
    <2> SUFFICES ASSUME NEW f \in Exec, f \in Holders'
                 PROVE  tokens'[TaskOf[f]] = Unix(exec'[f].deadline)
      BY DEF TokenBacked, Holders, Unix
    <2>1. f # e /\ f \in Holders /\ Live(f) /\ exec'[f] = exec[f]
      BY <1>1 DEF Holders
    <2>2. TaskOf[f] # TaskOf[e] /\ TaskOf[f] \in Task
      BY <1>1, <2>1, SemaphoreAssumption DEF SemaInv, OneLive
    <2> QED BY <1>t, <1>1, <2>1, <2>2 DEF SemaInv, TokenBacked, SemaTypeOK
  <1>5. TokensBounded'
    <2>1. Taken(tokens') \in SUBSET Taken(tokens)
      BY <1>1, <1>t DEF Taken, SemaTypeOK
    <2>2. Cardinality(Taken(tokens')) <= Cardinality(Taken(tokens))
      BY <2>1, TakenFinite, FS_Subset
    <2>3. Cardinality(Taken(tokens')) <= MaxTokens
      BY <2>2, TakenFinite, SemaphoreAssumption DEF SemaInv, TokensBounded
    <2> QED BY <2>3 DEF TokensBounded, Taken
  <1> QED BY <1>2, <1>3, <1>4, <1>5 DEF SemaInv

\* The steps that only end executions.
LEMMA EndInv ==
    ASSUME SemaInv,
           \/ \E e \in Exec : AcquireFails(e) \/ Abandon(e) \/ Cancel(e)
           \/ Tick
    PROVE  SemaInv'
  <1>t. SemaTypeOK
    BY DEF SemaInv
  <1>1. ASSUME NEW e \in Exec, AcquireFails(e) \/ Abandon(e) \/ Cancel(e)
        PROVE  SemaTypeOK' /\ Fewer /\ UNCHANGED tokens
    <2>1. /\ UNCHANGED <<clock, tokens>>
          /\ \A f \in Exec \ {e} : exec'[f] = exec[f]
          /\ \/ exec'[e] = NoCtx("ended")
             \/ exec'[e] = [exec[e] EXCEPT !.phase = "abandoned"]
             \/ exec'[e] = [exec[e] EXCEPT !.ctx = "canceled"]
          /\ exec' = [exec EXCEPT ![e] = exec'[e]]
      BY <1>t, <1>1 DEF AcquireFails, Abandon, Cancel, Enter, Return, SemaTypeOK
    <2>2. exec'[e] \in [phase: Phase, deadline: Nat, ctx: {"live", "canceled"}]
      BY <1>t, <2>1 DEF SemaTypeOK, NoCtx, Phase
    <2>3. SemaTypeOK'
      BY <1>t, <2>1, <2>2 DEF SemaTypeOK
    <2>4. ~Live(e)'
      BY <1>t, <2>1 DEF Live, CtxDone, NoCtx, SemaTypeOK
    <2>5. \A f \in Exec \ {e} : Live(f)' <=> Live(f)
      BY <2>1 DEF Live, CtxDone
    <2> QED BY <2>1, <2>3, <2>4, <2>5 DEF Fewer, Holders
  <1>2. ASSUME Tick
        PROVE  SemaTypeOK' /\ Fewer /\ UNCHANGED tokens
    BY <1>t, <1>2 DEF Tick, Live, CtxDone, Holders, Fewer, SemaTypeOK
  <1> QED BY <1>1, <1>2, FewerInv

\* The invariant holds throughout.
LEMMA Inductive == SemaSpec => []SemaInv
  <1>1. SemaInit => SemaInv
    <2> SUFFICES ASSUME SemaInit PROVE SemaInv
      OBVIOUS
    <2>1. SemaTypeOK /\ OneLive /\ TokenBacked
      BY DEF SemaInit, SemaTypeOK, OneLive, TokenBacked, Holders, Live, NoCtx, Phase
    <2>2. Taken(tokens) = {}
      BY DEF SemaInit, Taken
    <2> QED BY <2>1, <2>2, FS_EmptySet, SemaphoreAssumption DEF SemaInv, TokensBounded
  <1>2. SemaInv /\ [SemaNext]_semaVars => SemaInv'
    <2> SUFFICES ASSUME SemaInv, [SemaNext]_semaVars PROVE SemaInv'
      OBVIOUS
    <2>1. ASSUME NEW e \in Exec, Begin(e) PROVE SemaInv'
      BY <2>1, BeginInv
    <2>2. ASSUME NEW e \in Exec, Acquire(e) PROVE SemaInv'
      BY <2>2, AcquireInv
    <2>3. ASSUME NEW e \in Exec, Release(e) PROVE SemaInv'
      BY <2>3, ReleaseInv
    <2>4. CASE UNCHANGED semaVars
      BY <2>4 DEF semaVars, SemaInv, SemaTypeOK, OneLive, TokenBacked, TokensBounded,
                  Taken, Holders, Live, CtxDone, Unix
    <2> QED BY <2>1, <2>2, <2>3, <2>4, EndInv DEF SemaNext
  <1> QED BY <1>1, <1>2, PTL DEF SemaSpec

\* The token of a handler at work is never taken away, by expiry or by another
\* execution of its task.
THEOREM TokenSafety == SemaSpec => []TokenBacked
  BY Inductive, PTL DEF SemaInv

\* Never more than maxTokens handlers work at a time: they belong to different
\* tasks, whose tokens are all counted.
THEOREM HolderSafety == SemaSpec => []HoldersBounded
  <1>1. SemaInv => HoldersBounded
    <2> SUFFICES ASSUME SemaInv PROVE HoldersBounded
      OBVIOUS
    <2> DEFINE f == [e \in Holders |-> TaskOf[e]]
    <2>1. \A e \in Holders : TaskOf[e] \in Taken(tokens)
      <3> SUFFICES ASSUME NEW e \in Holders PROVE TaskOf[e] \in Taken(tokens)
        OBVIOUS
      <3>1. e \in Exec /\ exec[e].deadline \in Nat /\ TaskOf[e] \in Task
        BY SemaphoreAssumption DEF Holders, SemaInv, SemaTypeOK
      <3>2. Unix(exec[e].deadline) \in Nat
        BY <3>1, UnixMonotone
      <3> QED BY <3>1, <3>2, SemaphoreAssumption DEF SemaInv, TokenBacked, Taken
    <2>2. \A d, e \in Holders : TaskOf[d] = TaskOf[e] => d = e
      BY DEF SemaInv, OneLive, Holders
    <2>3. f \in Injection(Holders, Taken(tokens))
      BY <2>1, <2>2 DEF Injection, IsInjective
    <2>4. IsFiniteSet(Holders) /\ Cardinality(Holders) <= Cardinality(Taken(tokens))
      BY <2>3, TakenFinite, FS_Injection
    <2>5. Cardinality(Holders) \in Nat
      BY <2>4, FS_CardinalityType
    <2> QED BY <2>4, <2>5, TakenFinite, SemaphoreAssumption
            DEF SemaInv, TokensBounded, HoldersBounded
  <1> QED BY <1>1, Inductive, PTL

\* Execution e answers for the token of its task.
Owes(e) ==
    /\ exec[e].phase \in {"holding", "abandoned"}
    /\ tokens[TaskOf[e]] = Unix(exec[e].deadline)

\* A token that blocks others is owed to an execution that took it and did not
\* give it back, and lasts no longer than that one's deadline.
THEOREM OwnedSafety == SemaSpec => []TokenOwned
  <1>1. SemaInit => TokenOwned
    BY DEF SemaInit, TokenOwned, Taken
  <1>2. SemaInv /\ TokenOwned /\ [SemaNext]_semaVars => TokenOwned'
    <2> SUFFICES ASSUME SemaInv, TokenOwned, [SemaNext]_semaVars, NEW t \in Taken(tokens')
                 PROVE  \E e \in Exec : TaskOf[e] = t /\ Owes(e)'
      BY DEF TokenOwned, Taken, Owes, Unix
    <2>t. SemaTypeOK /\ t \in Task /\ tokens'[t] # Nil
      BY DEF SemaInv, Taken
    <2>1. ASSUME tokens'[t] = tokens[t],
                 \A e \in Exec : exec[e].phase \in {"holding", "abandoned"} /\ TaskOf[e] = t
                    => /\ exec'[e].phase \in {"holding", "abandoned"}
                       /\ exec'[e].deadline = exec[e].deadline
          PROVE  \E e \in Exec : TaskOf[e] = t /\ Owes(e)'
      <3>1. PICK e \in Exec : TaskOf[e] = t /\ Owes(e)
        BY <2>t, <2>1 DEF TokenOwned, Taken, Owes
      <3>2. Owes(e)'
        BY <2>1, <3>1 DEF Owes, Unix
      <3> QED BY <3>1, <3>2
    <2>2. ASSUME NEW e \in Exec, Acquire(e)
          PROVE  \E f \in Exec : TaskOf[f] = t /\ Owes(f)'
      <3>1. TaskOf[e] \in Task /\ Kept(tokens) \in [Task -> Nat \cup {Nil}]
            /\ \A u \in Task : Kept(tokens)[u] \in {tokens[u], Nil}
        BY <2>t, KeptFacts, SemaphoreAssumption
      <3>2. CASE /\ tokens' = [Kept(tokens) EXCEPT ![TaskOf[e]] = Unix(exec[e].deadline)]
                 /\ Enter(e, "holding") \/ Enter(e, "abandoned")
        <4>1. CASE t = TaskOf[e]
          <5>1. Owes(e)'
            BY <2>t, <3>1, <3>2, <4>1 DEF Enter, Owes, SemaTypeOK, Unix
          <5> QED BY <4>1, <5>1
        <4>2. CASE t # TaskOf[e]
          <5>1. tokens'[t] = tokens[t]
            BY <2>t, <3>1, <3>2, <4>2
          <5> QED BY <2>t, <2>1, <3>2, <4>2, <5>1 DEF Enter, SemaTypeOK
        <4> QED BY <4>1, <4>2
      <3>3. CASE tokens' = Kept(tokens) /\ Return(e, "ended")
        <4>1. tokens'[t] = tokens[t] /\ exec[e].phase = "running"
          BY <2>t, <2>2, <3>1, <3>3 DEF Acquire
        <4> QED BY <2>t, <2>1, <3>3, <4>1 DEF Return, SemaTypeOK
      <3> QED BY <2>2, <3>2, <3>3 DEF Acquire
    <2>3. ASSUME NEW e \in Exec, Release(e)
          PROVE  \E f \in Exec : TaskOf[f] = t /\ Owes(f)'
      <3>1. t # TaskOf[e] /\ tokens'[t] = tokens[t]
        BY <2>t, <2>3, SemaphoreAssumption DEF Release, SemaTypeOK
      <3> QED BY <2>t, <2>1, <2>3, <3>1 DEF Release, Return, SemaTypeOK
    <2>4. ASSUME NEW e \in Exec, Begin(e) \/ AcquireFails(e) \/ Abandon(e) \/ Cancel(e)
          PROVE  \E f \in Exec : TaskOf[f] = t /\ Owes(f)'
      <3>1. tokens' = tokens
        BY <2>4 DEF Begin, AcquireFails, Abandon, Cancel
      <3>2. CASE Begin(e)
        BY <2>t, <2>1, <3>1, <3>2 DEF Begin, SemaTypeOK
      <3>3. CASE AcquireFails(e) \/ Abandon(e) \/ Cancel(e)
        BY <2>t, <2>1, <3>1, <3>3 DEF AcquireFails, Abandon, Cancel, Enter, Return, SemaTypeOK
      <3> QED BY <2>4, <3>2, <3>3
    <2>5. CASE UNCHANGED <<tokens, exec>>
      BY <2>1, <2>5
    <2> QED BY <2>2, <2>3, <2>4, <2>5 DEF SemaNext, Tick, semaVars
  <1> QED BY <1>1, <1>2, Inductive, PTL DEF SemaSpec

=============================================================================
