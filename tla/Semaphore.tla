----------------------------- MODULE Semaphore -----------------------------
(***************************************************************************)
(* x/rate: a counting semaphore in Redis that handlers of any number of    *)
(* servers share.  A token is a member of one zset, named after the TASK   *)
(* and scored with the deadline of its context in whole seconds.           *)
(*                                                                         *)
(* A task may be executed again while an earlier execution, whose context  *)
(* is done, has not returned yet; both use the task's one token.  The      *)
(* clock counts parts of a second, so that what is cut off counts.         *)
(***************************************************************************)
EXTENDS Integers, FiniteSets

CONSTANTS
    Task,           \* task IDs
    Exec,           \* executions of their handler
    TaskOf,         \* the task of each execution
    MaxTokens,      \* Semaphore.maxTokens
    Timeout,        \* possible timeouts of a task, in ticks
    Second,         \* ticks in a second
    MaxClock,       \* bound on the clock
    Nil

ASSUME SemaphoreAssumption ==
    /\ IsFiniteSet(Task)
    /\ TaskOf \in [Exec -> Task]
    /\ MaxTokens \in Nat \ {0}
    /\ Timeout \subseteq Nat \ {0}
    /\ Second \in Nat \ {0}
    /\ MaxClock \in Nat
    /\ Nil \notin Int

VARIABLES
    clock,          \* in ticks
    tokens,         \* asynq:sema:<scope>
    exec            \* the handler of each execution

semaVars == <<clock, tokens, exec>>

-----------------------------------------------------------------------------
Phase == {"new", "running", "holding", "abandoned", "ended"}

SemaTypeOK ==
    /\ clock \in Nat
    /\ tokens \in [Task -> Nat \cup {Nil}]
    /\ exec \in [Exec -> [phase: Phase, deadline: Nat, ctx: {"live", "canceled"}]]

NoCtx(phase) == [phase |-> phase, deadline |-> 0, ctx |-> "live"]

\* time.Time.Unix
Unix(t) == t \div Second

\* ctx.Done: its deadline is over, or the worker called cancel (its lease
\* expired, the task was canceled, or the server shut down).
CtxDone(e) == exec[e].ctx = "canceled" \/ clock >= exec[e].deadline

\* The worker of e is still in the select of processor.exec.
Live(e) == exec[e].phase \in {"running", "holding"} /\ ~CtxDone(e)

Taken(z) == {t \in Task : z[t] # Nil}

SemaInit ==
    /\ clock = 0
    /\ tokens = [t \in Task |-> Nil]
    /\ exec = [e \in Exec |-> NoCtx("new")]

-----------------------------------------------------------------------------
\* A worker starts the handler.  A task is executed again only when the worker
\* of its last execution has left the select of exec: with the handler's result,
\* or because its context is done, and the handler may go on.
Begin(e) ==
    /\ exec[e].phase = "new"
    /\ \A f \in Exec : TaskOf[f] = TaskOf[e] => ~Live(f)
    /\ \E d \in Timeout :
         exec' = [exec EXCEPT ![e] = [NoCtx("running") EXCEPT !.deadline = clock + d]]
    /\ UNCHANGED <<clock, tokens>>

\* Mutant: the range includes the second of the clock.
KeptStrict(z) == [t \in Task |-> IF z[t] # Nil /\ z[t] <= Unix(clock) THEN Nil ELSE z[t]]

\* ZREMRANGEBYSCORE -inf now-1
Kept(z) == [t \in Task |-> IF z[t] # Nil /\ z[t] <= Unix(clock) - 1 THEN Nil ELSE z[t]]

\* The handler goes on, or returns and its context is forgotten.
Enter(e, phase) == exec' = [exec EXCEPT ![e].phase = phase]
Return(e, phase) == exec' = [exec EXCEPT ![e] = NoCtx(phase)]

\* Mutant: a token is added before the count is looked at.
TakeThenCount(e) ==
    LET z == [Kept(tokens) EXCEPT ![TaskOf[e]] = Unix(exec[e].deadline)] IN
    /\ exec[e].phase = "running"
    /\ ~CtxDone(e)
    /\ tokens' = z
    /\ IF Cardinality(Taken(z)) <= MaxTokens THEN Enter(e, "holding") ELSE Return(e, "ended")
    /\ UNCHANGED clock

\* acquireCmd.  When its reply is lost, the handler returns the error and the
\* token is nobody's.
Acquire(e) ==
    /\ exec[e].phase = "running"
    /\ ~CtxDone(e)
    /\ IF Cardinality(Taken(Kept(tokens))) < MaxTokens
       THEN /\ tokens' = [Kept(tokens) EXCEPT ![TaskOf[e]] = Unix(exec[e].deadline)]
            /\ Enter(e, "holding") \/ Enter(e, "abandoned")
       ELSE /\ tokens' = Kept(tokens)
            /\ Return(e, "ended")
    /\ UNCHANGED clock

\* A call with a context that is done returns its error and sends nothing.
AcquireFails(e) ==
    /\ exec[e].phase = "running"
    /\ CtxDone(e)
    /\ Return(e, "ended")
    /\ UNCHANGED <<clock, tokens>>

\* Mutant: the token is removed with a context of its own.
ReleaseDetached(e) ==
    /\ exec[e].phase = "holding"
    /\ tokens' = [tokens EXCEPT ![TaskOf[e]] = Nil]
    /\ Return(e, "ended")
    /\ UNCHANGED clock

\* ZREM; no token is an error that the deferred call ignores.
Release(e) ==
    /\ exec[e].phase = "holding"
    /\ ~CtxDone(e)
    /\ tokens' = [tokens EXCEPT ![TaskOf[e]] = Nil]
    /\ Return(e, "ended")
    /\ UNCHANGED clock

\* The token stays: Release has a context that is done, its call failed, or the
\* process died.
Abandon(e) ==
    /\ exec[e].phase = "holding"
    /\ Enter(e, "abandoned")
    /\ UNCHANGED <<clock, tokens>>

Cancel(e) ==
    /\ Live(e)
    /\ exec' = [exec EXCEPT ![e].ctx = "canceled"]
    /\ UNCHANGED <<clock, tokens>>

Tick ==
    /\ clock < MaxClock
    /\ clock' = clock + 1
    /\ UNCHANGED <<tokens, exec>>

SemaNext ==
    \/ \E e \in Exec :
         \/ Begin(e) \/ Acquire(e) \/ AcquireFails(e)
         \/ Release(e) \/ Abandon(e) \/ Cancel(e)
    \/ Tick

SemaSpec == SemaInit /\ [][SemaNext]_semaVars

-----------------------------------------------------------------------------
(* Properties.                                                              *)

\* Executions whose context still lives and that hold a token.
Holders == {e \in Exec : exec[e].phase = "holding" /\ Live(e)}

\* What Acquire promises: never more than maxTokens handlers work at a time on
\* all servers, although tokens expire, are shared by the executions of a
\* task, and are released by executions that were given up.
HoldersBounded == Cardinality(Holders) <= MaxTokens

\* The token of a handler at work is never taken away: not by the expiry of a
\* deadline cut to whole seconds, nor by another execution of its task.
TokenBacked == \A e \in Holders : tokens[TaskOf[e]] = Unix(exec[e].deadline)

\* A token that blocks others is owed to an execution that took it and did not
\* give it back, and lasts no longer than that one's deadline: a refused
\* Acquire leaves none, and what a dead process leaves is freed by time.
TokenOwned ==
    \A t \in Taken(tokens) : \E e \in Exec :
        /\ TaskOf[e] = t
        /\ exec[e].phase \in {"holding", "abandoned"}
        /\ tokens[t] = Unix(exec[e].deadline)
=============================================================================
