----------------------------- MODULE Lifecycle -----------------------------
(***************************************************************************)
(* The goroutines of one server from Start to the end of Shutdown, and the *)
(* unbuffered channels between them.  A goroutine with a timer is "idle"   *)
(* in its select, "busy" in the work of a case, in its "last" work once it *)
(* received from done, and "ended".  A send waits until its receiver is in *)
(* the select.  What the work does in Redis is the subject of Server.      *)
(***************************************************************************)
EXTENDS Naturals, Sequences, SequencesExt, FiniteSets

CONSTANTS
    Caller,         \* goroutines of the user that call Start, Stop, Shutdown
    Token,          \* tokens of processor.sema, Config.Concurrency
    Unset,          \* components without work: no HealthCheckFunc, no GroupAggregator
    MaxChecks,      \* maxConcurrentAggregationChecks
    MaxTasks        \* bound on the tasks that are dequeued

ASSUME LifecycleAssumption ==
    /\ IsFiniteSet(Token) /\ Token # {}
    /\ Unset \subseteq {"healthchecker", "aggregator"}
    /\ MaxChecks \in Nat \ {0}
    /\ MaxTasks \in Nat

VARIABLES
    state,          \* Server.state
    g,              \* the goroutine of each component
    caller,         \* the call of each caller and how far it is
    once, quit,     \* processor.once, and processor.quit is closed
    abort,          \* processor.abort: "no", its timer "armed", or "closed"
    token,          \* each token: free, or what its holder is doing
    pulled,         \* tasks dequeued
    checks,         \* aggregation checks in flight
    connected       \* the connection of the broker, not shared

lifeVars == <<state, g, caller, once, quit, abort, token, pulled, checks, connected>>

-----------------------------------------------------------------------------
StartOrder == <<"heartbeater", "healthchecker", "subscriber", "syncer", "recoverer",
                "forwarder", "processor", "janitor", "aggregator">>

\* Mutant: the receiver of syncCh ends before its senders.
SyncerFirst == <<"forwarder", "syncer", "processor", "recoverer", "subscriber",
                 "janitor", "aggregator", "healthchecker", "heartbeater">>

ShutdownOrder == <<"forwarder", "processor", "recoverer", "syncer", "subscriber",
                   "janitor", "aggregator", "healthchecker", "heartbeater">>

Component == ToSet(StartOrder)
Running == Component \ Unset
Returned == [op |-> "none", at |-> 0]

LifecycleTypeOK ==
    /\ state \in {"new", "active", "stopped", "closed"}
    /\ g \in [Component -> {"none", "idle", "busy", "last", "ended", "exec", "dequeue", "offer"}]
    /\ \A c \in Component \ {"processor"} : g[c] \notin {"exec", "dequeue", "offer"}
    /\ caller \in [Caller -> [op: {"none", "start", "stop", "shutdown", "drain"},
                              at: 0 .. Len(StartOrder) + 1]]
    /\ once \in {"no", "running", "done"}
    /\ quit \in BOOLEAN
    /\ abort \in {"no", "armed", "closed"}
    /\ token \in [Token -> {"free", "processor", "running", "sync", "finished", "drained"}]
    /\ pulled \in 0 .. MaxTasks
    /\ checks \in 0 .. MaxChecks
    /\ connected \in BOOLEAN

LifecycleInit ==
    /\ state = "new"
    /\ g = [c \in Component |-> "none"]
    /\ caller = [u \in Caller |-> Returned]
    /\ once = "no"
    /\ quit = FALSE
    /\ abort = "no"
    /\ token = [k \in Token |-> "free"]
    /\ pulled = 0
    /\ checks = 0
    /\ connected = TRUE

Become(c, s) == g' = [g EXCEPT ![c] = s]
Hold(k, s) == token' = [token EXCEPT ![k] = s]

-----------------------------------------------------------------------------
(* Start, Stop and Shutdown.  A call in the wrong state returns at once.    *)

Call(u) ==
    /\ caller[u] = Returned
    /\ \/ state = "new" /\ state' = "active"
          /\ caller' = [caller EXCEPT ![u] = [op |-> "start", at |-> 1]]
       \/ state = "active" /\ state' = "stopped"
          /\ caller' = [caller EXCEPT ![u] = [op |-> "stop", at |-> 0]]
       \/ state \in {"active", "stopped"} /\ state' = "closed"
          /\ caller' = [caller EXCEPT ![u] = [op |-> "shutdown", at |-> 1]]
    /\ UNCHANGED <<g, once, quit, abort, token, pulled, checks, connected>>

\* The heartbeater beats and the recoverer recovers before the first select;
\* the subscriber connects.
Launch(u) ==
    /\ caller[u].op = "start"
    /\ LET c == StartOrder[caller[u].at] IN
       Become(c, IF c \in Unset THEN "none"
                 ELSE IF c \in {"heartbeater", "recoverer", "subscriber"} THEN "busy" ELSE "idle")
    /\ caller' = [caller EXCEPT ![u] = IF @.at = Len(StartOrder) THEN Returned
                                      ELSE [op |-> "start", at |-> @.at + 1]]
    /\ UNCHANGED <<state, once, quit, abort, token, pulled, checks, connected>>

\* u is at processor.stop, in Stop or in Shutdown.
AtStop(u) ==
    \/ caller[u].op = "stop"
    \/ caller[u].op = "shutdown" /\ caller[u].at \in DOMAIN ShutdownOrder
       /\ ShutdownOrder[caller[u].at] = "processor"

\* Mutant: quit is not closed.
StopNoQuit(u) ==
    /\ AtStop(u)
    /\ once = "no"
    /\ once' = "running"
    /\ UNCHANGED <<state, g, caller, quit, abort, token, pulled, checks, connected>>

\* once.Do: the first caller closes quit and sends to done; others wait for it.
StopOnce(u) ==
    /\ AtStop(u)
    /\ once = "no"
    /\ once' = "running"
    /\ quit' = TRUE
    /\ UNCHANGED <<state, g, caller, abort, token, pulled, checks, connected>>

\* Mutant: done is buffered, so the send does not wait for the processor.
DoneBuffered ==
    /\ once = "running"
    /\ once' = "done"
    /\ UNCHANGED <<state, g, caller, quit, abort, token, pulled, checks, connected>>

ProcessorDone ==
    /\ once = "running"
    /\ g["processor"] = "idle"
    /\ Become("processor", "ended")
    /\ once' = "done"
    /\ UNCHANGED <<state, caller, quit, abort, token, pulled, checks, connected>>

\* Stop returns; Shutdown sets the timer and goes on to wait for the workers.
StopReturns(u) ==
    /\ AtStop(u)
    /\ once = "done"
    /\ IF caller[u].op = "stop"
       THEN caller' = [caller EXCEPT ![u] = Returned] /\ UNCHANGED abort
       ELSE caller' = [caller EXCEPT ![u].op = "drain"] /\ abort' = "armed"
    /\ UNCHANGED <<state, g, once, quit, token, pulled, checks, connected>>

\* The rest of processor.shutdown: take every token.
Drain(u) ==
    /\ caller[u].op = "drain"
    /\ \/ \E k \in Token : token[k] = "free" /\ Hold(k, "drained") /\ UNCHANGED caller
       \/ /\ \A k \in Token : token[k] = "drained"
          /\ caller' = [caller EXCEPT ![u] = [op |-> "shutdown", at |-> @.at + 1]]
          /\ UNCHANGED token
    /\ UNCHANGED <<state, g, once, quit, abort, pulled, checks, connected>>

\* shutdown of the other components: send to done.
SendDone(u) ==
    /\ caller[u].op = "shutdown"
    /\ caller[u].at \in DOMAIN ShutdownOrder
    /\ LET c == ShutdownOrder[caller[u].at] IN
       /\ c # "processor"
       /\ IF c \in Unset THEN UNCHANGED g ELSE g[c] = "idle" /\ Become(c, "last")
    /\ caller' = [caller EXCEPT ![u].at = @ + 1]
    /\ UNCHANGED <<state, once, quit, abort, token, pulled, checks, connected>>

\* wg.Wait and Close.
Wait(u) ==
    /\ caller[u].op = "shutdown"
    /\ caller[u].at = Len(ShutdownOrder) + 1
    /\ \A c \in Running : g[c] = "ended"
    /\ connected' = FALSE
    /\ caller' = [caller EXCEPT ![u] = Returned]
    /\ UNCHANGED <<state, g, once, quit, abort, token, pulled, checks>>

-----------------------------------------------------------------------------
(* The goroutines with a timer.                                             *)

Timer(c) ==
    /\ c \notin {"processor", "aggregator"}
    /\ g[c] = "idle"
    /\ Become(c, "busy")
    /\ UNCHANGED <<state, caller, once, quit, abort, token, pulled, checks, connected>>

Ready(c) ==
    /\ g[c] = "busy"
    /\ Become(c, "idle")
    /\ UNCHANGED <<state, caller, once, quit, abort, token, pulled, checks, connected>>

\* After the last sync of the syncer and the last write of the heartbeater; the
\* aggregator takes all tokens of its semaphore.
End(c) ==
    /\ g[c] = "last"
    /\ c = "aggregator" => checks = 0
    /\ Become(c, "ended")
    /\ UNCHANGED <<state, caller, once, quit, abort, token, pulled, checks, connected>>

\* aggregator.exec skips a round at the limit.
Check ==
    /\ g["aggregator"] = "idle"
    /\ checks < MaxChecks
    /\ checks' = checks + 1
    /\ UNCHANGED <<state, g, caller, once, quit, abort, token, pulled, connected>>

CheckEnds ==
    /\ checks > 0
    /\ checks' = checks - 1
    /\ UNCHANGED <<state, g, caller, once, quit, abort, token, pulled, connected>>

-----------------------------------------------------------------------------
(* The processor and its workers.                                           *)

\* The select with a default: done is not ready.
Loop ==
    /\ g["processor"] = "idle"
    /\ once # "running"
    /\ Become("processor", "exec")
    /\ UNCHANGED <<state, caller, once, quit, abort, token, pulled, checks, connected>>

Quit ==
    /\ g["processor"] = "exec"
    /\ quit
    /\ Become("processor", "idle")
    /\ UNCHANGED <<state, caller, once, quit, abort, token, pulled, checks, connected>>

Take(k) ==
    /\ g["processor"] = "exec"
    /\ token[k] = "free"
    /\ Become("processor", "dequeue")
    /\ Hold(k, "processor")
    /\ UNCHANGED <<state, caller, once, quit, abort, pulled, checks, connected>>

\* Dequeue: nothing to process or an error, or a task.
Dequeue(k) ==
    /\ g["processor"] = "dequeue"
    /\ token[k] = "processor"
    /\ \/ Become("processor", "idle") /\ Hold(k, "free") /\ UNCHANGED pulled
       \/ /\ pulled < MaxTasks
          /\ pulled' = pulled + 1
          /\ Become("processor", "offer")
          /\ UNCHANGED token
    /\ UNCHANGED <<state, caller, once, quit, abort, checks, connected>>

\* p.starting <-
Offer(k) ==
    /\ g["processor"] = "offer"
    /\ token[k] = "processor"
    /\ g["heartbeater"] = "idle"
    /\ Become("processor", "idle")
    /\ Hold(k, "running")
    /\ UNCHANGED <<state, caller, once, quit, abort, pulled, checks, connected>>

\* The worker has settled its task in Redis, or needs the syncer for it.
Return(k) ==
    /\ token[k] = "running"
    /\ Hold(k, "sync") \/ Hold(k, "finished")
    /\ UNCHANGED <<state, g, caller, once, quit, abort, pulled, checks, connected>>

\* A worker whose handler does not return requeues the task.
Abort(k) ==
    /\ token[k] = "running"
    /\ abort = "closed"
    /\ Hold(k, "finished")
    /\ UNCHANGED <<state, g, caller, once, quit, abort, pulled, checks, connected>>

\* p.syncRequestCh <-
Resync(k) ==
    /\ token[k] = "sync"
    /\ g["syncer"] = "idle"
    /\ Hold(k, "finished")
    /\ UNCHANGED <<state, g, caller, once, quit, abort, pulled, checks, connected>>

\* p.finished <-, and the token is released.
Finish(k) ==
    /\ token[k] = "finished"
    /\ g["heartbeater"] = "idle"
    /\ Hold(k, "free")
    /\ UNCHANGED <<state, g, caller, once, quit, abort, pulled, checks, connected>>

\* time.AfterFunc(p.shutdownTimeout, ...)
ShutdownTimeout ==
    /\ abort = "armed"
    /\ abort' = "closed"
    /\ UNCHANGED <<state, g, caller, once, quit, token, pulled, checks, connected>>

\* Nothing is left to do.
Terminated ==
    /\ state = "closed"
    /\ \A u \in Caller : caller[u] = Returned
    /\ \A c \in Running : g[c] = "ended"
    /\ abort # "armed"
    /\ UNCHANGED lifeVars

-----------------------------------------------------------------------------
CallStep(u) ==
    \/ Launch(u) \/ StopOnce(u) \/ StopReturns(u) \/ Drain(u) \/ SendDone(u) \/ Wait(u)
TokenStep(k) ==
    \/ Take(k) \/ Dequeue(k) \/ Offer(k) \/ Abort(k) \/ Resync(k) \/ Finish(k)

LifecycleNext ==
    \/ \E u \in Caller : Call(u) \/ CallStep(u)
    \/ \E c \in Component : Timer(c) \/ Ready(c) \/ End(c)
    \/ Check \/ CheckEnds
    \/ Loop \/ Quit \/ ProcessorDone
    \/ \E k \in Token : TokenStep(k) \/ Return(k)
    \/ ShutdownTimeout
    \/ Terminated

LifecycleSpec == LifecycleInit /\ [][LifecycleNext]_lifeVars

\* Work ends and goroutines go on; a select that is reached again and again
\* serves each of its ready channels in the end.  No handler has to return.
LifecycleFairSpec ==
    /\ LifecycleSpec
    /\ \A u \in Caller : SF_lifeVars(CallStep(u))
    /\ \A c \in Component : WF_lifeVars(Ready(c)) /\ WF_lifeVars(End(c))
    /\ WF_lifeVars(CheckEnds)
    /\ WF_lifeVars(Quit) /\ WF_lifeVars(ProcessorDone)
    /\ \A k \in Token : SF_lifeVars(TokenStep(k))
    /\ WF_lifeVars(ShutdownTimeout)

-----------------------------------------------------------------------------
(* Properties.                                                              *)

\* "Sender goroutines should be terminated before the receiver goroutines":
\* whoever waits to send has a receiver that will come back to its select.
Receives(c) == g[c] \in {"idle", "busy"}
SenderHasReceiver ==
    /\ \A k \in Token :
        /\ token[k] \in {"processor", "running", "sync", "finished"} => Receives("heartbeater")
        /\ token[k] \in {"processor", "running", "sync"} => Receives("syncer")
    /\ once = "running" => g["processor"] # "ended"

\* The connection is closed when nothing uses it any more.
ClosedLast ==
    ~connected =>
        /\ \A c \in Running : g[c] = "ended"
        /\ \A k \in Token : token[k] = "drained"
        /\ checks = 0

\* Whoever uses a channel or the connection finds its other side there: Shutdown
\* ends the goroutines in an order that leaves nobody behind.
ShutdownOrdered == SenderHasReceiver /\ ClosedLast

\* Once a call of Stop or Shutdown is past processor.stop, no task is dequeued.
NothingPulled == [][once = "done" => pulled' = pulled]_lifeVars

\* Stop and Shutdown return, whatever the other callers do, and although a
\* handler may run for ever.
CallsReturn == \A u \in Caller : caller[u] # Returned ~> caller[u] = Returned
=============================================================================
