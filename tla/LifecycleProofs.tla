-------------------------- MODULE LifecycleProofs --------------------------
(***************************************************************************)
(* Shutdown ends the goroutines of a server in an order that leaves nobody *)
(* behind, for any number of callers, workers, checks and tasks.           *)
(***************************************************************************)
EXTENDS Lifecycle, TLAPS

\* Over: the goroutine received from done.
Over == {"last", "ended"}
Stopping(u) == caller[u].op \in {"shutdown", "drain"}

\* Start and Shutdown are called once each, and a call is where its kind can be.
CallsOK ==
    /\ \A u \in Caller :
        /\ caller[u].op = "start" => caller[u].at \in 1 .. 9 /\ state # "new"
        /\ caller[u].op = "shutdown" => caller[u].at \in 1 .. 10 /\ state = "closed"
        /\ caller[u].op = "drain" => caller[u].at = 2 /\ state = "closed"
    /\ \A u, v \in Caller :
        /\ caller[u].op = "start" /\ caller[v].op = "start" => u = v
        /\ Stopping(u) /\ Stopping(v) => u = v

\* The components up to the position of Start have a goroutine, the others none.
Launched ==
    /\ state = "new" => \A c \in Component : g[c] = "none"
    /\ \A c \in Unset : g[c] = "none"
    /\ \A u \in Caller : caller[u].op = "start" =>
        \A j \in 1 .. 9 : StartOrder[j] \in Unset
            \/ (g[StartOrder[j]] = "none" <=> j >= caller[u].at)
    /\ state # "new" /\ (\A u \in Caller : caller[u].op # "start") =>
        \A c \in Running : g[c] # "none"

\* The components before the position of Shutdown are over, the others are not;
\* those after the processor wait for the workers to give back every token.
Progress(u) ==
    /\ \A j \in 1 .. 9 :
        ShutdownOrder[j] \in Unset \cup {"processor"} \/
            (g[ShutdownOrder[j]] \in Over <=> j < caller[u].at)
    /\ caller[u].op = "shutdown" /\ caller[u].at > 2 =>
        once = "done" /\ \A k \in Token : token[k] = "drained"
    /\ caller[u].op = "drain" => once = "done"
Closing ==
    /\ state # "closed" =>
        /\ \A c \in Component \ {"processor"} : g[c] \notin Over
        /\ \A k \in Token : token[k] # "drained"
    /\ \A u \in Caller : Stopping(u) => Progress(u)
    /\ state = "closed" /\ (\A u \in Caller : ~Stopping(u)) =>
        /\ \A c \in Running : g[c] = "ended"
        /\ \A k \in Token : token[k] = "drained"
    /\ ~connected => state = "closed" /\ \A u \in Caller : ~Stopping(u)

\* What the processor, the workers and the checks have to do with each other.
Working ==
    /\ g["processor"] \notin {"last", "busy"} /\ g["aggregator"] # "busy"
    /\ once = "done" <=> g["processor"] = "ended"
    /\ \A k \in Token :
        /\ token[k] = "processor" => g["processor"] \in {"dequeue", "offer"}
        /\ token[k] \in {"processor", "running", "sync", "finished"} => g["processor"] # "none"
    /\ \A j, k \in Token : token[j] = "processor" /\ token[k] = "processor" => j = k
    /\ checks > 0 => g["aggregator"] \in {"idle", "last"}

\* Inductive: the order of Start gives every sender its receivers (Launched),
\* the order of Shutdown takes none away (Closing).
LifecycleInv == LifecycleTypeOK /\ CallsOK /\ Launched /\ Closing /\ Working

-----------------------------------------------------------------------------
\* The two orders, position by position.
LEMMA Orders ==
    /\ Component = {"heartbeater", "healthchecker", "subscriber", "syncer", "recoverer",
                    "forwarder", "processor", "janitor", "aggregator"}
    /\ Len(StartOrder) = 9 /\ Len(ShutdownOrder) = 9
    /\ DOMAIN ShutdownOrder = 1 .. 9
    /\ \A j \in 1 .. 9 : StartOrder[j] \in Component /\ ShutdownOrder[j] \in Component
    /\ \A i, j \in 1 .. 9 :
        StartOrder[i] = StartOrder[j] \/ ShutdownOrder[i] = ShutdownOrder[j] => i = j
    /\ \A c \in Component : \E j \in 1 .. 9 : StartOrder[j] = c
    /\ \A c \in Component : \E j \in 1 .. 9 : ShutdownOrder[j] = c
    /\ StartOrder[1] = "heartbeater" /\ StartOrder[4] = "syncer" /\ StartOrder[7] = "processor"
    /\ ShutdownOrder[2] = "processor" /\ ShutdownOrder[4] = "syncer"
    /\ ShutdownOrder[9] = "heartbeater"
  BY DEF Component, ToSet, StartOrder, ShutdownOrder
\* Nothing has been called, launched or taken.
LEMMA InitInv == LifecycleInit => LifecycleInv
  <1> SUFFICES ASSUME LifecycleInit PROVE LifecycleInv
    OBVIOUS
  <1> USE Orders, LifecycleAssumption DEF LifecycleInit, Returned
  <1>1. Returned \in [op: {"none", "start", "stop", "shutdown", "drain"},
                        at: 0 .. Len(StartOrder) + 1]
    OBVIOUS
  <1>2. quit \in BOOLEAN /\ connected \in BOOLEAN
    BY Zenon
  <1>t. LifecycleTypeOK
    BY <1>1, <1>2 DEF LifecycleTypeOK
  <1>c. CallsOK /\ Launched
    BY DEF CallsOK, Launched, Stopping
  <1>e. Closing
    BY DEF Closing, Over, Stopping
  <1>w. Working
    BY DEF Working
  <1> QED BY <1>t, <1>c, <1>e, <1>w DEF LifecycleInv

\* Start, Stop and Shutdown set the state first; one caller each gets past it.
LEMMA CallInv ==
    ASSUME LifecycleInv, NEW u \in Caller, Call(u)
    PROVE  LifecycleInv'
  <1> USE Orders, LifecycleAssumption
      DEF LifecycleInv, LifecycleTypeOK, Call, Returned, Stopping
  <1>t. LifecycleTypeOK'
    BY DEF CallsOK
  <1>c. CallsOK'
    BY DEF CallsOK
  <1>l. Launched'
    BY DEF CallsOK, Launched, Running
  <1>e. Closing'
    BY DEF CallsOK, Launched, Closing, Progress, Working, Over, Running
  <1>w. Working'
    BY DEF CallsOK, Launched, Closing, Progress, Working, Over, Running
  <1> QED BY <1>t, <1>c, <1>l, <1>e, <1>w

\* The next goroutine of Start: its component has none yet.
LEMMA LaunchInv ==
    ASSUME LifecycleInv, NEW u \in Caller, Launch(u)
    PROVE  LifecycleInv'
  <1> DEFINE i == caller[u].at
             c == StartOrder[i]
             r == IF i = Len(StartOrder) THEN Returned ELSE [op |-> "start", at |-> i + 1]
  <1> USE Orders, LifecycleAssumption DEF LifecycleInv, LifecycleTypeOK, Returned, Stopping
  <1>1. /\ i \in 1 .. 9 /\ c \in Component /\ caller[u].op = "start" /\ state # "new"
        /\ caller' = [caller EXCEPT ![u] = r]
        /\ UNCHANGED <<state, once, quit, abort, token, pulled, checks, connected>>
    <2>1. i \in 1 .. 9 /\ caller[u].op = "start" /\ state # "new"
      BY DEF CallsOK, Launch
    <2>2. UNCHANGED <<state, once, quit, abort, token, pulled, checks, connected>>
      BY Zenon DEF Launch
    <2>3. caller' = [caller EXCEPT ![u] = r]
      BY DEF Launch
    <2>4. c \in Component
      BY <2>1
    <2> QED BY <2>1, <2>2, <2>3, <2>4
  <1>2. PICK s \in {"none", "busy", "idle"} :
          /\ g' = [g EXCEPT ![c] = s]
          /\ s = "none" <=> c \in Unset
          /\ c \in {"processor", "aggregator"} => s # "busy"
    BY DEF Launch, Become
  <1>3. g[c] = "none"
    BY <1>1 DEF Launched
  <1>4. /\ r \in [op: {"none", "start", "stop", "shutdown", "drain"}, at: 0 .. 10]
        /\ i = 9 => r.op = "none"
        /\ i < 9 => r.op = "start" /\ r.at = i + 1
    BY <1>1
  <1> HIDE DEF i, r, c
  <1>t. LifecycleTypeOK'
    BY <1>1, <1>2, <1>4
  <1>c. CallsOK'
    BY <1>1, <1>4 DEF CallsOK
  <1>l. Launched'
    <2>1. \A d \in Component : g'[d] = IF d = c THEN s ELSE g[d]
      BY <1>1, <1>2
    <2>2. CASE i = 9
      BY <1>1, <1>2, <1>4, <2>1, <2>2 DEF CallsOK, Launched, Running, i, c
    <2>3. CASE i < 9
      BY <1>1, <1>2, <1>4, <2>1, <2>3 DEF CallsOK, Launched, Running, i, c
    <2> QED BY <1>1, <2>2, <2>3
  <1>e. Closing'
    BY <1>1, <1>2, <1>3, <1>4 DEF CallsOK, Closing, Working, Progress, Over, Running
  <1>w. Working'
    BY <1>1, <1>2, <1>3, <1>4 DEF Working
  <1> QED BY <1>t, <1>c, <1>l, <1>e, <1>w

\* once.Do of processor.stop.
LEMMA StopOnceInv ==
    ASSUME LifecycleInv, NEW u \in Caller, StopOnce(u)
    PROVE  LifecycleInv'
  <1> USE Orders, LifecycleAssumption
      DEF LifecycleInv, LifecycleTypeOK, StopOnce, AtStop, Stopping
  <1>t. LifecycleTypeOK'
    BY DEF CallsOK
  <1>c. CallsOK'
    BY DEF CallsOK
  <1>l. Launched'
    BY DEF CallsOK, Launched, Running
  <1>e. Closing'
    BY DEF CallsOK, Launched, Closing, Progress, Working, Over, Running
  <1>w. Working'
    BY DEF CallsOK, Launched, Closing, Progress, Working, Over, Running
  <1> QED BY <1>t, <1>c, <1>l, <1>e, <1>w

\* processor.stop returns when the processor's goroutine has ended.
LEMMA StopReturnsInv ==
    ASSUME LifecycleInv, NEW u \in Caller, StopReturns(u)
    PROVE  LifecycleInv'
  <1> USE Orders, LifecycleAssumption
      DEF LifecycleInv, LifecycleTypeOK, StopReturns, Returned, AtStop, Stopping
  <1>t. LifecycleTypeOK'
    BY DEF CallsOK
  <1>c. CallsOK'
    BY DEF CallsOK
  <1>l. Launched'
    BY DEF CallsOK, Launched, Running
  <1>e. Closing'
    BY DEF CallsOK, Launched, Closing, Progress, Working, Over, Running
  <1>w. Working'
    BY DEF CallsOK, Launched, Closing, Progress, Working, Over, Running
  <1> QED BY <1>t, <1>c, <1>l, <1>e, <1>w

\* The last token is taken when no worker is left that needs the syncer or the heartbeater.
LEMMA DrainInv ==
    ASSUME LifecycleInv, NEW u \in Caller, Drain(u)
    PROVE  LifecycleInv'
  <1> USE Orders, LifecycleAssumption
      DEF LifecycleInv, LifecycleTypeOK, Drain, Hold, Stopping
  <1>t. LifecycleTypeOK'
    BY DEF CallsOK
  <1>c. CallsOK'
    BY DEF CallsOK
  <1>l. Launched'
    BY DEF CallsOK, Launched, Running
  <1>e. Closing'
    BY DEF CallsOK, Launched, Closing, Progress, Working, Over, Running
  <1>w. Working'
    BY DEF CallsOK, Launched, Closing, Progress, Working, Over, Running
  <1> QED BY <1>t, <1>c, <1>l, <1>e, <1>w

\* The next component of Shutdown ends; for the recoverer and all after it every token was taken.
LEMMA SendDoneInv ==
    ASSUME LifecycleInv, NEW u \in Caller, SendDone(u)
    PROVE  LifecycleInv'
  <1> USE Orders, LifecycleAssumption
      DEF LifecycleInv, LifecycleTypeOK, SendDone, Become, Stopping
  <1>t. LifecycleTypeOK'
    BY DEF CallsOK
  <1>c. CallsOK'
    BY DEF CallsOK
  <1>l. Launched'
    BY DEF CallsOK, Launched, Running
  <1>e. Closing'
    BY DEF CallsOK, Launched, Closing, Progress, Working, Over, Running
  <1>w. Working'
    BY DEF CallsOK, Launched, Closing, Progress, Working, Over, Running
  <1> QED BY <1>t, <1>c, <1>l, <1>e, <1>w

\* wg.Wait: every goroutine has ended.
LEMMA WaitInv ==
    ASSUME LifecycleInv, NEW u \in Caller, Wait(u)
    PROVE  LifecycleInv'
  <1> USE Orders, LifecycleAssumption
      DEF LifecycleInv, LifecycleTypeOK, Wait, Returned, Stopping
  <1>1. connected' \in BOOLEAN
    BY Zenon
  <1>t. LifecycleTypeOK'
    BY <1>1
  <1>c. CallsOK'
    BY DEF CallsOK
  <1>l. Launched'
    BY DEF CallsOK, Launched, Running
  <1>e. Closing'
    BY DEF CallsOK, Launched, Closing, Progress, Working, Over, Running
  <1>w. Working'
    BY DEF CallsOK, Launched, Closing, Progress, Working, Over, Running
  <1> QED BY <1>t, <1>c, <1>l, <1>e, <1>w

\* A goroutine with a timer goes to work.
LEMMA TimerInv ==
    ASSUME LifecycleInv, NEW c \in Component, Timer(c)
    PROVE  LifecycleInv'
  <1> USE Orders, LifecycleAssumption
      DEF LifecycleInv, LifecycleTypeOK, Timer, Become, Stopping
  <1>t. LifecycleTypeOK'
    BY DEF CallsOK
  <1>c. CallsOK'
    BY DEF CallsOK
  <1>l. Launched'
    BY DEF CallsOK, Launched, Running
  <1>e. Closing'
    BY DEF CallsOK, Launched, Closing, Progress, Working, Over, Running
  <1>w. Working'
    BY DEF CallsOK, Launched, Closing, Progress, Working, Over, Running
  <1> QED BY <1>t, <1>c, <1>l, <1>e, <1>w

\* It comes back to its select.
LEMMA ReadyInv ==
    ASSUME LifecycleInv, NEW c \in Component, Ready(c)
    PROVE  LifecycleInv'
  <1> USE Orders, LifecycleAssumption
      DEF LifecycleInv, LifecycleTypeOK, Ready, Become, Stopping
  <1>t. LifecycleTypeOK'
    BY DEF CallsOK
  <1>c. CallsOK'
    BY DEF CallsOK
  <1>l. Launched'
    BY DEF CallsOK, Launched, Running
  <1>e. Closing'
    BY DEF CallsOK, Launched, Closing, Progress, Working, Over, Running
  <1>w. Working'
    BY DEF CallsOK, Launched, Closing, Progress, Working, Over, Running
  <1> QED BY <1>t, <1>c, <1>l, <1>e, <1>w

\* It ends.
LEMMA EndInv ==
    ASSUME LifecycleInv, NEW c \in Component, End(c)
    PROVE  LifecycleInv'
  <1> USE Orders, LifecycleAssumption
      DEF LifecycleInv, LifecycleTypeOK, End, Become, Stopping
  <1>t. LifecycleTypeOK'
    BY DEF CallsOK
  <1>c. CallsOK'
    BY DEF CallsOK
  <1>l. Launched'
    BY DEF CallsOK, Launched, Running
  <1>e. Closing'
    BY DEF CallsOK, Launched, Closing, Progress, Working, Over, Running
  <1>w. Working'
    BY DEF CallsOK, Launched, Closing, Progress, Working, Over, Running
  <1> QED BY <1>t, <1>c, <1>l, <1>e, <1>w

\* An aggregation check begins.
LEMMA CheckInv ==
    ASSUME LifecycleInv, Check
    PROVE  LifecycleInv'
  <1> USE Orders, LifecycleAssumption
      DEF LifecycleInv, LifecycleTypeOK, Check, Stopping
  <1>t. LifecycleTypeOK'
    BY DEF CallsOK
  <1>c. CallsOK'
    BY DEF CallsOK
  <1>l. Launched'
    BY DEF CallsOK, Launched, Running
  <1>e. Closing'
    BY DEF CallsOK, Launched, Closing, Progress, Working, Over, Running
  <1>w. Working'
    BY DEF CallsOK, Launched, Closing, Progress, Working, Over, Running
  <1> QED BY <1>t, <1>c, <1>l, <1>e, <1>w

\* An aggregation check ends.
LEMMA CheckEndsInv ==
    ASSUME LifecycleInv, CheckEnds
    PROVE  LifecycleInv'
  <1> USE Orders, LifecycleAssumption
      DEF LifecycleInv, LifecycleTypeOK, CheckEnds, Stopping
  <1>t. LifecycleTypeOK'
    BY DEF CallsOK
  <1>c. CallsOK'
    BY DEF CallsOK
  <1>l. Launched'
    BY DEF CallsOK, Launched, Running
  <1>e. Closing'
    BY DEF CallsOK, Launched, Closing, Progress, Working, Over, Running
  <1>w. Working'
    BY DEF CallsOK, Launched, Closing, Progress, Working, Over, Running
  <1> QED BY <1>t, <1>c, <1>l, <1>e, <1>w

\* The processor goes on to exec.
LEMMA LoopInv ==
    ASSUME LifecycleInv, Loop
    PROVE  LifecycleInv'
  <1> USE Orders, LifecycleAssumption
      DEF LifecycleInv, LifecycleTypeOK, Loop, Become, Stopping
  <1>t. LifecycleTypeOK'
    BY DEF CallsOK
  <1>c. CallsOK'
    BY DEF CallsOK
  <1>l. Launched'
    BY DEF CallsOK, Launched, Running
  <1>e. Closing'
    BY DEF CallsOK, Launched, Closing, Progress, Working, Over, Running
  <1>w. Working'
    BY DEF CallsOK, Launched, Closing, Progress, Working, Over, Running
  <1> QED BY <1>t, <1>c, <1>l, <1>e, <1>w

\* It returns from exec without a token.
LEMMA QuitInv ==
    ASSUME LifecycleInv, Quit
    PROVE  LifecycleInv'
  <1> USE Orders, LifecycleAssumption
      DEF LifecycleInv, LifecycleTypeOK, Quit, Become, Stopping
  <1>t. LifecycleTypeOK'
    BY DEF CallsOK
  <1>c. CallsOK'
    BY DEF CallsOK
  <1>l. Launched'
    BY DEF CallsOK, Launched, Running
  <1>e. Closing'
    BY DEF CallsOK, Launched, Closing, Progress, Working, Over, Running
  <1>w. Working'
    BY DEF CallsOK, Launched, Closing, Progress, Working, Over, Running
  <1> QED BY <1>t, <1>c, <1>l, <1>e, <1>w

\* It receives from done, outside exec, so it holds no token.
LEMMA ProcessorDoneInv ==
    ASSUME LifecycleInv, ProcessorDone
    PROVE  LifecycleInv'
  <1> USE Orders, LifecycleAssumption
      DEF LifecycleInv, LifecycleTypeOK, ProcessorDone, Become, Stopping
  <1>t. LifecycleTypeOK'
    BY DEF CallsOK
  <1>c. CallsOK'
    BY DEF CallsOK
  <1>l. Launched'
    BY DEF CallsOK, Launched, Running
  <1>e. Closing'
    BY DEF CallsOK, Launched, Closing, Progress, Working, Over, Running
  <1>w. Working'
    BY DEF CallsOK, Launched, Closing, Progress, Working, Over, Running
  <1> QED BY <1>t, <1>c, <1>l, <1>e, <1>w

\* The shutdown timeout.
LEMMA ShutdownTimeoutInv ==
    ASSUME LifecycleInv, ShutdownTimeout
    PROVE  LifecycleInv'
  <1> USE Orders, LifecycleAssumption
      DEF LifecycleInv, LifecycleTypeOK, ShutdownTimeout, Stopping
  <1>t. LifecycleTypeOK'
    BY DEF CallsOK
  <1>c. CallsOK'
    BY DEF CallsOK
  <1>l. Launched'
    BY DEF CallsOK, Launched, Running
  <1>e. Closing'
    BY DEF CallsOK, Launched, Closing, Progress, Working, Over, Running
  <1>w. Working'
    BY DEF CallsOK, Launched, Closing, Progress, Working, Over, Running
  <1> QED BY <1>t, <1>c, <1>l, <1>e, <1>w

\* The processor takes a token.
LEMMA TakeInv ==
    ASSUME LifecycleInv, NEW k \in Token, Take(k)
    PROVE  LifecycleInv'
  <1> USE Orders, LifecycleAssumption
      DEF LifecycleInv, LifecycleTypeOK, Take, Become, Hold, Stopping
  <1>t. LifecycleTypeOK'
    BY DEF CallsOK
  <1>c. CallsOK'
    BY DEF CallsOK
  <1>l. Launched'
    BY DEF CallsOK, Launched, Running
  <1>e. Closing'
    BY DEF CallsOK, Launched, Closing, Progress, Working, Over, Running
  <1>w. Working'
    BY DEF CallsOK, Launched, Closing, Progress, Working, Over, Running
  <1> QED BY <1>t, <1>c, <1>l, <1>e, <1>w

\* It dequeues a task or gives the token back.
LEMMA DequeueInv ==
    ASSUME LifecycleInv, NEW k \in Token, Dequeue(k)
    PROVE  LifecycleInv'
  <1> USE Orders, LifecycleAssumption
      DEF LifecycleInv, LifecycleTypeOK, Dequeue, Become, Hold, Stopping
  <1>t. LifecycleTypeOK'
    BY DEF CallsOK
  <1>c. CallsOK'
    BY DEF CallsOK
  <1>l. Launched'
    BY DEF CallsOK, Launched, Running
  <1>e. Closing'
    BY DEF CallsOK, Launched, Closing, Progress, Working, Over, Running
  <1>w. Working'
    BY DEF CallsOK, Launched, Closing, Progress, Working, Over, Running
  <1> QED BY <1>t, <1>c, <1>l, <1>e, <1>w

\* It hands the token on to a worker.
LEMMA OfferInv ==
    ASSUME LifecycleInv, NEW k \in Token, Offer(k)
    PROVE  LifecycleInv'
  <1> USE Orders, LifecycleAssumption
      DEF LifecycleInv, LifecycleTypeOK, Offer, Become, Hold, Stopping
  <1>t. LifecycleTypeOK'
    BY DEF CallsOK
  <1>c. CallsOK'
    BY DEF CallsOK
  <1>l. Launched'
    BY DEF CallsOK, Launched, Running
  <1>e. Closing'
    BY DEF CallsOK, Launched, Closing, Progress, Working, Over, Running
  <1>w. Working'
    BY DEF CallsOK, Launched, Closing, Progress, Working, Over, Running
  <1> QED BY <1>t, <1>c, <1>l, <1>e, <1>w

\* A worker is aborted.
LEMMA AbortInv ==
    ASSUME LifecycleInv, NEW k \in Token, Abort(k)
    PROVE  LifecycleInv'
  <1> USE Orders, LifecycleAssumption
      DEF LifecycleInv, LifecycleTypeOK, Abort, Hold, Stopping
  <1>t. LifecycleTypeOK'
    BY DEF CallsOK
  <1>c. CallsOK'
    BY DEF CallsOK
  <1>l. Launched'
    BY DEF CallsOK, Launched, Running
  <1>e. Closing'
    BY DEF CallsOK, Launched, Closing, Progress, Working, Over, Running
  <1>w. Working'
    BY DEF CallsOK, Launched, Closing, Progress, Working, Over, Running
  <1> QED BY <1>t, <1>c, <1>l, <1>e, <1>w

\* A worker sends to the syncer.
LEMMA ResyncInv ==
    ASSUME LifecycleInv, NEW k \in Token, Resync(k)
    PROVE  LifecycleInv'
  <1> USE Orders, LifecycleAssumption
      DEF LifecycleInv, LifecycleTypeOK, Resync, Hold, Stopping
  <1>t. LifecycleTypeOK'
    BY DEF CallsOK
  <1>c. CallsOK'
    BY DEF CallsOK
  <1>l. Launched'
    BY DEF CallsOK, Launched, Running
  <1>e. Closing'
    BY DEF CallsOK, Launched, Closing, Progress, Working, Over, Running
  <1>w. Working'
    BY DEF CallsOK, Launched, Closing, Progress, Working, Over, Running
  <1> QED BY <1>t, <1>c, <1>l, <1>e, <1>w

\* A worker sends to the heartbeater and releases its token.
LEMMA FinishInv ==
    ASSUME LifecycleInv, NEW k \in Token, Finish(k)
    PROVE  LifecycleInv'
  <1> USE Orders, LifecycleAssumption
      DEF LifecycleInv, LifecycleTypeOK, Finish, Hold, Stopping
  <1>t. LifecycleTypeOK'
    BY DEF CallsOK
  <1>c. CallsOK'
    BY DEF CallsOK
  <1>l. Launched'
    BY DEF CallsOK, Launched, Running
  <1>e. Closing'
    BY DEF CallsOK, Launched, Closing, Progress, Working, Over, Running
  <1>w. Working'
    BY DEF CallsOK, Launched, Closing, Progress, Working, Over, Running
  <1> QED BY <1>t, <1>c, <1>l, <1>e, <1>w

\* A handler returns.
LEMMA ReturnInv ==
    ASSUME LifecycleInv, NEW k \in Token, Return(k)
    PROVE  LifecycleInv'
  <1> USE Orders, LifecycleAssumption
      DEF LifecycleInv, LifecycleTypeOK, Return, Hold, Stopping
  <1>t. LifecycleTypeOK'
    BY DEF CallsOK
  <1>c. CallsOK'
    BY DEF CallsOK
  <1>l. Launched'
    BY DEF CallsOK, Launched, Running
  <1>e. Closing'
    BY DEF CallsOK, Launched, Closing, Progress, Working, Over, Running
  <1>w. Working'
    BY DEF CallsOK, Launched, Closing, Progress, Working, Over, Running
  <1> QED BY <1>t, <1>c, <1>l, <1>e, <1>w

-----------------------------------------------------------------------------
\* Every step of the server keeps the invariant.
LEMMA StepInv == LifecycleInv /\ [LifecycleNext]_lifeVars => LifecycleInv'
  <1> SUFFICES ASSUME LifecycleInv, [LifecycleNext]_lifeVars PROVE LifecycleInv'
    OBVIOUS
  <1>1. CASE \E u \in Caller : Call(u) \/ CallStep(u)
    BY <1>1, CallInv, LaunchInv, StopOnceInv, StopReturnsInv, DrainInv, SendDoneInv, WaitInv
       DEF CallStep
  <1>2. CASE \E c \in Component : Timer(c) \/ Ready(c) \/ End(c)
    BY <1>2, TimerInv, ReadyInv, EndInv
  <1>3. CASE Check \/ CheckEnds \/ Loop \/ Quit \/ ProcessorDone \/ ShutdownTimeout
    BY <1>3, CheckInv, CheckEndsInv, LoopInv, QuitInv, ProcessorDoneInv, ShutdownTimeoutInv
  <1>4. CASE \E k \in Token : TokenStep(k) \/ Return(k)
    BY <1>4, TakeInv, DequeueInv, OfferInv, AbortInv, ResyncInv, FinishInv, ReturnInv
       DEF TokenStep
  <1>5. CASE UNCHANGED lifeVars
    BY <1>5 DEF lifeVars, LifecycleInv, LifecycleTypeOK, CallsOK, Launched, Closing, Working,
                Progress, Stopping
  <1> QED BY <1>1, <1>2, <1>3, <1>4, <1>5 DEF LifecycleNext, Terminated

\* The invariant holds throughout.
LEMMA LifecycleInvariance == LifecycleSpec => []LifecycleInv
  BY InitInv, StepInv, PTL DEF LifecycleSpec

\* Start launches the receivers before their senders, and Shutdown ends a receiver
\* only when every token is back.
LEMMA InvOrdered == LifecycleInv => ShutdownOrdered
  <1> SUFFICES ASSUME LifecycleInv PROVE ShutdownOrdered
    OBVIOUS
  <1> USE Orders, LifecycleAssumption DEF LifecycleInv, LifecycleTypeOK
  <1>1. ASSUME NEW k \in Token, token[k] \in {"processor", "running", "sync", "finished"}
        PROVE  Receives("heartbeater") /\ Receives("syncer")
    <2>1. g["processor"] # "none"
      BY <1>1 DEF Working
    <2>2. g["heartbeater"] # "none" /\ g["syncer"] # "none"
      <3>1. CASE \E u \in Caller : caller[u].op = "start"
        BY <2>1, <3>1 DEF CallsOK, Launched
      <3>2. CASE state # "new" /\ \A u \in Caller : caller[u].op # "start"
        BY <3>2 DEF Launched, Running
      <3> QED BY <2>1, <3>1, <3>2 DEF Launched
    <2>3. g["heartbeater"] \notin Over /\ g["syncer"] \notin Over
      <3>1. CASE state # "closed"
        BY <3>1 DEF Closing
      <3>2. CASE state = "closed"
        <4>1. PICK u \in Caller : Stopping(u)
          BY <1>1, <3>2 DEF Closing
        <4>2. caller[u].at <= 2
          BY <1>1, <4>1 DEF CallsOK, Closing, Progress, Stopping
        <4> QED BY <4>1, <4>2 DEF CallsOK, Closing, Progress, Stopping
      <3> QED BY <3>1, <3>2
    <2> QED BY <2>2, <2>3 DEF Receives, Over
  <1>2. SenderHasReceiver
    BY <1>1 DEF SenderHasReceiver, Working
  <1>3. ClosedLast
    BY DEF ClosedLast, Closing, Working, Launched, Running
  <1> QED BY <1>2, <1>3 DEF ShutdownOrdered

\* Whoever uses a channel or the connection finds its other side there, for any
\* number of callers, workers and checks.
THEOREM ShutdownTheorem == LifecycleSpec => []ShutdownOrdered
  BY LifecycleInvariance, InvOrdered, PTL

\* Once a call of Stop or Shutdown is past processor.stop, no task is dequeued: the
\* processor's goroutine has ended, and nothing launches it again.
THEOREM NothingPulledTheorem == LifecycleSpec => NothingPulled
  <1>1. LifecycleInv /\ [LifecycleNext]_lifeVars => [once = "done" => pulled' = pulled]_lifeVars
    <2> SUFFICES ASSUME LifecycleInv, LifecycleNext, once = "done" PROVE pulled' = pulled
      OBVIOUS
    <2>1. \A k \in Token : ~Dequeue(k)
      BY DEF Dequeue, LifecycleInv, Working
    <2> QED
      BY <2>1 DEF LifecycleNext, Call, CallStep, Launch, StopOnce, StopReturns, Drain, SendDone,
           Wait, Timer, Ready, End, Check, CheckEnds, Loop, Quit, ProcessorDone, TokenStep,
           Take, Offer, Abort, Resync, Finish, Return, ShutdownTimeout, Terminated, lifeVars
  <1> QED BY <1>1, LifecycleInvariance, PTL DEF LifecycleSpec, NothingPulled
=============================================================================
