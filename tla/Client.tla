------------------------------- MODULE Client -------------------------------
(***************************************************************************)
(* What client.go makes of the options of a call, as operators.  An option *)
(* is a kind and a value; times are in parts of a second, Second parts     *)
(* each, because the message keeps whole seconds only.                     *)
(***************************************************************************)
EXTENDS Integers, SequencesExt

CONSTANTS
    Nil,                \* no value
    Blank,              \* a name of spaces only
    DefaultQueue,       \* base.DefaultQueueName
    Second,             \* parts of a second
    DefaultTimeout      \* defaultTimeout, in parts of a second

ASSUME ClientAssumption ==
    /\ Second \in Nat \ {0}
    /\ DefaultTimeout \in Nat \ {0} /\ DefaultTimeout % Second = 0
    /\ Nil \notin Int /\ Blank # Nil /\ DefaultQueue \notin {Nil, Blank}

\* The fields of type option, with the values that composeOptions starts from.
Defaults(now) ==
    [queue |-> DefaultQueue, taskID |-> Nil, timeout |-> 0, deadline |-> Nil,
     unique |-> 0, processAt |-> now, retention |-> 0, group |-> Nil]

Opt(kind, value) == [kind |-> kind, value |-> value]

\* What composeOptions refuses.
Invalid(o) ==
    \/ o.kind \in {"queue", "taskID", "group"} /\ o.value = Blank
    \/ o.kind = "unique" /\ o.value < Second

\* One round of the loop of composeOptions.
Apply(res, o, now) ==
    IF o.kind = "processIn" THEN [res EXCEPT !.processAt = now + o.value]
    ELSE [res EXCEPT ![o.kind] = o.value]

\* composeOptions; Nil is the error.
ComposeOptions(opts, now) ==
    IF \E i \in DOMAIN opts : Invalid(opts[i]) THEN Nil
    ELSE FoldLeft(LAMBDA res, o : Apply(res, o, now), Defaults(now), opts)

\* The state a new task gets: by the script that EnqueueContext chooses.
InitialState(opt, now) ==
    IF opt.processAt > now THEN "scheduled"
    ELSE IF opt.group # Nil THEN "aggregating" ELSE "pending"

\* The message of EnqueueContext: durations and times in whole seconds, 0 for
\* none, and the default timeout where both limits are zero before they are cut.
Message(opt, now) ==
    LET none == opt.timeout = 0 /\ opt.deadline \in {Nil, 0} IN
    [queue |-> opt.queue,
     timeout |-> (IF none THEN DefaultTimeout ELSE opt.timeout) \div Second,
     deadline |-> IF opt.deadline = Nil THEN 0 ELSE opt.deadline \div Second,
     unique |-> opt.unique > 0,
     retention |-> opt.retention \div Second,
     group |-> opt.group,
     due |-> opt.processAt \div Second]

\* processor.computeDeadline of the message, at the time now.
ComputeDeadline(msg, now) ==
    CASE msg.timeout = 0 /\ msg.deadline = 0 -> now + DefaultTimeout
      [] msg.timeout # 0 /\ msg.deadline # 0 ->
            Min({(now \div Second) + msg.timeout, msg.deadline}) * Second
      [] msg.timeout # 0 /\ msg.deadline = 0 -> now + msg.timeout * Second
      [] OTHER -> msg.deadline * Second

-----------------------------------------------------------------------------
(* What the options ask for, stated without the loop: the value of the last *)
(* option of the kind.                                                      *)

Asked(opts, kinds, default) ==
    LET given == {i \in DOMAIN opts : opts[i].kind \in kinds} IN
    IF given = {} THEN default ELSE opts[Max(given)].value
AskedAt(opts, now) ==
    LET given == {i \in DOMAIN opts : opts[i].kind \in {"processAt", "processIn"}} IN
    IF given = {} THEN now
    ELSE LET o == opts[Max(given)] IN IF o.kind = "processIn" THEN now + o.value ELSE o.value
=============================================================================
