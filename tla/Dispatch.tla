------------------------------ MODULE Dispatch ------------------------------
(***************************************************************************)
(* How a server decides where to take a task from and whom to give it to:  *)
(* the queue configuration (server.go), the order in which the processor   *)
(* polls the queues (processor.go) and the patterns of ServeMux.           *)
(***************************************************************************)
EXTENDS Client

CONSTANTS
    Patterns,           \* patterns that may be registered, sequences
    TypeNames           \* type names of tasks, sequences

ASSUME DispatchAssumption ==
    IsFiniteSet(Patterns) /\ \A p \in Patterns \cup TypeNames : p \in Seq(ToSet(p))

\* NewServerFromRedisClient: invalid names and priorities are dropped.
QueueConfig(cfg) ==
    LET valid == {q \in DOMAIN cfg : q # Blank /\ cfg[q] > 0} IN
    IF valid = {} THEN [q \in {DefaultQueue} |-> 1] ELSE [q \in valid |-> cfg[q]]

Gcd2[p \in Nat \X Nat] == IF p[2] = 0 THEN p[1] ELSE Gcd2[<<p[2], p[1] % p[2]>>]
Gcd(xs) == FoldSet(LAMBDA x, y : Gcd2[<<x, y>>], 0, xs)

NormalizeQueues(qcfg) ==
    LET d == Gcd({qcfg[q] : q \in DOMAIN qcfg}) IN [q \in DOMAIN qcfg |-> qcfg[q] \div d]

\* The orders of sortByPriority; queues of equal priority in any order.
SortByPriority(qcfg) ==
    {s \in SetToSeqs(DOMAIN qcfg) : \A i, j \in DOMAIN s : i < j => qcfg[s[i]] >= qcfg[s[j]]}

\* The first occurrences in names, at most l of them.
Uniq(names, l) ==
    FoldLeft(LAMBDA res, q : IF Contains(res, q) \/ Len(res) = l THEN res ELSE Append(res, q),
             << >>, names)

\* Each name as often as its priority, and its shuffles.
Names(qcfg) == FlattenSeq(SetToSeq({[i \in 1 .. qcfg[q] |-> q] : q \in DOMAIN qcfg}))
Shuffles(names) == {[i \in DOMAIN names |-> names[p[i]]] : p \in SetToSeqs(DOMAIN names)}
Orders(qcfg) == {Uniq(s, Cardinality(DOMAIN qcfg)) : s \in Shuffles(Names(qcfg))}

-----------------------------------------------------------------------------
\* Mutant: the newest entry first.
AppendUnsorted(es, e) == <<e>> \o es

\* appendSorted: before the first entry that is shorter.
AppendSorted(es, e) ==
    LET shorter == {i \in DOMAIN es : Len(es[i]) < Len(e)} IN
    IF shorter = {} THEN Append(es, e) ELSE InsertAt(es, Min(shorter), e)

\* Handle for each pattern in turn; the patterns are different.
Handle(patterns) == FoldLeft(LAMBDA es, e : AppendSorted(es, e), << >>, patterns)

\* match: an equal pattern, or the first prefix in es; << >> for none.
Match(es, type) ==
    LET prefixes == {i \in DOMAIN es : IsPrefix(es[i], type)} IN
    IF Contains(es, type) THEN type
    ELSE IF prefixes = {} THEN << >> ELSE es[Min(prefixes)]

-----------------------------------------------------------------------------
\* In whatever order handlers are registered, a task goes to the longest
\* pattern that its type begins with: the search relies on es being sorted.
RoutesToLongest ==
    \A registered \in SUBSET Patterns : \A o \in SetToSeqs(registered), type \in TypeNames :
        LET h    == Match(Handle(o), type)
            fits == {p \in registered : IsPrefix(p, type)}
        IN IF fits = {} THEN h = << >>
           ELSE h \in fits /\ \A p \in fits : Len(p) <= Len(h)
=============================================================================
