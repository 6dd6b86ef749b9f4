--------------------------- MODULE ReceiverProofs ---------------------------
(***************************************************************************)
(* Proofs about the receiver-target tasks, for any number of tasks, servers*)
(* and operations: the type invariant, the exact ledger, one delivery per  *)
(* revision, and what a release means.                                     *)
(*                                                                         *)
(* The module begins with what the proofs need of sums and extremes of     *)
(* finite sets.  They are proved by induction over the subsets of a finite *)
(* set, as the well-foundedness of strict inclusion.                       *)
(***************************************************************************)
EXTENDS ReceiverTarget, FiniteSetTheorems, TLAPS

-----------------------------------------------------------------------------
(* Finite sets: induction, sums, extremes.                                 *)

\* The element the fold takes next.
Pick(s) == CHOOSE x \in s : TRUE

\* f is the table of the partial sums of w, built up as the fold builds it.
Sums(w, S, f) ==
    f = [s \in SUBSET S |-> IF s = {} THEN 0 ELSE w[Pick(s)] + f[s \ {Pick(s)}]]

\* The fold takes one element, and leaves a smaller set.
LEMMA SmallerSet ==
    ASSUME NEW s, s # {}
    PROVE  Pick(s) \in s /\ s \ {Pick(s)} \subseteq s /\ s \ {Pick(s)} # s
<1>1. Pick(s) \in s
  BY DEF Pick
<1> QED BY <1>1, Zenon

\* Induction over the subsets of a finite set: a set G holds every subset if it
\* holds each one all of whose smaller subsets it holds.
LEMMA SetInduction ==
    ASSUME NEW S, IsFiniteSet(S), NEW G,
           \A T \in SUBSET S : (\A U \in SUBSET T : U # T => U \in G) => T \in G
    PROVE  \A T \in SUBSET S : T \in G
<1> DEFINE B == (SUBSET S) \ G
<1>1. SUFFICES ASSUME B # {} PROVE FALSE
  OBVIOUS
<1>2. IsWellFoundedOn(StrictSubsetOrdering(S), SUBSET S)
  BY FS_StrictSubsetOrderingWellFounded, FS_FiniteSubsetsOfFinite
<1>3. B \subseteq SUBSET S
  OBVIOUS
<1> HIDE DEF B
<1>4. PICK T \in B : \A U \in B : <<U, T>> \notin StrictSubsetOrdering(S)
  BY <1>1, <1>2, <1>3, WFMin
<1>5. \A U \in SUBSET T : U # T => U \notin B
  BY <1>3, <1>4 DEF StrictSubsetOrdering
<1> QED BY <1>3, <1>4, <1>5 DEF B

\* Every entry of a table is an integer.
LEMMA SumsType ==
    ASSUME NEW S, IsFiniteSet(S), NEW w \in [S -> Int], NEW f, Sums(w, S, f)
    PROVE  f \in [SUBSET S -> Int]
<1> DEFINE G == {s \in SUBSET S : f[s] \in Int}
<1>1. ASSUME NEW T \in SUBSET S, \A U \in SUBSET T : U # T => U \in G
      PROVE  T \in G
  <2>1. CASE T = {}
    BY <2>1 DEF Sums
  <2>2. CASE T # {}
    <3>1. f[T \ {Pick(T)}] \in Int
      BY <1>1, <2>2, SmallerSet
    <3>2. f[T] = w[Pick(T)] + f[T \ {Pick(T)}]
      BY <2>2 DEF Sums
    <3>3. w[Pick(T)] \in Int
      BY <2>2, SmallerSet
    <3> QED BY <3>1, <3>2, <3>3
  <2> QED BY <2>1, <2>2
<1> HIDE DEF G
<1>2. \A T \in SUBSET S : T \in G
  BY <1>1, SetInduction
<1> QED BY <1>2 DEF G, Sums

\* Two tables agree wherever both have an entry.
LEMMA SumsAgree ==
    ASSUME NEW S, NEW U \in SUBSET S, IsFiniteSet(U), NEW w, NEW v, NEW f, NEW g,
           Sums(w, S, f), Sums(v, U, g), \A x \in U : w[x] = v[x]
    PROVE  f[U] = g[U]
<1> DEFINE G == {s \in SUBSET U : f[s] = g[s]}
<1>1. ASSUME NEW T \in SUBSET U, \A V \in SUBSET T : V # T => V \in G
      PROVE  T \in G
  <2>1. T \in SUBSET S
    OBVIOUS
  <2>2. CASE T = {}
    BY <2>1, <2>2 DEF Sums
  <2>3. CASE T # {}
    <3>1. f[T \ {Pick(T)}] = g[T \ {Pick(T)}]
      BY <1>1, <2>3, SmallerSet
    <3>2. /\ f[T] = w[Pick(T)] + f[T \ {Pick(T)}]
          /\ g[T] = v[Pick(T)] + g[T \ {Pick(T)}]
      BY <2>1, <2>3 DEF Sums
    <3>3. w[Pick(T)] = v[Pick(T)]
      BY <2>3, SmallerSet
    <3> QED BY <3>1, <3>2, <3>3
  <2> QED BY <2>2, <2>3
<1> HIDE DEF G
<1>2. U \in G
  BY <1>1, SetInduction
<1> QED BY <1>2 DEF G

\* There is a table.
LEMMA SumsExist ==
    ASSUME NEW S, IsFiniteSet(S), NEW w
    PROVE  \E f : Sums(w, S, f)
<1> DEFINE G == {s \in SUBSET S : \E f : Sums(w, s, f)}
           Table(s) == CHOOSE f : Sums(w, s, f)
<1>1. ASSUME NEW T \in SUBSET S, \A U \in SUBSET T : U # T => U \in G
      PROVE  T \in G
  <2> DEFINE Below(s) == IF s = {} THEN 0
                         ELSE w[Pick(s)] + Table(s \ {Pick(s)})[s \ {Pick(s)}]
             F == [s \in SUBSET T |-> Below(s)]
  <2>1. \A s \in SUBSET T : s # T => Sums(w, s, Table(s))
    BY <1>1
  <2> HIDE DEF Table, G
  <2>2. ASSUME NEW s \in SUBSET T, s # T PROVE F[s] = Table(s)[s]
    <3>1. Sums(w, s, Table(s))
      BY <2>1, <2>2
    <3>2. CASE s = {}
      BY <3>1, <3>2 DEF Sums
    <3>3. CASE s # {}
      <4> DEFINE r == s \ {Pick(s)}
      <4>1. r \subseteq s /\ r # s
        BY <3>3, SmallerSet
      <4> HIDE DEF r
      <4>2. r \in SUBSET s /\ r \in SUBSET T /\ r # T
        BY <4>1
      <4>3. IsFiniteSet(r)
        BY <4>2, FS_Subset
      <4>4. Sums(w, r, Table(r))
        BY <4>2, <2>1
      <4>5. Table(s)[r] = Table(r)[r]
        BY <3>1, <4>2, <4>3, <4>4, SumsAgree
      <4>6. Table(s)[s] = w[Pick(s)] + Table(s)[r]
        BY <3>1, <3>3 DEF Sums, r
      <4> QED BY <4>5, <4>6, <3>3 DEF r
    <3> QED BY <3>2, <3>3
  <2>3. ASSUME NEW s \in SUBSET T
        PROVE  F[s] = IF s = {} THEN 0 ELSE w[Pick(s)] + F[s \ {Pick(s)}]
    <3>1. CASE s = {}
      BY <3>1
    <3>2. CASE s # {}
      <4> DEFINE r == s \ {Pick(s)}
      <4>1. r \subseteq s /\ r # s
        BY <3>2, SmallerSet
      <4> HIDE DEF r
      <4>2. r \in SUBSET T /\ r # T
        BY <4>1
      <4>3. F[r] = Table(r)[r]
        BY <4>2, <2>2
      <4>4. F[s] = w[Pick(s)] + Table(r)[r]
        BY <3>2 DEF r
      <4> QED BY <3>2, <4>3, <4>4 DEF r
    <3> QED BY <3>1, <3>2
  <2>4. Sums(w, T, F)
    <3>1. F = [s \in SUBSET T |-> F[s]]
      OBVIOUS
    <3> HIDE DEF F
    <3> QED BY <3>1, <2>3 DEF Sums
  <2> QED BY <2>4 DEF G
<1> HIDE DEF G
<1>2. \A T \in SUBSET S : T \in G
  BY <1>1, SetInduction
<1> QED BY <1>2 DEF G

\* SumFunction reads its value off a table.
LEMMA SumIs ==
    ASSUME NEW S, IsFiniteSet(S), NEW w \in [S -> Int]
    PROVE  \E f : Sums(w, S, f) /\ SumFunction(w) = f[S]
<1> DEFINE D(f) == f = [s \in SUBSET S |-> IF s = {} THEN 0
                         ELSE w[CHOOSE x \in s : TRUE] + f[s \ {CHOOSE x \in s : TRUE}]]
<1>1. \E f : D(f)
  <2>1. PICK f : Sums(w, S, f)
    BY SumsExist
  <2>2. D(f)
    BY <2>1 DEF Sums, Pick
  <2> HIDE DEF D
  <2> QED BY <2>2
<1>2. D(CHOOSE f : D(f))
  BY <1>1
<1>3. SumFunction(w) = (CHOOSE f : D(f))[S]
  BY DEF SumFunction, SumFunctionOnSet, FoldFunctionOnSet, MapThenFoldSet
<1>4. \A f : D(f) => Sums(w, S, f)
  BY DEF Sums, Pick
<1> HIDE DEF D
<1> QED BY <1>2, <1>3, <1>4

\* The order of the summands does not matter.
LEMMA SumsTake ==
    ASSUME NEW S, IsFiniteSet(S), NEW w \in [S -> Int], NEW f, Sums(w, S, f), NEW t \in S
    PROVE  f[S \ {t}] \in Int /\ f[S] = w[t] + f[S \ {t}]
<1> DEFINE G == {s \in SUBSET S : \A z \in s : f[s] = w[z] + f[s \ {z}]}
<1>0. f \in [SUBSET S -> Int]
  BY SumsType
<1>1. ASSUME NEW T \in SUBSET S, \A U \in SUBSET T : U # T => U \in G
      PROVE  T \in G
  <2>1. SUFFICES ASSUME NEW z \in T PROVE f[T] = w[z] + f[T \ {z}]
    OBVIOUS
  <2> DEFINE x == Pick(T)
  <2>2. x \in T
    BY SmallerSet
  <2>3. f[T] = w[x] + f[T \ {x}]
    BY <2>2 DEF Sums
  <2> HIDE DEF x
  <2>4. CASE x = z
    BY <2>3, <2>4
  <2>5. CASE x # z
    <3> DEFINE R == (T \ {x}) \ {z}
    <3>1. T \ {x} \in SUBSET T /\ T \ {x} # T /\ T \ {z} \in SUBSET T /\ T \ {z} # T
      BY <2>2
    <3>2. T \ {x} \in G /\ T \ {z} \in G
      BY <1>1, <3>1
    <3>3. f[T \ {x}] = w[z] + f[R]
      BY <2>5, <3>2
    <3>4. (T \ {z}) \ {x} = R
      OBVIOUS
    <3>5. f[T \ {z}] = w[x] + f[R]
      BY <2>2, <2>5, <3>2, <3>4
    <3>6. R \in SUBSET S
      OBVIOUS
    <3> HIDE DEF R
    <3>7. f[T \ {z}] \in Int /\ f[R] \in Int /\ w[x] \in Int /\ w[z] \in Int
      BY <1>0, <2>2, <3>1, <3>6
    <3> QED BY <2>3, <3>3, <3>5, <3>7
  <2> QED BY <2>4, <2>5
<1> HIDE DEF G
<1>2. S \in G
  BY <1>1, SetInduction
<1>3. S \ {t} \in SUBSET S
  OBVIOUS
<1> QED BY <1>0, <1>2, <1>3 DEF G

\* A sum is one summand and the sum of the others, taken from any table of them.
LEMMA SumRest ==
    ASSUME NEW S, IsFiniteSet(S), NEW w \in [S -> Int], NEW t \in S, NEW u, NEW h,
           Sums(u, S \ {t}, h), \A x \in S \ {t} : w[x] = u[x]
    PROVE  h[S \ {t}] \in Int /\ SumFunction(w) = w[t] + h[S \ {t}]
<1> DEFINE R == S \ {t}
<1>1. PICK f : Sums(w, S, f) /\ SumFunction(w) = f[S]
  BY SumIs
<1>2. R \in SUBSET S /\ IsFiniteSet(R)
  BY FS_Subset
<1>3. Sums(u, R, h) /\ \A x \in R : w[x] = u[x]
  OBVIOUS
<1>4. f[R] \in Int /\ f[S] = w[t] + f[R]
  BY <1>1, SumsTake
<1> HIDE DEF R
<1>5. f[R] = h[R]
  BY ONLY <1>1, <1>2, <1>3, SumsAgree
<1> QED BY <1>1, <1>4, <1>5 DEF R

\* A sum changes by what its one summand that changes does.
LEMMA SumChange ==
    ASSUME NEW S, IsFiniteSet(S), NEW w \in [S -> Int], NEW v \in [S -> Int], NEW t \in S,
           \A x \in S \ {t} : v[x] = w[x]
    PROVE  SumFunction(v) = SumFunction(w) - w[t] + v[t]
<1> DEFINE R == S \ {t}
<1>1. PICK h : Sums(w, R, h)
  <2>1. IsFiniteSet(R)
    BY FS_Subset
  <2> HIDE DEF R
  <2> QED BY <2>1, SumsExist
<1>2. h[R] \in Int /\ SumFunction(w) = w[t] + h[R]
  BY <1>1, SumRest
<1>3. SumFunction(v) = v[t] + h[R]
  BY <1>1, SumRest
<1>4. w[t] \in Int /\ v[t] \in Int
  OBVIOUS
<1> HIDE DEF R
<1> QED BY <1>2, <1>3, <1>4

\* A sum of natural numbers is a natural number.
LEMMA SumOfNats ==
    ASSUME NEW S, IsFiniteSet(S), NEW w \in [S -> Nat]
    PROVE  SumFunction(w) \in Nat
<1> w \in [S -> Int]  OBVIOUS
<1>1. PICK f : Sums(w, S, f) /\ SumFunction(w) = f[S]
  BY SumIs
<1> DEFINE G == {s \in SUBSET S : f[s] \in Nat}
<1>2. ASSUME NEW T \in SUBSET S, \A U \in SUBSET T : U # T => U \in G
      PROVE  T \in G
  <2>1. CASE T = {}
    BY <1>1, <2>1 DEF Sums
  <2>2. CASE T # {}
    <3>1. f[T \ {Pick(T)}] \in Nat
      BY <1>2, <2>2, SmallerSet
    <3>2. f[T] = w[Pick(T)] + f[T \ {Pick(T)}]
      BY <1>1, <2>2 DEF Sums
    <3>3. w[Pick(T)] \in Nat
      BY <2>2, SmallerSet
    <3> QED BY <3>1, <3>2, <3>3
  <2> QED BY <2>1, <2>2
<1> HIDE DEF G
<1>3. \A T \in SUBSET S : T \in G
  BY <1>2, SetInduction
<1> QED BY <1>1, <1>3 DEF G

\* A sum of zeros is zero.
LEMMA SumOfZeros ==
    ASSUME NEW S, IsFiniteSet(S)
    PROVE  SumFunction([x \in S |-> 0]) = 0
<1> DEFINE w == [x \in S |-> 0]
<1> w \in [S -> Int]  OBVIOUS
<1>1. PICK f : Sums(w, S, f) /\ SumFunction(w) = f[S]
  <2> HIDE DEF w
  <2> QED BY SumIs
<1> DEFINE G == {s \in SUBSET S : f[s] = 0}
<1>2. ASSUME NEW T \in SUBSET S, \A U \in SUBSET T : U # T => U \in G
      PROVE  T \in G
  <2>1. CASE T = {}
    BY <1>1, <2>1 DEF Sums
  <2>2. CASE T # {}
    <3>1. f[T \ {Pick(T)}] = 0
      BY <1>2, <2>2, SmallerSet
    <3>2. f[T] = w[Pick(T)] + f[T \ {Pick(T)}]
      <4> HIDE DEF w
      <4> QED BY <1>1, <2>2 DEF Sums
    <3>3. w[Pick(T)] = 0
      BY <2>2, SmallerSet
    <3> QED BY <3>1, <3>2, <3>3
  <2> QED BY <2>1, <2>2
<1> HIDE DEF G
<1>3. \A T \in SUBSET S : T \in G
  BY <1>2, SetInduction
<1> QED BY <1>1, <1>3 DEF G

\* A finite set of integers has a greatest and a least element.
LEMMA Extremes ==
    ASSUME NEW S, IsFiniteSet(S), S \subseteq Int, S # {}
    PROVE  /\ Max(S) \in S /\ \A y \in S : Max(S) >= y
           /\ Min(S) \in S /\ \A y \in S : Min(S) <= y
<1> DEFINE Bounded(s) == /\ \E x \in s : \A y \in s : x >= y
                         /\ \E x \in s : \A y \in s : x <= y
           G == {s \in SUBSET S : s # {} => Bounded(s)}
<1>1. ASSUME NEW T \in SUBSET S, \A U \in SUBSET T : U # T => U \in G
      PROVE  T \in G
  <2>1. SUFFICES ASSUME T # {} PROVE Bounded(T)
    OBVIOUS
  <2> DEFINE R == T \ {Pick(T)}
  <2>2. Pick(T) \in T /\ R \in SUBSET T /\ R # T
    BY <2>1, SmallerSet
  <2>5. R # {} => Bounded(R)
    BY <1>1, <2>2
  <2>3. CASE R = {}
    <3>1. T = {Pick(T)} /\ Pick(T) \in Int
      BY <2>2, <2>3
    <3> QED BY <3>1
  <2>4. CASE R # {}
    <3>1. PICK m \in R, n \in R : \A y \in R : m >= y /\ n <= y
      BY <2>5, <2>4
    <3>2. \A y \in T : y \in R \/ y = Pick(T)
      OBVIOUS
    <3>3. \A y \in T : y \in Int
      OBVIOUS
    <3>4. R \subseteq T
      OBVIOUS
    <3> HIDE DEF R
    <3>7. m \in Int /\ n \in Int /\ Pick(T) \in Int
      BY <2>2, <3>3, <3>4
    <3>5. \E x \in T : \A y \in T : x >= y
      <4>1. CASE m >= Pick(T)
        BY <2>2, <3>1, <3>2, <3>3, <3>4, <4>1
      <4>2. CASE Pick(T) > m
        BY <2>2, <3>1, <3>2, <3>3, <3>4, <4>2
      <4> QED BY <2>2, <3>1, <3>7, <4>1, <4>2, SMT
    <3>6. \E x \in T : \A y \in T : x <= y
      <4>1. CASE n <= Pick(T)
        BY <2>2, <3>1, <3>2, <3>3, <3>4, <4>1
      <4>2. CASE Pick(T) < n
        BY <2>2, <3>1, <3>2, <3>3, <3>4, <4>2
      <4> QED BY <2>2, <3>1, <3>7, <4>1, <4>2, SMT
    <3> QED BY <3>5, <3>6
  <2> QED BY <2>3, <2>4
<1> HIDE DEF G
<1>2. \A T \in SUBSET S : T \in G
  BY <1>1, SetInduction
<1>3. Bounded(S)
  BY <1>2 DEF G
<1> QED BY <1>3 DEF Max, Min

-----------------------------------------------------------------------------
(* The inductive invariant.                                                *)

TaskRecord == [state : TaskState, gen : Nat, msg : Nat, score : Int, lease : Nat]

Delivery == [task : Task, rev : 1..MaxRev, msg : Nat, lease : Nat]

Step == {"idle", "exists", "recover", "retired-task", "retired-inbox", "release",
         "task", "source", "members", "eval"}

CallRecord == [step : Step, op : Op \union {"none"}, task : Task, state : TaskState,
               arg : Int, next : Nat, msg : Nat, picked : Nat, seen : TaskState,
               src : SourceRecord, score : Int]

Native == LeaseOps \union {"dequeue", "due-forward"}

\* The source of t is gone, and no enqueue can bring it back.
Gone(t) == source[t] = NoSource /\ inbox[t] = "committed"

\* A call is well formed, is in a step of its operation, and what its earlier
\* reads told it about a retired source still holds.
CallOK(k) ==
    /\ k \in CallRecord
    /\ k.step \in {"exists", "recover"} => k.op = "initial-enqueue"
    /\ k.step \in {"retired-task", "retired-inbox", "release"} => k.op = "release"
    /\ k.step \in {"task", "source", "members"} => k.op \in Native
    /\ k.step = "eval" => k.op \in Op
    /\ k.op \in Enqueues => k.state \in {"pending", "scheduled"}
    /\ k.op = "initial-enqueue" => k.src = NoSource
    /\ k.step \in {"retired-task", "retired-inbox"} /\ ~EarlyRelease => Gone(k.task)

\* What is stored: the records' shapes, a source that counts its enqueues,
\* no source without a revision, and every task in the queue with its source.
StoreOK ==
    /\ task \in [Task -> TaskRecord]
    /\ source \in [Task -> SourceRecord]
    /\ inbox \in [Task -> {"reserved", "committed"}]
    /\ \A t \in Task :
          /\ source[t].gen <= source[t].rev
          /\ source[t].rev = 0 => source[t] = NoSource
          /\ task[t].state = "absent" => task[t] = Absent
    /\ MarkedHasSource
    /\ LedgerExact
    /\ rows <= RowLimit

CallsOK ==
    /\ call \in [Goroutine -> CallRecord]
    /\ \A g \in Goroutine : CallOK(call[g])

\* A delivery is of a revision its source has passed, or of a source that is
\* gone: no revision is ever reached twice.
Passed(d) == d.rev <= source[d.task].rev \/ Gone(d.task)

HeldOK ==
    /\ held \in [Server -> SUBSET Delivery]
    /\ \A s \in Server : \A d \in held[s] : Passed(d)
    /\ DeliveredOnce

RestOK ==
    /\ beaten \subseteq Server
    /\ released \subseteq Task
    /\ now \in 0..MaxTime
    /\ ~EarlyRelease => ReleaseMeansRetired

ReceiverInv == StoreOK /\ CallsOK /\ HeldOK /\ RestOK

-----------------------------------------------------------------------------
(* The operators the calls are built from.                                 *)

\* No call, and the names of the sets above.
LEMMA Shapes ==
    /\ NoSource \in SourceRecord /\ Absent \in TaskRecord
    /\ Idle \in CallRecord /\ Idle.step = "idle" /\ Idle.op = "none" /\ Idle.src = NoSource
    /\ \A s \in Server : <<s, "worker">> \in Goroutine /\ <<s, "heartbeat">> \in Goroutine
    /\ \A g \in Goroutine : g[1] \in Server
<1>1. NoSource \in SourceRecord /\ Absent \in TaskRecord
  BY ReceiverAssumption DEF NoSource, SourceRecord, Absent, TaskRecord, TaskState
<1>2. (CHOOSE t \in Task : TRUE) \in Task
  BY ReceiverAssumption
<1>3. Idle \in CallRecord /\ Idle.step = "idle" /\ Idle.op = "none" /\ Idle.src = NoSource
  BY <1>1, <1>2 DEF Idle, CallRecord, Step, TaskState
<1> QED BY <1>1, <1>3 DEF Goroutine

\* No call is a well-formed one.
LEMMA IdleOK == CallOK(Idle)
BY Shapes DEF CallOK, Enqueues

\* The score a task gets is a number, whatever the queue holds.
LEMMA EndpointType ==
    ASSUME StoreOK, NEW append \in BOOLEAN
    PROVE  EndpointScore(append) \in Int
<1> DEFINE P == {u \in Task : task[u].state = "pending"}
           f == [u \in P |-> task[u].score]
<1>1. IsFiniteSet(P)
  BY ReceiverAssumption, FS_Subset
<1>2. f \in Surjection(P, PendingScores)
  BY DEF Surjection, PendingScores
<1>3. IsFiniteSet(PendingScores)
  <2> HIDE DEF P, f
  <2> QED BY <1>1, <1>2, FS_Surjection
<1>4. PendingScores \subseteq Int
  BY DEF PendingScores, StoreOK, TaskRecord
<1>5. CASE PendingScores = {}
  BY <1>5 DEF EndpointScore
<1>6. CASE PendingScores # {}
  <2>1. Max(PendingScores) \in Int /\ Min(PendingScores) \in Int
    BY <1>3, <1>4, <1>6, Extremes
  <2> QED BY <1>6, <2>1 DEF EndpointScore
<1> QED BY <1>5, <1>6

\* The state an operation leads to.
LEMMA NextStateType ==
    ASSUME NEW k, CallOK(k), k.op \in Op \ {"release"}
    PROVE  /\ NextState(k) \in TaskState
           /\ NextState(k) = "absent" <=> k.op = "done"
BY DEF CallOK, NextState, Op, Enqueues, LeaseOps, TaskState

\* So is the score an operation leads to.
LEMMA NextScoreType ==
    ASSUME StoreOK, NEW k, CallOK(k), k.op \in Op \ {"release"}
    PROVE  NextScore(k) \in Int
<1>1. EndpointScore(k.op # "requeue") \in Int
  <2>1. (k.op # "requeue") \in BOOLEAN
    OBVIOUS
  <2> QED BY <2>1, EndpointType
<1>2. k.next \in Int
  BY DEF CallOK, CallRecord
<1> QED BY <1>1, <1>2 DEF NextScore

-----------------------------------------------------------------------------
(* The steps of a call that reach no script.                               *)

\* A step that moves one call on, and leaves what is stored and delivered.
LEMMA CallStep ==
    ASSUME ReceiverInv, NEW g \in Goroutine, NEW k, CallOK(k),
           call' = [call EXCEPT ![g] = k],
           UNCHANGED <<unstored, held, now>>,
           beaten' \subseteq Server, released' \subseteq Task,
           ~EarlyRelease => ReleaseMeansRetired'
    PROVE  ReceiverInv'
<1> USE DEF unstored
<1>1. StoreOK'
  BY DEF ReceiverInv, StoreOK, MarkedHasSource, LedgerExact
<1>2. CallsOK'
  <2>1. k \in CallRecord /\ call' \in [Goroutine -> CallRecord]
    BY DEF ReceiverInv, CallsOK, CallOK
  <2>2. ASSUME NEW h \in Goroutine PROVE CallOK(call[h])'
    <3>1. \A z : CallOK(z) => CallOK(z)'
      BY DEF CallOK, Gone
    <3>2. call'[h] = k \/ call'[h] = call[h]
      BY DEF ReceiverInv, CallsOK
    <3>3. CallOK(k) /\ CallOK(call[h])
      BY DEF ReceiverInv, CallsOK
    <3> QED BY <3>1, <3>2, <3>3 DEF CallOK, Gone
  <2> QED BY <2>1, <2>2 DEF CallsOK
<1>3. HeldOK'
  BY DEF ReceiverInv, HeldOK, Passed, Gone, DeliveredOnce
<1>4. RestOK'
  BY DEF ReceiverInv, RestOK
<1> QED BY <1>1, <1>2, <1>3, <1>4 DEF ReceiverInv

\* A step that only moves a call on.
LEMMA BeginInv ==
    ASSUME ReceiverInv, NEW g \in Goroutine, NEW k, CallOK(k),
           Begin(g, k) \/ Continue(g, k)
    PROVE  ReceiverInv'
<1>1. /\ call' = [call EXCEPT ![g] = k]
      /\ UNCHANGED <<unstored, held, beaten, released, now>>
  BY DEF Begin, Continue
<1>2. /\ beaten' \subseteq Server /\ released' \subseteq Task
      /\ ~EarlyRelease => ReleaseMeansRetired'
  BY <1>1 DEF ReceiverInv, RestOK, ReleaseMeansRetired, Retired, unstored
<1> QED BY <1>1, <1>2, CallStep

\* A call that returns with an error.
LEMMA FailInv ==
    ASSUME ReceiverInv, NEW g \in Goroutine, Fail(g)
    PROVE  ReceiverInv'
<1>1. /\ call' = [call EXCEPT ![g] = Idle]
      /\ UNCHANGED <<unstored, held, released, now>>
      /\ beaten' \subseteq Server
  BY Shapes DEF Fail, Return, ReceiverInv, RestOK
<1>2. /\ released' \subseteq Task
      /\ ~EarlyRelease => ReleaseMeansRetired'
  BY <1>1 DEF ReceiverInv, RestOK, ReleaseMeansRetired, Retired, unstored
<1> QED BY <1>1, <1>2, IdleOK, CallStep

\* An operation begins with a well-formed call ...
LEMMA EnqueueInv ==
    ASSUME ReceiverInv, NEW s \in Server, NEW t \in Task, NEW place \in {"pending", "scheduled"},
           EnqueueReceiverTarget(s, t, place)
    PROVE  ReceiverInv'
<1> DEFINE k == [Idle EXCEPT !.step = "exists", !.op = "initial-enqueue", !.task = t,
                    !.state = place, !.next = now + 1,
                    !.score = IF place = "pending" THEN EndpointScore(TRUE) ELSE now + 1]
<1>1. now + 1 \in Nat
  BY ReceiverAssumption DEF ReceiverInv, RestOK
<1>2. CallOK(k)
  <2>1. EndpointScore(TRUE) \in Int
    BY EndpointType DEF ReceiverInv
  <2>2. k \in CallRecord
    <3> DEFINE score == IF place = "pending" THEN EndpointScore(TRUE) ELSE now + 1
    <3>1. score \in Int
      <4>1. CASE place = "pending"
        BY <2>1, <4>1, Zenon
      <4>2. CASE place # "pending"
        BY <1>1, <4>2
      <4> QED BY <4>1, <4>2
    <3>2. "exists" \in Step /\ "initial-enqueue" \in Op /\ place \in TaskState
      BY DEF Step, Op, Enqueues, TaskState
    <3> HIDE DEF score
    <3>3. [Idle EXCEPT !.step = "exists", !.op = "initial-enqueue", !.task = t,
                       !.state = place, !.next = now + 1, !.score = score] \in CallRecord
      BY <1>1, <3>1, <3>2, Shapes DEF CallRecord
    <3> QED BY <3>3 DEF score
  <2>3. /\ k.step = "exists" /\ k.op = "initial-enqueue" /\ k.src = NoSource
        /\ k.state = place
    BY Shapes DEF CallRecord
  <2> HIDE DEF k
  <2> QED BY <2>2, <2>3 DEF CallOK
<1>3. Begin(<<s, "worker">>, k)
  BY DEF EnqueueReceiverTarget
<1> HIDE DEF k
<1> QED BY <1>2, <1>3, Shapes, BeginInv

\* The first read of a release: where it finds no source, the source is gone for
\* good, for the effect has committed.
LEMMA ReleaseInv ==
    ASSUME ReceiverInv, NEW s \in Server, NEW t \in Task, ReleaseReceiverTarget(s, t)
    PROVE  ReceiverInv'
<1> DEFINE k == [Idle EXCEPT !.op = "release", !.task = t,
                    !.step = IF source[t] = NoSource THEN "retired-task" ELSE "release"]
<1>1. EarlyRelease \/ inbox[t] = "committed"
  BY DEF ReleaseReceiverTarget
<1>2. CallOK(k)
  BY <1>1, Shapes DEF CallOK, CallRecord, Step, Op, Enqueues, Gone
<1>3. Begin(<<s, "worker">>, k)
  BY DEF ReleaseReceiverTarget
<1> HIDE DEF k
<1> QED BY <1>2, <1>3, Shapes, BeginInv

\* The selection script names a task that is stored.
LEMMA DequeueInv ==
    ASSUME ReceiverInv, NEW s \in Server, Dequeue(s)
    PROVE  ReceiverInv'
<1>1. PICK t \in Task :
        Begin(<<s, "worker">>,
              [Idle EXCEPT !.step = "task", !.op = "dequeue", !.task = t,
                           !.state = "pending", !.arg = task[t].score,
                           !.picked = task[t].msg, !.next = now + LeaseDuration])
  BY DEF Dequeue
<1> DEFINE k == [Idle EXCEPT !.step = "task", !.op = "dequeue", !.task = t,
                    !.state = "pending", !.arg = task[t].score,
                    !.picked = task[t].msg, !.next = now + LeaseDuration]
<1>2. task[t].score \in Int /\ task[t].msg \in Nat /\ now + LeaseDuration \in Nat
  BY ReceiverAssumption DEF ReceiverInv, RestOK, StoreOK, TaskRecord
<1>3. CallOK(k)
  BY <1>2, Shapes DEF CallOK, CallRecord, Step, Op, Enqueues, TaskState, Native
<1>4. Begin(<<s, "worker">>, k)
  BY <1>1
<1> HIDE DEF k
<1> QED BY <1>3, <1>4, Shapes, BeginInv

\* So does the selection of a due task.
LEMMA ForwardInv ==
    ASSUME ReceiverInv, NEW s \in Server, NEW t \in Task, Forward(s, t)
    PROVE  ReceiverInv'
<1> DEFINE k == [Idle EXCEPT !.step = "task", !.op = "due-forward", !.task = t,
                    !.state = task[t].state, !.arg = task[t].score]
<1>1. task[t].score \in Int /\ task[t].state \in TaskState
  BY DEF ReceiverInv, StoreOK, TaskRecord
<1>2. CallOK(k)
  BY <1>1, Shapes DEF CallOK, CallRecord, Step, Op, Enqueues, Native
<1>3. Begin(<<s, "worker">>, k)
  BY DEF Forward
<1> HIDE DEF k
<1> QED BY <1>2, <1>3, Shapes, BeginInv

\* An operation that quotes the lease it found.
LEMMA BeginLeasedInv ==
    ASSUME ReceiverInv, NEW g \in Goroutine, NEW op \in LeaseOps, NEW t \in Task,
           NEW next \in Nat, NEW msg \in Nat, BeginLeased(g, op, t, next, msg)
    PROVE  ReceiverInv'
<1> DEFINE k == [Idle EXCEPT !.step = "task", !.op = op, !.task = t, !.state = "active",
                    !.arg = task[t].lease, !.next = next, !.msg = msg]
<1>1. task[t].lease \in Nat
  BY DEF ReceiverInv, StoreOK, TaskRecord
<1>2. CallOK(k)
  <2>1. k \in CallRecord
    <3>1. "task" \in Step /\ op \in Op /\ "active" \in TaskState /\ task[t].lease \in Int
      BY <1>1 DEF Step, Op, TaskState
    <3> QED BY <3>1, Shapes DEF CallRecord
  <2>2. k.step = "task" /\ k.op = op /\ op \in LeaseOps
    BY Shapes DEF CallRecord
  <2> HIDE DEF k
  <2> QED BY <2>1, <2>2 DEF CallOK, LeaseOps, Enqueues, Native
<1>3. Begin(g, k)
  BY DEF BeginLeased
<1> HIDE DEF k
<1> QED BY <1>2, <1>3, BeginInv

\* A worker ends its delivery ...
LEMMA FinishInv ==
    ASSUME ReceiverInv, NEW s \in Server, NEW d \in held[s],
           NEW op \in {"requeue", "retry", "done"}, Finish(s, d, op)
    PROVE  ReceiverInv'
<1>1. d.task \in Task /\ d.msg + 1 \in Nat /\ now \in Nat /\ op \in LeaseOps
  BY ReceiverAssumption DEF ReceiverInv, HeldOK, Delivery, RestOK, LeaseOps
<1> QED BY <1>1, Shapes, BeginLeasedInv DEF Finish

\* ... the recoverer ends one whose lease ran out ...
LEMMA RecoverInv ==
    ASSUME ReceiverInv, NEW s \in Server, NEW t \in Task, Recover(s, t)
    PROVE  ReceiverInv'
<1>1. task[t].msg + 1 \in Nat /\ now \in Nat /\ "retry" \in LeaseOps
  BY ReceiverAssumption DEF ReceiverInv, StoreOK, TaskRecord, RestOK, LeaseOps
<1> QED BY <1>1, Shapes, BeginLeasedInv DEF Recover

\* ... and the heartbeater extends one, or is refused.
LEMMA ExtendLeaseInv ==
    ASSUME ReceiverInv, NEW s \in Server, ExtendLease(s)
    PROVE  ReceiverInv'
<1>1. CASE \E t \in Extendable(s) :
             BeginLeased(<<s, "heartbeat">>, "lease-extension", t, now + LeaseDuration, 0)
  <2>1. Extendable(s) \subseteq Task
    BY DEF Extendable, ReceiverInv, HeldOK, Delivery
  <2>2. now + LeaseDuration \in Nat /\ 0 \in Nat /\ "lease-extension" \in LeaseOps
    BY ReceiverAssumption DEF ReceiverInv, RestOK, LeaseOps
  <2> QED BY <1>1, <2>1, <2>2, Shapes, BeginLeasedInv
<1>2. CASE beaten' = beaten \union {s} /\ UNCHANGED <<unstored, call, held, released, now>>
  BY <1>2 DEF ReceiverInv, unstored, StoreOK, MarkedHasSource, LedgerExact, CallsOK, CallOK,
              HeldOK, DeliveredOnce, RestOK, ReleaseMeansRetired, Retired, Passed, Gone
<1> QED BY <1>1, <1>2 DEF ExtendLease

\* ... and a read keeps it so.
LEMMA RecoveryReadInv ==
    ASSUME ReceiverInv, NEW g \in Goroutine, RecoveryReadTask(g) \/ RecoveryReadSource(g)
    PROVE  ReceiverInv'
<1> DEFINE k == call[g]
           a == [k EXCEPT !.step = "eval"]
           b == [k EXCEPT !.step = "recover"]
           c == [k EXCEPT !.step = "eval", !.op = "recovery-enqueue", !.src = source[k.task],
                    !.score = IF k.state = "pending" THEN EndpointScore(TRUE) ELSE k.score]
<1>1. CallOK(k) /\ k.step \in {"exists", "recover"}
  BY DEF ReceiverInv, CallsOK, RecoveryReadTask, RecoveryReadSource
<1>2. source[k.task] \in SourceRecord /\ EndpointScore(TRUE) \in Int
  BY <1>1, EndpointType DEF ReceiverInv, StoreOK, CallOK, CallRecord
<1>3. Continue(g, a) \/ Continue(g, b) \/ Continue(g, c)
  BY DEF RecoveryReadTask, RecoveryReadSource
<1> HIDE DEF k
<1>4. CallOK(a) /\ CallOK(b)
  BY <1>1 DEF CallOK, CallRecord, Step, Op, Enqueues
<1>5. CallOK(c)
  BY <1>1, <1>2 DEF CallOK, CallRecord, Step, Op, Enqueues
<1> HIDE DEF a, b, c
<1> QED BY <1>3, <1>4, <1>5, BeginInv

\* The second read of a release does not forget what the first one found.
LEMMA RetiredReadTaskInv ==
    ASSUME ReceiverInv, NEW g \in Goroutine, RetiredReadTask(g)
    PROVE  ReceiverInv'
<1> DEFINE k == call[g]
           a == [k EXCEPT !.step = IF task[k.task] = Absent THEN "retired-inbox" ELSE "release"]
<1>1. CallOK(k) /\ k.step = "retired-task" /\ Continue(g, a)
  BY DEF ReceiverInv, CallsOK, RetiredReadTask
<1> HIDE DEF k
<1>2. CallOK(a)
  BY <1>1 DEF CallOK, CallRecord, Step, Gone, Enqueues
<1> HIDE DEF a
<1> QED BY <1>1, <1>2, BeginInv

\* Here the answer is given: the task the earlier read found absent still is,
\* because a task in the queue would have its source.
LEMMA RetiredReadInboxInv ==
    ASSUME ReceiverInv, NEW g \in Goroutine, RetiredReadInbox(g)
    PROVE  ReceiverInv'
<1> DEFINE k == call[g]
           a == [k EXCEPT !.step = "release"]
<1>1. CallOK(k) /\ k.step = "retired-inbox" /\ k.task \in Task
  BY DEF ReceiverInv, CallsOK, RetiredReadInbox, CallOK, CallRecord
<1>2. CASE Continue(g, a)
  <2> HIDE DEF k
  <2>1. CallOK(a)
    BY <1>1 DEF CallOK, CallRecord, Step, Enqueues
  <2> HIDE DEF a
  <2> QED BY <1>2, <2>1, BeginInv
<1>3. CASE /\ inbox[k.task] = "committed"
           /\ Return(g, k)
           /\ released' = released \union {k.task}
           /\ UNCHANGED <<unstored, held, now>>
  <2>1. call' = [call EXCEPT ![g] = Idle] /\ beaten' \subseteq Server
    BY <1>3, Shapes DEF Return, ReceiverInv, RestOK
  <2> HIDE DEF k
  <2>2. ~EarlyRelease => Retired(k.task)
    BY <1>1 DEF CallOK, Gone, Retired, ReceiverInv, StoreOK, MarkedHasSource, NoSource
  <2>3. released' \subseteq Task /\ (~EarlyRelease => ReleaseMeansRetired')
    BY <1>1, <1>3, <2>2 DEF ReceiverInv, RestOK, ReleaseMeansRetired, Retired, unstored
  <2> QED BY <1>3, <2>1, <2>3, IdleOK, CallStep
<1> QED BY <1>1, <1>2, <1>3 DEF RetiredReadInbox

\* Without a source the release command fails, otherwise it quotes it.
LEMMA ReleaseReadSourceInv ==
    ASSUME ReceiverInv, NEW g \in Goroutine, ReleaseReadSource(g)
    PROVE  ReceiverInv'
<1> DEFINE k == call[g]
           a == [k EXCEPT !.step = "eval", !.src = source[k.task]]
<1>1. CallOK(k) /\ k.step = "release" /\ source[k.task] \in SourceRecord
  BY DEF ReceiverInv, CallsOK, ReleaseReadSource, StoreOK, CallOK, CallRecord
<1>2. Fail(g) \/ Continue(g, a)
  BY DEF ReleaseReadSource
<1> HIDE DEF k
<1>3. CallOK(a)
  BY <1>1 DEF CallOK, CallRecord, Step, Op, Enqueues
<1> HIDE DEF a
<1> QED BY <1>2, <1>3, BeginInv, FailInv

\* The generation a snapshot takes from the task is one of its source.
LEMMA ReadTaskInv ==
    ASSUME ReceiverInv, NEW g \in Goroutine, ReadTask(g)
    PROVE  ReceiverInv'
<1> DEFINE k == call[g]
           x == task[k.task]
           a == [k EXCEPT !.step = "source", !.seen = x.state,
                          !.src = [NoSource EXCEPT !.gen = x.gen],
                          !.msg = IF k.op = "retry" THEN k.msg ELSE x.msg]
<1>1. CallOK(k) /\ k.step = "task" /\ x \in TaskRecord
  BY DEF ReceiverInv, CallsOK, ReadTask, StoreOK, CallOK, CallRecord
<1>2. x.state # "absent" => [NoSource EXCEPT !.gen = x.gen] \in SourceRecord
  <2>1. k.task \in Task
    BY <1>1 DEF CallOK, CallRecord
  <2> HIDE DEF k
  <2> QED BY <2>1, ReceiverAssumption
       DEF ReceiverInv, StoreOK, MarkedHasSource, SourceRecord, NoSource
<1>3. Fail(g) \/ (x.state # "absent" /\ Continue(g, a))
  BY DEF ReadTask
<1> HIDE DEF k, x
<1>4. x.state # "absent" => CallOK(a)
  BY <1>1, <1>2 DEF CallOK, CallRecord, Step, Op, Enqueues, Native, LeaseOps, TaskRecord
<1> HIDE DEF a
<1> QED BY <1>3, <1>4, BeginInv, FailInv

\* The source that is read has its shape.
LEMMA ReadSourceInv ==
    ASSUME ReceiverInv, NEW g \in Goroutine, ReadSource(g)
    PROVE  ReceiverInv'
<1> DEFINE k == call[g]
           a == [k EXCEPT !.step = "members", !.src = source[k.task]]
<1>1. CallOK(k) /\ k.step = "source" /\ source[k.task] \in SourceRecord
  BY DEF ReceiverInv, CallsOK, ReadSource, StoreOK, CallOK, CallRecord
<1>2. Fail(g) \/ Continue(g, a)
  BY DEF ReadSource
<1> HIDE DEF k
<1>3. CallOK(a)
  BY <1>1 DEF CallOK, CallRecord, Step, Op, Enqueues, Native, LeaseOps
<1> HIDE DEF a
<1> QED BY <1>2, <1>3, BeginInv, FailInv

\* The score is computed from the queue.
LEMMA ReadMembersInv ==
    ASSUME ReceiverInv, NEW g \in Goroutine, ReadMembers(g)
    PROVE  ReceiverInv'
<1> DEFINE k == call[g]
           a == [k EXCEPT !.step = "eval", !.score = NextScore(k)]
<1>1. CallOK(k) /\ k.step = "members"
  BY DEF ReceiverInv, CallsOK, ReadMembers
<1>2. Fail(g) \/ Continue(g, a)
  BY DEF ReadMembers
<1> HIDE DEF k
<1>3. NextScore(k) \in Int
  BY <1>1, NextScoreType DEF CallOK, Native, Op, LeaseOps, ReceiverInv
<1>4. CallOK(a)
  BY <1>1, <1>3 DEF CallOK, CallRecord, Step, Op, Enqueues, Native, LeaseOps
<1> HIDE DEF a
<1> QED BY <1>2, <1>4, BeginInv, FailInv

-----------------------------------------------------------------------------
(* The script.                                                             *)

\* The rows task t takes.
Stored(t) == TaskFields(task[t].state) + Members(task[t].state) + SourceRows(source[t])

\* The ledger is a natural number, being a sum of rows.
LEMMA StoredType ==
    ASSUME StoreOK
    PROVE  /\ [t \in Task |-> Stored(t)] \in [Task -> Nat]
           /\ rows = SumFunction([t \in Task |-> Stored(t)])
           /\ rows \in Nat
<1>1. ASSUME NEW t \in Task PROVE Stored(t) \in Nat
  BY DEF StoreOK, TaskRecord, SourceRecord, Stored, TaskFields, Members, SourceRows
<1> DEFINE w == [t \in Task |-> Stored(t)]
<1>2. w \in [Task -> Nat]
  BY <1>1
<1>3. rows = SumFunction(w)
  BY DEF StoreOK, LedgerExact, Stored
<1>4. rows \in Nat
  <2> HIDE DEF w
  <2> QED BY <1>2, <1>3, ReceiverAssumption, SumOfNats
<1> QED BY <1>2, <1>3, <1>4

\* A step that changes what one task takes, and the ledger by as much, keeps
\* the ledger exact.
LEMMA LedgerStep ==
    ASSUME StoreOK, NEW t \in Task,
           \A u \in Task \ {t} : Stored(u)' = Stored(u),
           Stored(t)' \in Nat,
           rows' = rows - Stored(t) + Stored(t)'
    PROVE  LedgerExact'
<1> DEFINE w == [u \in Task |-> Stored(u)]
           v == [u \in Task |-> Stored(u)']
<1>1. w \in [Task -> Nat] /\ rows = SumFunction(w)
  BY StoredType
<1>2. v \in [Task -> Nat]
  BY <1>1
<1>3. w[t] = Stored(t) /\ v[t] = Stored(t)' /\ \A u \in Task \ {t} : v[u] = w[u]
  OBVIOUS
<1>4. v = [u \in Task |-> Stored(u)]'
  OBVIOUS
<1> HIDE DEF w, v
<1>5. w \in [Task -> Int] /\ v \in [Task -> Int]
  BY <1>1, <1>2
<1>6. SumFunction(v) = SumFunction(w) - w[t] + v[t]
  BY <1>3, <1>5, ReceiverAssumption, SumChange
<1>7. rows' = SumFunction(v)
  BY <1>1, <1>3, <1>6
<1> QED BY <1>7 DEF v, LedgerExact, Stored

\* What no step takes back: a retired source stays retired, and a source's
\* revision grows unless the source goes.
Onward ==
    /\ \A t \in Task : Gone(t) => Gone(t)'
    /\ \A t \in Task : source[t].rev <= source'[t].rev \/ Gone(t)'
    /\ \A t \in Task : Retired(t) => Retired(t)'

\* An admitted operation is applied: its evidence ties it to the source as it is,
\* so the source was not gone and its revision goes up by one.
LEMMA ApplyStore ==
    ASSUME StoreOK, NEW k, CallOK(k), k.op \in Op \ {"release"}, Admitted(k),
           source[k.task].rev < MaxRev, Apply(k), inbox' = inbox
    PROVE  /\ StoreOK' /\ Onward
           /\ source[k.task] = k.src /\ source'[k.task].rev = k.src.rev + 1
           /\ ~Gone(k.task)
<1> DEFINE t == k.task
           gen == source[t].gen + (IF k.op \in Enqueues THEN 1 ELSE 0)
           x == IF k.op = "done" THEN Absent
                ELSE [state |-> NextState(k), gen |-> gen, msg |-> k.msg, score |-> NextScore(k),
                      lease |-> IF NextState(k) = "active" THEN k.next ELSE 0]
           y == [gen |-> gen, rev |-> source[t].rev + 1, ack |-> k.op]
<1>1. /\ t \in Task /\ k.msg \in Nat /\ k.next \in Nat /\ k.op \in Op
      /\ source[t] \in SourceRecord /\ task[t] \in TaskRecord
      /\ source[t].rev \in Nat /\ source[t].gen \in Nat /\ source[t].gen <= source[t].rev
  BY DEF CallOK, CallRecord, StoreOK, SourceRecord
<1>2. /\ NextScore(k) \in Int /\ NextState(k) \in TaskState
      /\ NextState(k) = "absent" <=> k.op = "done"
  BY NextScoreType, NextStateType
<1>3. source[t] = k.src
  BY DEF Admitted, EvidenceHolds
<1>4. gen \in Nat /\ gen <= source[t].rev + 1
  BY <1>1
<1>5. /\ task' = [task EXCEPT ![t] = x] /\ source' = [source EXCEPT ![t] = y]
      /\ rows' = RowsAfter(k)
  BY DEF Apply
<1>6. /\ x \in TaskRecord /\ x.state = NextState(k)
      /\ x.state = "absent" => x = Absent
      /\ x.state # "absent" => x.gen = gen
  <2>1. CASE k.op = "done"
    BY <1>2, <2>1, Shapes DEF Absent
  <2>2. CASE k.op # "done"
    <3> HIDE DEF gen
    <3> QED BY <1>1, <1>2, <1>4, <2>2 DEF TaskRecord
  <2> QED BY <2>1, <2>2
<1>7. y \in SourceRecord /\ y.gen = gen /\ y.rev = source[t].rev + 1
  <2> HIDE DEF gen
  <2> QED BY <1>1, <1>4, ReceiverAssumption DEF SourceRecord
<1>8. ~ Gone(t)
  <2>1. CASE k.op = "initial-enqueue"
    BY <2>1 DEF Admitted, Enqueues, EnqueueAdmitted, Gone
  <2>2. CASE k.op # "initial-enqueue"
    <3>1. k.src.rev > 0
      BY <2>2 DEF Admitted, Enqueues, EnqueueAdmitted, NativeAdmitted
    <3> QED BY <1>3, <3>1 DEF Gone, NoSource
  <2> QED BY <2>1, <2>2
<1> HIDE DEF x, y, gen, t
<1>9. /\ task' \in [Task -> TaskRecord] /\ source' \in [Task -> SourceRecord]
      /\ task'[t] = x /\ source'[t] = y
      /\ \A u \in Task \ {t} : task'[u] = task[u] /\ source'[u] = source[u]
  BY <1>1, <1>5, <1>6, <1>7 DEF StoreOK
<1>10. rows \in Nat
  BY StoredType
<1>11. SourceRows(y) = IF k.op = "initial-enqueue" THEN 12 ELSE 14
  <2>1. CASE k.op = "initial-enqueue"
    BY <1>3, <1>7, <2>1 DEF CallOK, NoSource, SourceRows
  <2>2. CASE k.op # "initial-enqueue"
    <3>1. k.src.rev > 0
      BY <2>2 DEF Admitted, Enqueues, EnqueueAdmitted, NativeAdmitted
    <3> QED BY <1>1, <1>3, <1>7, <2>2, <3>1 DEF SourceRows
  <2> QED BY <2>1, <2>2
<1>12. LedgerExact' /\ rows' <= RowLimit
  <2>1. \A u \in Task \ {t} : Stored(u)' = Stored(u)
    BY <1>9 DEF Stored
  <2>2. Stored(t)' = TaskFields(NextState(k)) + Members(NextState(k)) + SourceRows(y)
    BY <1>6, <1>9 DEF Stored
  <2>3. /\ TaskFields(NextState(k)) \in Nat /\ Members(NextState(k)) \in Nat
        /\ SourceRows(y) \in Nat
        /\ TaskFields(task[t].state) \in Nat /\ Members(task[t].state) \in Nat
        /\ SourceRows(source[t]) \in Nat
    BY <1>1, <1>2, <1>11 DEF TaskFields, Members, SourceRows, TaskRecord, TaskState
  <2>4. rows' = rows + (TaskFields(NextState(k)) - TaskFields(task[t].state))
                     + Members(NextState(k)) - Members(task[t].state)
                     + SourceRows(y) - SourceRows(source[t])
    BY <1>5, <1>11 DEF RowsAfter, KernelDelta, Usage, t
  <2>5. Stored(t) = TaskFields(task[t].state) + Members(task[t].state) + SourceRows(source[t])
    BY DEF Stored
  <2>6. rows' = rows - Stored(t) + Stored(t)' /\ Stored(t)' \in Nat /\ rows' \in Int
    BY <1>10, <2>2, <2>3, <2>4, <2>5
  <2>7. rows' <= RowLimit
    BY <1>5, <2>6, ReceiverAssumption DEF Admitted, RowsPeak, ReceiptRows
  <2> QED BY <1>1, <2>1, <2>6, <2>7, LedgerStep
<1>13. StoreOK'
  <2>1. ASSUME NEW u \in Task
        PROVE  /\ source'[u].gen <= source'[u].rev
               /\ source'[u].rev = 0 => source'[u] = NoSource
               /\ task'[u].state = "absent" => task'[u] = Absent
               /\ task'[u].state # "absent" => source'[u].rev > 0 /\ source'[u].gen = task'[u].gen
    <3>1. CASE u = t
      BY <1>1, <1>4, <1>6, <1>7, <1>9, <3>1
    <3>2. CASE u # t
      BY <1>9, <3>2 DEF StoreOK, MarkedHasSource
    <3> QED BY <3>1, <3>2
  <2> QED BY <1>9, <1>12, <2>1 DEF StoreOK, MarkedHasSource
<1>14. Onward
  <2>1. \A u \in Task : source[u].rev \in Nat
    BY DEF StoreOK, SourceRecord
  <2> QED BY <1>1, <1>7, <1>8, <1>9, <2>1 DEF Onward, Gone, Retired
<1> QED BY <1>3, <1>7, <1>8, <1>9, <1>13, <1>14 DEF t

\* An admitted release takes a source without a task, and its rows.
LEMMA ReleaseStore ==
    ASSUME StoreOK, NEW k, CallOK(k), ReleaseAdmitted(k), ReleaseSource(k), inbox' = inbox
    PROVE  StoreOK' /\ Onward /\ Retired(k.task)'
<1> DEFINE t == k.task
<1>1. /\ t \in Task /\ task[t] = Absent /\ inbox[t] = "committed"
      /\ source[t] \in SourceRecord
  BY DEF CallOK, CallRecord, ReleaseAdmitted, StoreOK
<1>2. /\ source' = [source EXCEPT ![t] = NoSource] /\ task' = task
      /\ rows' = rows - SourceRows(source[t])
  BY DEF ReleaseSource
<1> HIDE DEF t
<1>3. /\ source' \in [Task -> SourceRecord] /\ source'[t] = NoSource
      /\ \A u \in Task \ {t} : source'[u] = source[u]
  BY <1>1, <1>2, Shapes DEF StoreOK
<1>4. LedgerExact' /\ rows' <= RowLimit
  <2>1. \A u \in Task \ {t} : Stored(u)' = Stored(u)
    BY <1>2, <1>3 DEF Stored
  <2>2. Stored(t)' = 0 /\ Stored(t) = SourceRows(source[t]) /\ SourceRows(source[t]) \in Nat
    BY <1>1, <1>2, <1>3 DEF Stored, Absent, NoSource, TaskFields, Members, SourceRows, SourceRecord
  <2>3. rows \in Nat /\ rows <= RowLimit
    BY StoredType DEF StoreOK
  <2>4. rows' = rows - Stored(t) + Stored(t)' /\ rows' <= RowLimit
    BY <1>2, <2>2, <2>3, ReceiverAssumption
  <2> QED BY <1>1, <2>1, <2>2, <2>4, LedgerStep
<1>5. StoreOK'
  BY <1>1, <1>2, <1>3, <1>4 DEF StoreOK, MarkedHasSource, Absent, NoSource
<1>6. Onward
  <2>1. \A u \in Task : source[u].rev \in Nat
    BY DEF StoreOK, SourceRecord
  <2> QED BY <1>1, <1>2, <1>3, <2>1 DEF Onward, Gone, Retired
<1>7. Retired(t)'
  BY <1>1, <1>2, <1>3 DEF Retired
<1> QED BY <1>5, <1>6, <1>7 DEF t

\* Calls keep what they know, as nothing is taken back.
LEMMA CallsKept ==
    ASSUME CallsOK, Onward, NEW G,
           call' = [g \in Goroutine |-> IF g \in G THEN Idle ELSE call[g]]
    PROVE  CallsOK'
<1>1. ASSUME NEW g \in Goroutine PROVE CallOK(call'[g])
  BY IdleOK DEF CallsOK
<1>2. call' \in [Goroutine -> CallRecord]
  BY Shapes DEF CallsOK
<1>3. ASSUME NEW g \in Goroutine PROVE CallOK(call[g])'
  BY <1>1 DEF CallOK, Onward, CallRecord
<1> QED BY <1>2, <1>3 DEF CallsOK

\* A delivery stays behind its source.
LEMMA PassedKept ==
    ASSUME StoreOK, StoreOK', HeldOK, Onward, NEW s \in Server, NEW d \in held[s]
    PROVE  Passed(d)'
<1>1. d.task \in Task /\ d.rev \in Nat /\ Passed(d)
  BY DEF HeldOK, Delivery
<1>2. source[d.task].rev \in Nat /\ source'[d.task].rev \in Nat
  BY <1>1 DEF StoreOK, SourceRecord
<1> QED BY <1>1, <1>2 DEF Passed, Onward

\* The deliveries of one server after an operation of its own: those it had,
\* and after a dequeue one of the revision the dequeue made.
LEMMA DeliveredSet ==
    ASSUME NEW ds \in SUBSET Delivery, NEW k, CallOK(k), now \in Nat,
           k.op = "dequeue" => k.src.rev < MaxRev
    PROVE  /\ Delivered(ds, k) \in SUBSET Delivery
           /\ \A e \in Delivered(ds, k) :
                 \/ \E d \in ds : e.task = d.task /\ e.rev = d.rev
                 \/ k.op = "dequeue" /\ e.task = k.task /\ e.rev = k.src.rev + 1
<1>1. k.task \in Task /\ k.src.rev \in Nat /\ k.next \in Nat /\ k.picked \in Nat
  BY DEF CallOK, CallRecord, SourceRecord
<1>2. CASE k.op = "dequeue"
  BY <1>1, <1>2, ReceiverAssumption DEF Delivered, Delivery
<1>3. CASE k.op = "lease-extension"
  <2> DEFINE E(d) == [d EXCEPT !.lease = IF d.task = k.task /\ d.lease >= now
                                         THEN k.next ELSE d.lease]
  <2>1. Delivered(ds, k) = {E(d) : d \in ds}
    BY <1>3 DEF Delivered
  <2>2. \A d \in ds : E(d) \in Delivery /\ E(d).task = d.task /\ E(d).rev = d.rev
    BY <1>1 DEF Delivery
  <2> HIDE DEF E
  <2> QED BY <2>1, <2>2
<1>4. CASE k.op \in {"requeue", "retry", "done"}
  BY <1>4 DEF Delivered
<1>5. CASE k.op \notin {"dequeue", "lease-extension", "requeue", "retry", "done"}
  BY <1>5 DEF Delivered
<1> QED BY <1>2, <1>3, <1>4, <1>5

\* Whether operation k has gone through, when the script has run.
Done(k) ==
    IF k.op = "release" THEN ReleaseAdmitted(k) \/ Retired(k.task)
    ELSE Admitted(k) \/ Replayed(k)

\* What the script does to the store, whichever way it goes.
LEMMA EvalStore ==
    ASSUME ReceiverInv, NEW g \in Goroutine, NEW k, k = call[g], Eval(g)
    PROVE  /\ StoreOK' /\ Onward
           /\ Done(k) /\ k.op = "release" => Retired(k.task)'
           /\ Done(k) /\ k.op = "dequeue" =>
                 /\ source[k.task] = k.src /\ source'[k.task].rev = k.src.rev + 1
                 /\ ~Gone(k.task) /\ k.src.rev < MaxRev
<1>1. /\ StoreOK /\ CallOK(k) /\ k.op \in Op /\ k.task \in Task /\ inbox' = inbox
  BY DEF ReceiverInv, CallsOK, CallOK, CallRecord, Eval
<1>2. CASE k.op = "release" /\ ReleaseAdmitted(k)
  <2>1. ReleaseSource(k)
    BY <1>2 DEF Eval
  <2>2. StoreOK' /\ Onward /\ Retired(k.task)'
    BY <1>1, <1>2, <2>1, ReleaseStore
  <2> QED BY <1>2, <2>2
<1>3. CASE k.op # "release" /\ ~Replayed(k) /\ Admitted(k)
  <2>1. Apply(k) /\ source[k.task].rev < MaxRev
    BY <1>3 DEF Eval
  <2> QED BY <1>1, <1>3, <2>1, ApplyStore
<1>4. CASE /\ ~(k.op = "release" /\ ReleaseAdmitted(k))
           /\ ~(k.op # "release" /\ ~Replayed(k) /\ Admitted(k))
  <2>1. UNCHANGED <<task, source, rows>>
    BY <1>4 DEF Eval
  <2>2. k.op = "dequeue" => ~Done(k)
    BY <1>4 DEF Done, Replayed
  <2>3. StoreOK'
    BY <1>1, <2>1 DEF StoreOK, MarkedHasSource, LedgerExact
  <2>4. Onward
    BY <1>1, <2>1 DEF Onward, Gone, Retired, StoreOK, SourceRecord
  <2>5. Done(k) /\ k.op = "release" => Retired(k.task)'
    BY <1>1, <1>4, <2>4 DEF Done, Onward
  <2> QED BY <2>2, <2>3, <2>4, <2>5
<1> QED BY <1>2, <1>3, <1>4

\* The script and its reply.  After a dequeue the server holds a delivery of the
\* new revision, which no delivery had.
LEMMA EvalInv ==
    ASSUME ReceiverInv, NEW g \in Goroutine, Eval(g)
    PROVE  ReceiverInv'
<1> PICK k : k = call[g]
  OBVIOUS
<1> DEFINE s == g[1]
           done == Done(k)
<1>1. /\ StoreOK /\ CallsOK /\ HeldOK /\ RestOK /\ CallOK(k) /\ k.op \in Op /\ s \in Server
      /\ k.task \in Task /\ inbox' = inbox /\ now' = now
  BY Shapes DEF ReceiverInv, CallsOK, CallOK, CallRecord, Eval
<1>2. /\ StoreOK' /\ Onward
      /\ done /\ k.op = "release" => Retired(k.task)'
      /\ done /\ k.op = "dequeue" =>
            /\ source[k.task] = k.src /\ source'[k.task].rev = k.src.rev + 1
            /\ ~Gone(k.task) /\ k.src.rev < MaxRev
  BY EvalStore
<1>3. CASE UNCHANGED <<call, held, beaten, released>>
  <2> PICK G : G = {}
    OBVIOUS
  <2>1. call' = [h \in Goroutine |-> IF h \in G THEN Idle ELSE call[h]]
    <3>1. call = [h \in Goroutine |-> call[h]]
      BY <1>1 DEF CallsOK
    <3> QED BY <1>3, <3>1
  <2>2. CallsOK'
    BY <1>1, <1>2, <2>1, CallsKept
  <2>3. HeldOK'
    <3>1. \A r \in Server : \A d \in held[r] : Passed(d)'
      BY <1>1, <1>2, PassedKept
    <3> QED BY <1>1, <1>3, <3>1 DEF HeldOK, DeliveredOnce, Passed
  <2>4. RestOK'
    BY <1>1, <1>2, <1>3 DEF RestOK, ReleaseMeansRetired, Onward
  <2> QED BY <1>2, <2>2, <2>3, <2>4 DEF ReceiverInv
<1>4. CASE /\ Return(g, k)
           /\ held' = [held EXCEPT ![s] = IF done THEN Delivered(held[s], k) ELSE held[s]]
           /\ released' = IF done /\ k.op = "release" THEN released \union {k.task} ELSE released
  <2> HIDE DEF s, done
  <2>1. CallsOK'
    <3>1. call' = [h \in Goroutine |-> IF h \in {g} THEN Idle ELSE call[h]]
      BY <1>1, <1>4 DEF CallsOK, Return
    <3> QED BY <1>1, <1>2, <3>1, CallsKept
  <2>2. HeldOK'
    <3>1. now \in Nat /\ held[s] \in SUBSET Delivery
      BY <1>1, ReceiverAssumption DEF RestOK, HeldOK
    <3>2. CASE done
      <4>1. k.op = "dequeue" => k.src.rev < MaxRev
        BY <1>2, <3>2
      <4>2. /\ Delivered(held[s], k) \in SUBSET Delivery
            /\ \A e \in Delivered(held[s], k) :
                 \/ \E d \in held[s] : e.task = d.task /\ e.rev = d.rev
                 \/ k.op = "dequeue" /\ e.task = k.task /\ e.rev = k.src.rev + 1
        BY <1>1, <3>1, <4>1, DeliveredSet
      <4>3. /\ held' \in [Server -> SUBSET Delivery]
            /\ held'[s] = Delivered(held[s], k)
            /\ \A r \in Server : r # s => held'[r] = held[r]
        BY <1>1, <1>4, <3>2, <4>2 DEF HeldOK
      <4>4. \A r \in Server : \A e \in held'[r] :
              \/ \E d \in held[r] : e.task = d.task /\ e.rev = d.rev
              \/ r = s /\ k.op = "dequeue" /\ e.task = k.task /\ e.rev = k.src.rev + 1
        BY <4>2, <4>3
      <4>5. ASSUME NEW r \in Server, NEW e \in held'[r] PROVE Passed(e)'
        <5>1. CASE \E d \in held[r] : e.task = d.task /\ e.rev = d.rev
          <6>1. PICK d \in held[r] : e.task = d.task /\ e.rev = d.rev
            BY <5>1
          <6>2. Passed(d)'
            BY <1>1, <1>2, PassedKept
          <6> QED BY <6>1, <6>2 DEF Passed, Gone
        <5>2. CASE k.op = "dequeue" /\ e.task = k.task /\ e.rev = k.src.rev + 1
          <6>1. k.src.rev \in Nat
            BY <1>1 DEF CallOK, CallRecord, SourceRecord
          <6> QED BY <1>2, <3>2, <5>2, <6>1 DEF Passed
        <5> QED BY <4>4, <5>1, <5>2
      <4>6. ASSUME k.op = "dequeue", NEW r \in Server, NEW d \in held[r], d.task = k.task
            PROVE  d.rev # k.src.rev + 1
        <5>1. Passed(d) /\ d.rev \in Nat
          BY <1>1 DEF HeldOK, Delivery
        <5>2. d.rev <= k.src.rev
          BY <1>2, <3>2, <4>6, <5>1 DEF Passed
        <5>3. k.src.rev \in Nat
          BY <1>1 DEF CallOK, CallRecord, SourceRecord
        <5> QED BY <5>1, <5>2, <5>3
      <4>7. DeliveredOnce'
        <5>1. SUFFICES ASSUME NEW q \in Server, NEW r \in Server, q # r,
                              NEW d \in held'[q], NEW e \in held'[r], d.task = e.task
                       PROVE  d.rev # e.rev
          BY DEF DeliveredOnce
        <5>2. CASE q = s
          <6>1. held'[r] = held[r]
            BY <4>3, <5>1, <5>2
          <6> QED BY <1>1, <4>4, <4>6, <5>1, <5>2, <6>1 DEF HeldOK, DeliveredOnce
        <5>3. CASE q # s
          <6>1. held'[q] = held[q]
            BY <4>3, <5>3
          <6> QED BY <1>1, <4>4, <4>6, <5>1, <5>3, <6>1 DEF HeldOK, DeliveredOnce
        <5> QED BY <5>2, <5>3
      <4> QED BY <4>3, <4>5, <4>7 DEF HeldOK
    <3>3. CASE ~done
      <4>1. held' = held
        BY <1>1, <1>4, <3>3 DEF HeldOK
      <4>2. \A r \in Server : \A d \in held[r] : Passed(d)'
        BY <1>1, <1>2, PassedKept
      <4> QED BY <1>1, <4>1, <4>2 DEF HeldOK, DeliveredOnce, Passed
    <3> QED BY <3>2, <3>3
  <2>3. RestOK'
    <3>1. beaten' \subseteq Server
      BY <1>1, <1>4 DEF Return, RestOK, s
    <3>2. released' \subseteq Task
      BY <1>1, <1>4 DEF RestOK
    <3>3. ~EarlyRelease => ReleaseMeansRetired'
      BY <1>1, <1>2, <1>4 DEF RestOK, ReleaseMeansRetired, Onward
    <3> QED BY <1>1, <3>1, <3>2, <3>3 DEF RestOK
  <2> QED BY <1>2, <2>1, <2>2, <2>3 DEF ReceiverInv
<1> QED BY <1>3, <1>4 DEF Eval, Done

-----------------------------------------------------------------------------
(* The rest: what ends a call or a server, the handler, and the clock.      *)

\* A server that dies takes its calls and deliveries along.
LEMMA CrashInv ==
    ASSUME ReceiverInv, NEW s \in Server, Crash(s)
    PROVE  ReceiverInv'
<1>1. /\ UNCHANGED <<unstored, beaten, released, now>>
      /\ held' = [held EXCEPT ![s] = {}]
      /\ call' = [g \in Goroutine |-> IF g[1] = s THEN Idle ELSE call[g]]
  BY DEF Crash
<1>2. StoreOK'
  BY <1>1 DEF ReceiverInv, StoreOK, MarkedHasSource, LedgerExact, unstored
<1>3. Onward
  BY <1>1 DEF Onward, Gone, Retired, ReceiverInv, StoreOK, SourceRecord, unstored
<1>4. CallsOK'
  <2> DEFINE G == {g \in Goroutine : g[1] = s}
  <2>1. call' = [g \in Goroutine |-> IF g \in G THEN Idle ELSE call[g]]
    BY <1>1
  <2> HIDE DEF G
  <2> QED BY <1>3, <2>1, CallsKept DEF ReceiverInv
<1>5. HeldOK'
  BY <1>1 DEF ReceiverInv, HeldOK, DeliveredOnce, Passed, Gone, unstored
<1>6. RestOK'
  BY <1>1 DEF ReceiverInv, RestOK, ReleaseMeansRetired, Retired, unstored
<1> QED BY <1>2, <1>4, <1>5, <1>6 DEF ReceiverInv

\* A worker drops a delivery.
LEMMA AbandonInv ==
    ASSUME ReceiverInv, NEW s \in Server, NEW d \in held[s], Abandon(s, d)
    PROVE  ReceiverInv'
<1>1. /\ UNCHANGED <<unstored, call, beaten, released, now>>
      /\ held' = [held EXCEPT ![s] = held[s] \ {d}]
  BY DEF Abandon
<1>2. StoreOK'
  BY <1>1 DEF ReceiverInv, StoreOK, MarkedHasSource, LedgerExact, unstored
<1>3. CallsOK'
  BY <1>1 DEF ReceiverInv, CallsOK, CallOK, Gone, unstored
<1>4. HeldOK'
  BY <1>1 DEF ReceiverInv, HeldOK, DeliveredOnce, Passed, Gone, unstored
<1>5. RestOK'
  BY <1>1 DEF ReceiverInv, RestOK, ReleaseMeansRetired, Retired, unstored
<1> QED BY <1>2, <1>3, <1>4, <1>5 DEF ReceiverInv

\* The effect commits; nothing ever takes that back.
LEMMA CommitInv ==
    ASSUME ReceiverInv, NEW s \in Server, NEW d \in held[s], Commit(s, d)
    PROVE  ReceiverInv'
<1>1. /\ UNCHANGED <<task, source, rows, call, held, beaten, released, now>>
      /\ inbox' = [inbox EXCEPT ![d.task] = "committed"]
  BY DEF Commit
<1>2. StoreOK'
  BY <1>1 DEF ReceiverInv, StoreOK, MarkedHasSource, LedgerExact
<1>3. \A t \in Task : inbox[t] = "committed" => inbox'[t] = "committed"
  BY <1>1 DEF ReceiverInv, StoreOK
<1>4. CallsOK'
  <2>1. ASSUME NEW g \in Goroutine PROVE CallOK(call[g])'
    <3>1. CallOK(call[g]) /\ call'[g] = call[g] /\ call[g].task \in Task
      BY <1>1 DEF ReceiverInv, CallsOK, CallRecord
    <3> QED BY <1>1, <1>3, <3>1 DEF CallOK, Gone
  <2> QED BY <1>1, <2>1 DEF ReceiverInv, CallsOK
<1>5. HeldOK'
  BY <1>1, <1>3 DEF ReceiverInv, HeldOK, DeliveredOnce, Passed, Gone, Delivery
<1>6. RestOK'
  BY <1>1, <1>3 DEF ReceiverInv, RestOK, ReleaseMeansRetired, Retired
<1> QED BY <1>2, <1>4, <1>5, <1>6 DEF ReceiverInv

\* Time passes.
LEMMA TickInv ==
    ASSUME ReceiverInv, Tick
    PROVE  ReceiverInv'
<1>1. UNCHANGED <<unstored, call, held, released>> /\ beaten' = {} /\ now' \in 0..MaxTime
  BY ReceiverAssumption DEF Tick, ReceiverInv, RestOK
<1>2. StoreOK' /\ CallsOK'
  BY <1>1 DEF ReceiverInv, StoreOK, MarkedHasSource, LedgerExact, CallsOK, CallOK, Gone, unstored
<1>3. HeldOK'
  BY <1>1 DEF ReceiverInv, HeldOK, DeliveredOnce, Passed, Gone, unstored
<1>4. RestOK'
  BY <1>1 DEF ReceiverInv, RestOK, ReleaseMeansRetired, Retired, unstored
<1> QED BY <1>2, <1>3, <1>4 DEF ReceiverInv

-----------------------------------------------------------------------------
(* The theorems.                                                           *)

\* Nothing is stored at first.
LEMMA InitInv == Init => ReceiverInv
<1> SUFFICES ASSUME Init PROVE ReceiverInv
  OBVIOUS
<1>1. StoreOK
  <2>1. /\ task \in [Task -> TaskRecord] /\ source \in [Task -> SourceRecord]
        /\ inbox \in [Task -> {"reserved", "committed"}]
    BY Shapes DEF Init
  <2>2. LedgerExact
    <3>1. [t \in Task |-> TaskFields(task[t].state) + Members(task[t].state)
                             + SourceRows(source[t])] = [t \in Task |-> 0]
      BY DEF Init, Absent, NoSource, TaskFields, Members, SourceRows
    <3> QED BY <3>1, ReceiverAssumption, SumOfZeros DEF LedgerExact, Init
  <2>3. \A t \in Task : task[t] = Absent /\ source[t] = NoSource
    BY DEF Init
  <2> QED BY <2>1, <2>2, <2>3, ReceiverAssumption
       DEF StoreOK, MarkedHasSource, Absent, NoSource, Init
<1>2. CallsOK
  BY Shapes, IdleOK DEF Init, CallsOK
<1>3. HeldOK
  BY DEF Init, HeldOK, DeliveredOnce
<1>4. RestOK
  BY ReceiverAssumption DEF Init, RestOK, ReleaseMeansRetired
<1> QED BY <1>1, <1>2, <1>3, <1>4 DEF ReceiverInv

\* Every step preserves the invariant.
LEMMA StepInv ==
    ASSUME ReceiverInv, [Next]_vars
    PROVE  ReceiverInv'
<1>1. CASE UNCHANGED vars
  BY <1>1 DEF vars, ReceiverInv, StoreOK, MarkedHasSource, LedgerExact, CallsOK, CallOK,
              HeldOK, DeliveredOnce, RestOK, ReleaseMeansRetired, Retired, Passed, Gone
<1>2. ASSUME NEW s \in Server, NEW t \in Task,
             \/ \E place \in {"pending", "scheduled"} : EnqueueReceiverTarget(s, t, place)
             \/ ReleaseReceiverTarget(s, t) \/ Forward(s, t) \/ Recover(s, t)
      PROVE  ReceiverInv'
  BY <1>2, EnqueueInv, ReleaseInv, ForwardInv, RecoverInv
<1>3. ASSUME NEW s \in Server, Dequeue(s) \/ ExtendLease(s) \/ Crash(s)
      PROVE  ReceiverInv'
  BY <1>3, DequeueInv, ExtendLeaseInv, CrashInv
<1>4. ASSUME NEW s \in Server, NEW d \in held[s],
             \/ Commit(s, d) \/ Abandon(s, d)
             \/ \E op \in {"requeue", "retry", "done"} : Finish(s, d, op)
      PROVE  ReceiverInv'
  BY <1>4, CommitInv, AbandonInv, FinishInv
<1>5. ASSUME NEW g \in Goroutine, ReadStep(g) PROVE ReceiverInv'
  BY <1>5, RecoveryReadInv, RetiredReadTaskInv, RetiredReadInboxInv, ReleaseReadSourceInv,
     ReadTaskInv, ReadSourceInv, ReadMembersInv DEF ReadStep
<1>6. ASSUME NEW g \in Goroutine, Eval(g) \/ GiveUp(g) PROVE ReceiverInv'
  BY <1>6, EvalInv, FailInv DEF GiveUp
<1>7. CASE Tick
  BY <1>7, TickInv
<1> QED BY <1>1, <1>2, <1>3, <1>4, <1>5, <1>6, <1>7 DEF Next

\* The invariant holds throughout.
LEMMA ReceiverInvariance == ReceiverSpec => []ReceiverInv
<1>1. ReceiverInv /\ [Next]_vars => ReceiverInv'
  BY StepInv
<1> QED BY InitInv, <1>1, PTL DEF ReceiverSpec

\* The invariant contains the type invariant.
LEMMA InvTypes == ReceiverInv => ReceiverTypeOK
<1> SUFFICES ASSUME ReceiverInv PROVE ReceiverTypeOK
  OBVIOUS
<1>1. rows \in 0..RowLimit
  BY StoredType, ReceiverAssumption DEF ReceiverInv, StoreOK
<1>2. ASSUME NEW t \in Task
      PROVE  /\ task[t].state \in TaskState /\ task[t].score \in Int
             /\ {task[t].gen, task[t].msg, task[t].lease} \subseteq Nat
             /\ source[t] \in SourceRecord
             /\ inbox[t] \in {"reserved", "committed"}
  BY DEF ReceiverInv, StoreOK, TaskRecord
<1>3. ASSUME NEW g \in Goroutine
      PROVE  call[g].src \in SourceRecord /\ call[g].seen \in TaskState
  BY DEF ReceiverInv, CallsOK, CallRecord
<1>4. ASSUME NEW s \in Server, NEW d \in held[s] PROVE d.task \in Task /\ d.rev \in 1..MaxRev
  BY DEF ReceiverInv, HeldOK, Delivery
<1> QED BY <1>1, <1>2, <1>3, <1>4 DEF ReceiverTypeOK, ReceiverInv, RestOK

\* Every record keeps its shape, a source never counts more revisions than it
\* had operations, and the ledger stays between nothing and its limit, as the
\* projection of the script demands (receiver_target_queue.go).
THEOREM ReceiverTypeTheorem == ReceiverSpec => []ReceiverTypeOK
BY ReceiverInvariance, InvTypes, PTL

\* A marked task in the queue has its source, of its own generation, whatever
\* the snapshots of the operations in flight say.
THEOREM MarkedTheorem == ReceiverSpec => []MarkedHasSource
<1>1. ReceiverInv => MarkedHasSource
  BY DEF ReceiverInv, StoreOK
<1> QED BY <1>1, ReceiverInvariance, PTL

\* The capacity ledger is exact to the row after every script, for any number
\* of tasks, although the deltas come from snapshots of the callers.
THEOREM LedgerTheorem == ReceiverSpec => []LedgerExact
<1>1. ReceiverInv => LedgerExact
  BY DEF ReceiverInv, StoreOK
<1> QED BY <1>1, ReceiverInvariance, PTL

\* No two servers are given the same revision of a task, although they may
\* select the same head of the queue and replies may be lost.
THEOREM DeliveredOnceTheorem == ReceiverSpec => []DeliveredOnce
<1>1. ReceiverInv => DeliveredOnce
  BY DEF ReceiverInv, HeldOK
<1> QED BY <1>1, ReceiverInvariance, PTL

\* Where Release is called only for effects that have committed, its success
\* means that the source is retired, although it answers from three separate
\* reads.
THEOREM ReleaseTheorem == ~EarlyRelease /\ ReceiverSpec => []ReleaseMeansRetired
<1>1. ASSUME ~EarlyRelease PROVE ReceiverSpec => []ReleaseMeansRetired
  <2>1. ReceiverInv => ReleaseMeansRetired
    BY <1>1 DEF ReceiverInv, RestOK
  <2> QED BY <2>1, ReceiverInvariance, PTL
<1> QED BY <1>1

\* A retired effect stays retired: no enqueue that was on its way brings it back.
THEOREM RetiredTheorem == ReceiverSpec => RetiredForever
<1>1. ASSUME ReceiverInv, [Next]_vars
      PROVE  \A t \in Task : Retired(t) => Retired(t)'
  <2>1. CASE \E g \in Goroutine : Eval(g)
    BY <1>1, <2>1, EvalStore DEF Onward
  <2>2. CASE \E s \in Server : \E d \in held[s] : Commit(s, d)
    BY <1>1, <2>2 DEF Commit, Retired, ReceiverInv, StoreOK
  <2>3. CASE UNCHANGED unstored
    BY <2>3 DEF unstored, Retired
  <2> QED BY <1>1, <2>1, <2>2, <2>3
       DEF Next, vars, unstored, EnqueueReceiverTarget, ReleaseReceiverTarget, Forward, Recover,
           Dequeue, ExtendLease, Crash, Abandon, Finish, ReadStep, GiveUp, Tick, BeginLeased,
           Begin, Continue, Fail, Return, RecoveryReadTask, RecoveryReadSource, RetiredReadTask,
           RetiredReadInbox, ReleaseReadSource, ReadTask, ReadSource, ReadMembers
<1>2. ReceiverInv /\ [Next]_vars => [\A t \in Task : Retired(t) => Retired(t)']_vars
  BY <1>1
<1> QED BY <1>2, ReceiverInvariance, PTL DEF ReceiverSpec, RetiredForever
=============================================================================
