---------------------------- MODULE PlannerProofs ----------------------------
(***************************************************************************)
(* What Planner guarantees for every plan, any number of tasks and retries *)
(* and any removal of agents.                                              *)
(***************************************************************************)
EXTENDS Planner, Iteration, FiniteSetTheorems

\* A _run_task that has not ended goes with its task's status, and it was made
\* for a task that was ready.
CoroMatches ==
    \A t \in Task :
        /\ status[t] = "running" <=> coro[t] \in {"running", "raised"}
        /\ coro[t] = "created" => status[t] = "pending"
        /\ coro[t] # "none" => \A d \in plan.deps[t] : status[d] = "completed"

\* Every dependency of the plan is a task, or nothing has happened to the tasks:
\* the router has not answered yet, or its answer was refused.
Closed == \A t \in Task : plan.deps[t] \subseteq Task

Untouched == \A t \in Task : status[t] = "pending" /\ coro[t] = "none"

PlanFits ==
    /\ phase = "plan" => Untouched
    /\ phase = "execute" => Closed
    /\ Closed \/ Untouched

\* The retry that _replan_failures adds is the only one beyond max_retries.
RetriesCounted ==
    \A t \in Task : /\ retries[t] <= MaxRetries + 1
                    /\ ~again => retries[t] <= MaxRetries

Inv ==
    /\ TypeOK
    /\ CoroMatches
    /\ PlanFits
    /\ DependenciesFirst
    /\ RetriesCounted

-----------------------------------------------------------------------------

\* Init establishes the invariant.
LEMMA InitInv == Init => Inv
PROOF
<1> SUFFICES ASSUME Init PROVE Inv
  OBVIOUS
<1>1. TypeOK
  <2>1. phase \in Phase /\ again \in BOOLEAN /\ plan \in Plans \cup {NoPlan}
    BY DEF Init, Phase
  <2>2. /\ status \in [Task -> Status] /\ retries \in [Task -> Nat]
        /\ coro \in [Task -> Coro]
    BY DEF Init, Status, Coro
  <2>3. registry \subseteq Agent /\ removed \in 0..MaxRemoved
    BY PlannerAssumption DEF Init
  <2> QED BY <2>1, <2>2, <2>3 DEF TypeOK
<1>2. CoroMatches /\ Untouched /\ DependenciesFirst
  BY DEF Init, CoroMatches, Untouched, DependenciesFirst
<1>3. PlanFits
  BY <1>2 DEF Init, PlanFits
<1>4. RetriesCounted
  BY PlannerAssumption DEF Init, RetriesCounted
<1> QED BY <1>1, <1>2, <1>3, <1>4 DEF Inv

\* The step of execute between two rounds: it is taken when the invariant holds
\* of the plan it is given and no _run_task is under way.
LEMMA ContinueInv ==
    ASSUME NEW p, plan' = p,
           \A t \in Task : p.deps[t] \subseteq Task,
           status \in [Task -> Status], retries \in [Task -> Nat],
           again \in BOOLEAN, RetriesCounted,
           \A t \in Task : status[t] # "running",
           \A t \in Task : status[t] \in {"completed", "failed"} =>
               \A d \in p.deps[t] : status[d] = "completed",
           Continue(p.deps)
    PROVE  /\ phase' \in Phase \ {"plan"} /\ again' \in BOOLEAN
           /\ status' \in [Task -> Status] /\ retries' \in [Task -> Nat]
           /\ coro' \in [Task -> Coro]
           /\ CoroMatches' /\ DependenciesFirst' /\ RetriesCounted'
           /\ \A t \in Task : status[t] = "completed" => status'[t] = "completed"
PROOF
<1> USE PlannerAssumption
<1>1. CASE /\ Ready(status, p.deps) # {}
           /\ StartRound(status, retries, p.deps)
           /\ UNCHANGED again
  <2>1. /\ phase' = "execute" /\ status' = status /\ retries' = retries
        /\ coro' = [t \in Task |-> IF t \in Ready(status, p.deps)
                                   THEN "created" ELSE "none"]
    BY <1>1 DEF StartRound
  <2>2. CoroMatches' /\ DependenciesFirst'
    BY <2>1 DEF CoroMatches, DependenciesFirst, Ready
  <2> QED BY <1>1, <2>1, <2>2 DEF RetriesCounted, Phase, Coro
<1>2. CASE /\ Ready(status, p.deps) = {}
           /\ HasFailures(Skipped(status)) /\ ~again
           /\ again' = TRUE
           /\ StartRound(Reopen(Skipped(status)),
                         RetriesReopened(Skipped(status), retries), p.deps)
  <2> DEFINE st == Reopen(Skipped(status))
             rt == RetriesReopened(Skipped(status), retries)
  <2>1. /\ st \in [Task -> Status]
        /\ \A t \in Task : st[t] = "completed" <=> status[t] = "completed"
        /\ \A t \in Task : st[t] \in {"pending", "completed"}
    BY DEF Reopen, Skipped, Status
  <2>2. /\ rt \in [Task -> Nat]
        /\ \A t \in Task : rt[t] <= MaxRetries + 1
    BY <1>2 DEF RetriesReopened, RetriesCounted
  <2>3. /\ phase' = "execute" /\ status' = st /\ retries' = rt
        /\ coro' = [t \in Task |-> IF t \in Ready(st, p.deps) THEN "created" ELSE "none"]
    BY <1>2 DEF StartRound
  <2> HIDE DEF st, rt
  <2>4. CoroMatches'
    BY <2>1, <2>3 DEF CoroMatches, Ready
  <2>5. DependenciesFirst'
    <3> SUFFICES ASSUME NEW t \in Task, status'[t] \in {"running", "completed", "failed"},
                        NEW d \in p.deps[t]
                 PROVE  status'[d] = "completed"
      BY DEF DependenciesFirst
    <3>1. status[t] = "completed"
      BY <2>1, <2>3
    <3>2. status[d] = "completed"
      BY <3>1
    <3>3. d \in Task
      OBVIOUS
    <3> QED BY <2>1, <2>3, <3>2, <3>3
  <2> QED BY <1>2, <2>1, <2>2, <2>3, <2>4, <2>5 DEF RetriesCounted, Phase, Coro
<1>3. CASE /\ Ready(status, p.deps) = {}
           /\ Synthesize(Skipped(status), retries)
           /\ UNCHANGED again
  <2>1. /\ Skipped(status) \in [Task -> Status]
        /\ \A t \in Task : Skipped(status)[t] =
               IF status[t] = "pending" THEN "skipped" ELSE status[t]
    BY DEF Skipped, Status
  <2>2. /\ phase' \in {"synthesize", "answered"}
        /\ status' = Skipped(status) /\ retries' = retries
        /\ coro' = [t \in Task |-> "none"]
    BY <1>3 DEF Synthesize
  <2>3. CoroMatches' /\ DependenciesFirst'
    BY <2>1, <2>2 DEF CoroMatches, DependenciesFirst
  <2> QED BY <1>3, <2>1, <2>2, <2>3 DEF RetriesCounted, Phase, Coro
<1> QED BY <1>1, <1>2, <1>3 DEF Continue

\* A step that leaves the plan and the tasks alone keeps the invariant.
LEMMA UntouchedTasksInv ==
    ASSUME Inv, UNCHANGED <<again, plan, status, retries, coro>>,
           registry' \subseteq Agent, removed' \in 0..MaxRemoved,
           phase' \in Phase \ {"plan"} \/ phase' = phase,
           phase' = "execute" => phase = "execute"
    PROVE  Inv'
PROOF
<1>1. TypeOK'
  BY DEF Inv, TypeOK, Phase
<1>2. CoroMatches' /\ DependenciesFirst' /\ RetriesCounted'
  BY DEF Inv, CoroMatches, DependenciesFirst, RetriesCounted
<1>3. PlanFits'
  BY DEF Inv, PlanFits, Closed, Untouched
<1> QED BY <1>1, <1>2, <1>3 DEF Inv

\* Every step of the run keeps the invariant and what is completed.
LEMMA NextInv ==
    ASSUME Inv, [Next]_vars
    PROVE  /\ Inv'
           /\ \A t \in Task : status[t] = "completed" => status'[t] = "completed"
PROOF
<1> USE PlannerAssumption
<1> DEFINE Kept == \A t \in Task : status[t] = "completed" => status'[t] = "completed"
<1>1. CASE PlanAccepted
  <2>1. PICK p \in Plans : /\ plan' = p
                           /\ \A t \in Task : p.deps[t] \subseteq Task
                           /\ Continue(p.deps)
    BY <1>1 DEF PlanAccepted, ValidGraph
  <2>2. Untouched
    BY <1>1 DEF PlanAccepted, Inv, PlanFits
  <2>3. /\ phase' \in Phase \ {"plan"} /\ again' \in BOOLEAN
        /\ status' \in [Task -> Status] /\ retries' \in [Task -> Nat]
        /\ coro' \in [Task -> Coro]
        /\ CoroMatches' /\ DependenciesFirst' /\ RetriesCounted' /\ Kept
    BY <2>1, <2>2, ContinueInv DEF Inv, TypeOK, Untouched
  <2>4. TypeOK'
    BY <1>1, <2>1, <2>3 DEF PlanAccepted, Inv, TypeOK
  <2>5. PlanFits'
    BY <2>1, <2>3 DEF PlanFits, Closed
  <2> QED BY <2>3, <2>4, <2>5 DEF Inv
<1>2. CASE PlanRefused
  <2>1. /\ phase = "plan" /\ phase' = "raised"
        /\ UNCHANGED <<again, status, retries, coro, registry, removed>>
        /\ plan' \in Plans \cup {NoPlan}
    BY <1>2 DEF PlanRefused, RaisesFrom, Inv, TypeOK
  <2>2. Untouched /\ Untouched'
    BY <2>1 DEF Inv, PlanFits, Untouched
  <2>3. TypeOK'
    BY <2>1 DEF Inv, TypeOK, Phase
  <2>4. CoroMatches' /\ DependenciesFirst'
    BY <2>2 DEF CoroMatches, DependenciesFirst, Untouched
  <2>5. RetriesCounted' /\ PlanFits' /\ Kept
    BY <2>1, <2>2 DEF Inv, RetriesCounted, PlanFits
  <2> QED BY <2>3, <2>4, <2>5 DEF Inv
<1>3. CASE RoundEnds
  <2>1. phase = "execute" /\ Closed /\ plan' = plan /\ Continue(plan.deps)
    BY <1>3 DEF RoundEnds, Inv, PlanFits
  <2>2. \A t \in Task : status[t] # "running"
    BY <1>3 DEF RoundEnds, Inv, CoroMatches
  <2>3. \A t \in Task : status[t] \in {"completed", "failed"} =>
            \A d \in plan.deps[t] : status[d] = "completed"
    BY DEF Inv, DependenciesFirst
  <2>4. /\ phase' \in Phase \ {"plan"} /\ again' \in BOOLEAN
        /\ status' \in [Task -> Status] /\ retries' \in [Task -> Nat]
        /\ coro' \in [Task -> Coro]
        /\ CoroMatches' /\ DependenciesFirst' /\ RetriesCounted' /\ Kept
    <3>1. /\ status \in [Task -> Status] /\ retries \in [Task -> Nat]
          /\ again \in BOOLEAN /\ RetriesCounted
          /\ \A t \in Task : plan.deps[t] \subseteq Task
      BY <2>1 DEF Inv, TypeOK, Closed
    <3> QED BY <2>1, <2>2, <2>3, <3>1, ContinueInv
  <2>5. TypeOK'
    BY <1>3, <2>1, <2>4 DEF RoundEnds, Inv, TypeOK
  <2>6. PlanFits'
    BY <2>1, <2>4 DEF PlanFits, Closed
  <2> QED BY <2>4, <2>5, <2>6 DEF Inv
<1>4. CASE RoundRaises \/ Answer \/ SynthesisFails \/ \E a \in Agent : RemoveAgent(a)
  <2>1. /\ UNCHANGED <<again, plan, status, retries, coro>>
        /\ registry' \subseteq Agent /\ removed' \in 0..MaxRemoved
        /\ phase' \in Phase \ {"plan"} \/ phase' = phase
        /\ phase' = "execute" => phase = "execute"
    BY <1>4 DEF RoundRaises, Answer, SynthesisFails, RemoveAgent, RaisesFrom,
                Inv, TypeOK, Phase
  <2> QED BY <2>1, UntouchedTasksInv
<1>5. ASSUME NEW t \in Task, RunTask(t)
      PROVE  Inv' /\ Kept
  <2>1. /\ coro[t] \in {"created", "running"} /\ ~Untouched /\ Closed
        /\ status[t] \in {"pending", "running"}
        /\ \A d \in plan.deps[t] : status[d] = "completed"
        /\ UNCHANGED <<phase, again, plan, registry, removed>>
    BY <1>5 DEF RunTask, Start, RunSucceeds, RunFails, Inv, PlanFits, Untouched,
                CoroMatches
  <2>2. \/ /\ status' = [status EXCEPT ![t] = "running"]
           /\ \E c \in {"running", "raised"} : coro' = [coro EXCEPT ![t] = c]
           /\ UNCHANGED retries
        \/ /\ \E o \in {"completed", "failed"} : status' = [status EXCEPT ![t] = o]
           /\ coro' = [coro EXCEPT ![t] = "none"]
           /\ UNCHANGED retries
        \/ /\ status' = [status EXCEPT ![t] = "pending"]
           /\ coro' = [coro EXCEPT ![t] = "none"]
           /\ retries[t] < MaxRetries
           /\ retries' = [retries EXCEPT ![t] = @ + 1]
    BY <1>5 DEF RunTask, Start, RunSucceeds, RunFails, MayRetry
  <2>3. TypeOK'
    BY <2>1, <2>2 DEF Inv, TypeOK, Status, Coro
  <2>4. Kept
    BY <2>1, <2>2 DEF Inv, TypeOK
  <2>5. DependenciesFirst'
    <3> SUFFICES ASSUME NEW u \in Task,
                        status'[u] \in {"running", "completed", "failed"},
                        NEW d \in plan.deps[u]
                 PROVE  status'[d] = "completed"
      BY <2>1 DEF DependenciesFirst
    <3>1. status[d] = "completed"
      BY <2>1, <2>2 DEF Inv, TypeOK, DependenciesFirst
    <3> QED BY <2>1, <2>4, <3>1 DEF Closed
  <2>6. CoroMatches'
    <3> SUFFICES ASSUME NEW u \in Task
                 PROVE  /\ status'[u] = "running" <=> coro'[u] \in {"running", "raised"}
                        /\ coro'[u] = "created" => status'[u] = "pending"
                        /\ coro'[u] # "none" =>
                               \A d \in plan.deps[u] : status'[d] = "completed"
      BY <2>1 DEF CoroMatches
    <3>1. /\ status'[u] = "running" <=> coro'[u] \in {"running", "raised"}
          /\ coro'[u] = "created" => status'[u] = "pending"
      BY <2>2 DEF Inv, TypeOK, CoroMatches
    <3>2. coro'[u] # "none" => coro[u] # "none"
      BY <2>1, <2>2 DEF Inv, TypeOK
    <3>3. coro[u] # "none" => \A d \in plan.deps[u] : status[d] = "completed"
      BY DEF Inv, CoroMatches
    <3> QED BY <2>1, <2>4, <3>1, <3>2, <3>3 DEF Closed
  <2>7. RetriesCounted'
    BY <2>1, <2>2 DEF Inv, TypeOK, RetriesCounted
  <2>8. PlanFits'
    BY <2>1 DEF Inv, PlanFits, Closed
  <2> QED BY <2>3, <2>4, <2>5, <2>6, <2>7, <2>8 DEF Inv
<1>6. CASE UNCHANGED vars
  BY <1>6, UntouchedTasksInv DEF vars, Inv, TypeOK
<1> QED BY <1>1, <1>2, <1>3, <1>4, <1>5, <1>6 DEF Next, Run

-----------------------------------------------------------------------------
(* _validate_plan                                                          *)

\* a[n] is what the first n passes of the loop resolve.
Passes(a, deps) ==
    /\ a[0] = {}
    /\ \A n \in Nat : a[n + 1] = a[n] \cup {t \in Task : deps[t] \subseteq a[n]}

\* The passes of the loop, as many as there are tasks, give what Resolved says.
LEMMA ResolvedUnfolds ==
    ASSUME NEW deps
    PROVE  \E a \in [Nat -> SUBSET Task] :
               Passes(a, deps) /\ Resolved(deps) = a[Cardinality(Task)]
<1> DEFINE Pass(X) == X \cup {t \in Task : deps[t] \subseteq X}
           G == [X \in SUBSET Task |-> Pass(X)]
           last == Cardinality(Task)
           after[n \in 0..last] ==
               IF n = 0 THEN {}
               ELSE after[n - 1] \cup {t \in Task : deps[t] \subseteq after[n - 1]}
<1>1. last \in Nat
  BY PlannerAssumption, FS_CardinalityType
<1>2. G \in [SUBSET Task -> SUBSET Task] /\ {} \in SUBSET Task
  OBVIOUS
<1>3. \A X \in SUBSET Task : G[X] = Pass(X)
  OBVIOUS
<1>4. Resolved(deps) = after[last]
  BY DEF Resolved
<1> HIDE DEF G, last
<1>5. PICK a \in [Nat -> SUBSET Task] : IteratesOn(a, {}, G)
  BY <1>2, IterationExists
<1>6. a[0] = {} /\ \A n \in Nat : a[n + 1] = Pass(a[n])
  BY <1>3, <1>5 DEF IteratesOn
<1> DEFINE h == [n \in 0..last |-> a[n]]
<1>7. h = [n \in 0..last |-> IF n = 0 THEN {} ELSE Pass(h[n - 1])]
  <2>1. ASSUME NEW n \in 0..last
        PROVE  h[n] = IF n = 0 THEN {} ELSE Pass(h[n - 1])
    <3>1. CASE n = 0
      BY <1>1, <1>6, <3>1
    <3>2. CASE n # 0
      <4>1. n - 1 \in Nat /\ n - 1 \in 0..last /\ (n - 1) + 1 = n
        BY <1>1, <3>2
      <4>2. a[(n - 1) + 1] = Pass(a[n - 1])
        BY <1>6, <4>1
      <4> HIDE DEF Pass
      <4> QED BY <3>2, <4>1, <4>2
    <3> QED BY <3>1, <3>2
  <2> HIDE DEF Pass
  <2> QED BY <2>1
<1> HIDE DEF h
<1>8. after = [n \in 0..last |-> IF n = 0 THEN {} ELSE Pass(after[n - 1])]
  BY <1>7
<1> HIDE DEF after, Pass
<1>9. after[last] = a[last]
  <2> DEFINE S == {n \in Nat : n <= last => after[n] = a[n]}
  <2>1. 0 \in S
    BY <1>1, <1>6, <1>8
  <2>2. ASSUME NEW n \in Nat, n \in S
        PROVE  n + 1 \in S
    <3> SUFFICES ASSUME n + 1 <= last PROVE after[n + 1] = a[n + 1]
      OBVIOUS
    <3>1. after[n] = a[n] /\ n + 1 \in 0..last /\ n + 1 # 0 /\ (n + 1) - 1 = n
      BY <1>1, <2>2
    <3>2. after[n + 1] = Pass(after[(n + 1) - 1])
      BY <1>8, <3>1
    <3> QED BY <1>6, <3>1, <3>2
  <2> HIDE DEF S
  <2>3. Nat \subseteq S
    BY <2>1, <2>2, Induct
  <2> QED BY <1>1, <2>3 DEF S
<1>10. Passes(a, deps)
  BY <1>6 DEF Passes, Pass
<1> QED BY <1>4, <1>9, <1>10 DEF last

\* The tasks of an accepted plan hold no cycle: of any of them, one has no
\* dependency among them.
LEMMA ValidHasNoCycle ==
    ASSUME NEW deps, ValidGraph(deps),
           NEW B \in SUBSET Task, \A t \in B : deps[t] \cap B # {}
    PROVE  B = {}
<1>1. PICK a \in [Nat -> SUBSET Task] :
          Passes(a, deps) /\ Resolved(deps) = a[Cardinality(Task)]
  BY ResolvedUnfolds
<1> DEFINE S == {n \in Nat : a[n] \cap B = {}}
<1>2. 0 \in S
  BY <1>1 DEF Passes
<1>3. ASSUME NEW n \in Nat, n \in S
      PROVE  n + 1 \in S
  <2>1. a[n + 1] = a[n] \cup {t \in Task : deps[t] \subseteq a[n]}
    BY <1>1 DEF Passes
  <2>2. ASSUME NEW t \in B
        PROVE  t \notin a[n + 1]
    BY <1>3, <2>1
  <2> QED BY <2>2
<1> HIDE DEF S
<1>4. Nat \subseteq S
  BY <1>2, <1>3, Induct
<1>5. Cardinality(Task) \in Nat
  BY PlannerAssumption, FS_CardinalityType
<1>6. a[Cardinality(Task)] \cap B = {}
  BY <1>4, <1>5 DEF S
<1> QED BY <1>1, <1>6 DEF ValidGraph

\* A ranking of the tasks, each above what it depends on.
Ranks(rank, deps) ==
    \A t \in Task : \A d \in deps[t] : d \in Task /\ rank[d] < rank[t]

\* The passes accept a plan exactly if its tasks can be ranked.
LEMMA ValidIsRanked ==
    ASSUME NEW deps
    PROVE  ValidGraph(deps) <=>
               \E rank \in [Task -> 1..Cardinality(Task)] : Ranks(rank, deps)
<1>1. PICK last \in Nat : last = Cardinality(Task)
  BY PlannerAssumption, FS_CardinalityType
<1>2. PICK a \in [Nat -> SUBSET Task] : Passes(a, deps) /\ Resolved(deps) = a[last]
  BY <1>1, ResolvedUnfolds
<1>3. ASSUME ValidGraph(deps)
      PROVE  \E rank \in [Task -> 1..last] : Ranks(rank, deps)
  <2> DEFINE Level(t) == {n \in Nat : t \in a[n]}
  <2>1. ASSUME NEW t \in Task
        PROVE  \E n \in 1..last : /\ n \in Level(t)
                                  /\ \A m \in Level(t) : n <= m
    <3>1. last \in Level(t)
      BY <1>2, <1>3 DEF ValidGraph
    <3>2. Level(t) \subseteq Nat
      OBVIOUS
    <3> HIDE DEF Level
    <3>3. PICK n \in Level(t) : \A m \in Level(t) : n <= m
      BY <3>1, <3>2, LeastOf
    <3>4. n # 0
      BY <1>2 DEF Passes, Level
    <3>5. n \in 1..last
      BY <3>1, <3>2, <3>3, <3>4
    <3> QED BY <3>3, <3>5
  <2> HIDE DEF Level
  <2> DEFINE least(t) == CHOOSE n \in 1..last : /\ n \in Level(t)
                                                /\ \A m \in Level(t) : n <= m
             rank == [t \in Task |-> least(t)]
  <2>2. ASSUME NEW t \in Task
        PROVE  /\ rank[t] \in 1..last /\ rank[t] \in Level(t)
               /\ \A m \in Level(t) : rank[t] <= m
    BY <2>1
  <2> HIDE DEF least
  <2>3. rank \in [Task -> 1..last]
    BY <2>2
  <2> HIDE DEF rank
  <2>4. ASSUME NEW t \in Task, NEW d \in deps[t]
        PROVE  d \in Task /\ rank[d] < rank[t]
    <3>1. d \in Task
      BY <1>3 DEF ValidGraph
    <3>2. PICK n \in Nat : n + 1 = rank[t]
      <4>1. rank[t] \in 1..last
        BY <2>2
      <4>2. rank[t] - 1 \in Nat /\ (rank[t] - 1) + 1 = rank[t]
        BY <4>1
      <4> QED BY <4>2
    <3>3. t \in a[n + 1] /\ t \notin a[n]
      BY <2>2, <3>2 DEF Level
    <3>4. d \in a[n]
      BY <1>2, <3>3 DEF Passes
    <3>5. rank[d] <= n /\ rank[d] \in Nat
      BY <2>2, <3>1, <3>4 DEF Level
    <3> QED BY <3>1, <3>2, <3>5
  <2> QED BY <2>3, <2>4 DEF Ranks
<1>4. ASSUME NEW rank \in [Task -> 1..last], Ranks(rank, deps)
      PROVE  ValidGraph(deps)
  <2> DEFINE S == {n \in Nat : \A t \in Task : rank[t] <= n => t \in a[n]}
  <2>1. 0 \in S
    OBVIOUS
  <2>2. ASSUME NEW n \in Nat, n \in S
        PROVE  n + 1 \in S
    <3>1. ASSUME NEW t \in Task, rank[t] <= n + 1
          PROVE  t \in a[n + 1]
      <4>1. ASSUME NEW d \in deps[t]
            PROVE  d \in a[n]
        <5>1. d \in Task /\ rank[d] < rank[t]
          BY <1>4 DEF Ranks
        <5>2. rank[d] \in Int /\ rank[t] \in Int /\ rank[d] <= n
          BY <3>1, <5>1
        <5> QED BY <2>2, <5>1, <5>2
      <4> QED BY <1>2, <4>1 DEF Passes
    <3> QED BY <3>1
  <2> HIDE DEF S
  <2>3. Nat \subseteq S
    BY <2>1, <2>2, Induct
  <2>4. a[last] = Task
    <3>1. \A t \in Task : rank[t] <= last
      OBVIOUS
    <3>2. \A t \in Task : t \in a[last]
      BY <2>3, <3>1 DEF S
    <3> QED BY <3>2
  <2> QED BY <1>1, <1>2, <1>4, <2>4 DEF ValidGraph, Ranks
<1> QED BY <1>1, <1>3, <1>4

-----------------------------------------------------------------------------
(* What a failure takes with it                                            *)

\* Only an accepted plan is executed; nothing is skipped before the execution
\* is over, and nothing runs after it, unless it raised.
ConeInv ==
    /\ phase = "execute" => ValidGraph(plan.deps)
    /\ phase \in {"plan", "execute"} => \A t \in Task : status[t] # "skipped"
    /\ phase \in {"synthesize", "answered"} => \A t \in Task : coro[t] = "none"
    /\ FailureCone

\* The step of execute between two rounds, for a plan that is valid.
LEMMA ContinueCone ==
    ASSUME NEW p, plan' = p, ValidGraph(p.deps),
           status \in [Task -> Status],
           \A t \in Task : status[t] \notin {"running", "skipped"},
           Continue(p.deps)
    PROVE  ConeInv'
<1>1. ASSUME NEW st, \A t \in Task : st[t] # "skipped",
             NEW rt, StartRound(st, rt, p.deps)
      PROVE  ConeInv'
  <2>1. phase' = "execute" /\ status' = st
    BY <1>1 DEF StartRound
  <2> QED BY <1>1, <2>1 DEF ConeInv, FailureCone, ValidGraph, Resolved
<1>2. CASE Ready(status, p.deps) # {} /\ StartRound(status, retries, p.deps)
  BY <1>1, <1>2
<1>3. CASE StartRound(Reopen(Skipped(status)), RetriesReopened(Skipped(status), retries),
                      p.deps)
  <2>1. PICK st : st = Reopen(Skipped(status))
    OBVIOUS
  <2>2. \A t \in Task : st[t] # "skipped"
    BY <2>1 DEF Reopen
  <2> QED BY <1>1, <1>3, <2>1, <2>2
<1>4. CASE Ready(status, p.deps) = {} /\ Synthesize(Skipped(status), retries)
  <2>0. PICK st : st = Skipped(status)
    OBVIOUS
  <2>1. \A t \in Task : st[t] = IF status[t] = "pending" THEN "skipped" ELSE status[t]
    BY <2>0 DEF Skipped
  <2>2. /\ phase' \in {"synthesize", "answered"} /\ status' = st
        /\ \A t \in Task : coro'[t] = "none"
    BY <1>4, <2>0 DEF Synthesize
  <2> DEFINE Up(t) == {u \in Task : \A S \in SUBSET Task :
                          p.deps[t] \subseteq S /\ (\A d \in S : p.deps[d] \subseteq S)
                              => u \in S}
             B == {t \in Task : st[t] = "skipped" /\ ~ \E u \in Up(t) : st[u] = "failed"}
  <2>3. ASSUME NEW t \in B
        PROVE  p.deps[t] \cap B # {}
    <3>1. status[t] = "pending" /\ t \in Task
      BY <2>1
    <3>2. PICK d \in p.deps[t] : status[d] # "completed"
      BY <1>4, <3>1 DEF Ready
    <3>3. d \in Task
      BY <3>1, <3>2 DEF ValidGraph
    <3>4. st[d] \in {"failed", "skipped"}
      BY <2>1, <3>2, <3>3 DEF Status
    <3>5. d \in Up(t)
      BY <3>2, <3>3
    <3>6. \A u \in Up(d) : u \in Up(t)
      BY <3>2, <3>3
    <3> HIDE DEF Up
    <3>7. ~ \E u \in Up(t) : st[u] = "failed"
      BY DEF B
    <3>8. st[d] = "skipped" /\ ~ \E u \in Up(d) : st[u] = "failed"
      BY <3>4, <3>5, <3>6, <3>7
    <3> QED BY <3>2, <3>3, <3>8
  <2>4. B \in SUBSET Task
    OBVIOUS
  <2> HIDE DEF B
  <2>5. B = {}
    BY <2>3, <2>4, ValidHasNoCycle
  <2>6. \A t \in Task : Upstream(t)' = Up(t)
    BY DEF Upstream
  <2> HIDE DEF Up
  <2>7. ASSUME NEW t \in Task
        PROVE  \/ status'[t] = "completed"
               \/ status'[t] = "failed"
               \/ status'[t] = "skipped" /\ \E u \in Upstream(t)' : status'[u] = "failed"
    <3>1. st[t] \in {"completed", "failed", "skipped"}
      BY <2>1 DEF Status
    <3> QED BY <2>2, <2>5, <2>6, <3>1 DEF B
  <2>8. FailureCone'
    BY <2>7 DEF FailureCone
  <2> QED BY <2>2, <2>8 DEF ConeInv
<1> QED BY <1>2, <1>3, <1>4 DEF Continue

\* Every step of the run keeps it.
LEMMA ConeStep ==
    ASSUME Inv, ConeInv, [Next]_vars
    PROVE  ConeInv'
<1>1. CASE PlanAccepted
  <2>1. PICK p \in Plans : plan' = p /\ ValidGraph(p.deps) /\ Continue(p.deps)
    BY <1>1 DEF PlanAccepted
  <2>2. status \in [Task -> Status] /\ Untouched
    BY <1>1 DEF PlanAccepted, Inv, TypeOK, PlanFits
  <2> QED BY <2>1, <2>2, ContinueCone DEF Untouched
<1>2. CASE RoundEnds
  <2>1. phase = "execute" /\ plan' = plan /\ Continue(plan.deps) /\ ValidGraph(plan.deps)
    BY <1>2 DEF RoundEnds, ConeInv
  <2>2. status \in [Task -> Status] /\ \A t \in Task : status[t] \notin {"running", "skipped"}
    BY <1>2, <2>1 DEF RoundEnds, Inv, TypeOK, CoroMatches, ConeInv
  <2>3. PICK p : p = plan
    OBVIOUS
  <2> QED BY <2>1, <2>2, <2>3, ContinueCone
<1>3. CASE phase' = "raised"
  BY <1>3 DEF ConeInv, FailureCone
<1>4. ASSUME UNCHANGED <<plan, status, coro>>,
             phase' = phase \/ (phase = "synthesize" /\ phase' = "answered")
      PROVE  ConeInv'
  <2>1. FailureCone'
    BY <1>4 DEF ConeInv, FailureCone, Upstream
  <2> QED BY <1>4, <2>1 DEF ConeInv, ValidGraph, Resolved
<1>5. ASSUME NEW t \in Task, RunTask(t)
      PROVE  ConeInv'
  <2>1. /\ coro[t] # "none" /\ UNCHANGED <<phase, plan>>
        /\ \E o \in Status \ {"skipped"} : status' = [status EXCEPT ![t] = o]
    BY <1>5 DEF RunTask, Start, RunSucceeds, RunFails, Status
  <2>2. phase \notin {"synthesize", "answered"}
    BY <2>1 DEF ConeInv
  <2>3. phase \in {"plan", "execute"} => \A u \in Task : status'[u] # "skipped"
    BY <2>1 DEF ConeInv, Inv, TypeOK
  <2> QED BY <2>1, <2>2, <2>3 DEF ConeInv, FailureCone, ValidGraph, Resolved
<1>6. CASE PlanRefused \/ RoundRaises \/ SynthesisFails
  BY <1>3, <1>6 DEF PlanRefused, RoundRaises, SynthesisFails, RaisesFrom
<1>7. CASE Answer \/ (\E a \in Agent : RemoveAgent(a)) \/ UNCHANGED vars
  <2>1. /\ UNCHANGED <<plan, status, coro>>
        /\ phase' = phase \/ (phase = "synthesize" /\ phase' = "answered")
    BY <1>7 DEF Answer, RemoveAgent, vars
  <2> QED BY <1>4, <2>1
<1> QED BY <1>1, <1>2, <1>5, <1>6, <1>7 DEF Next, Run

-----------------------------------------------------------------------------

\* The invariant holds in every state of every run.
LEMMA Invariant == Spec => []Inv
<1>1. Inv /\ [Next]_vars => Inv'
  BY NextInv
<1> QED BY InitInv, <1>1, PTL DEF Spec

\* The variables of a run of planner.run keep their types.
THEOREM TypeCorrect == Spec => []TypeOK
<1>1. Inv => TypeOK
  BY DEF Inv
<1> QED BY Invariant, <1>1, PTL

\* No task starts before all its dependencies have completed, whatever the
\* plan, the retries, the second chance and the agents removed meanwhile.
THEOREM DependenciesComeFirst == Spec => []DependenciesFirst
<1>1. Inv => DependenciesFirst
  BY DEF Inv
<1> QED BY Invariant, <1>1, PTL

\* No task is tried more than max_retries + 2 times.
THEOREM RetriesStayBounded == Spec => []RetriesBounded
<1>1. Inv => RetriesBounded
  BY DEF Inv, RetriesCounted, RetriesBounded
<1> QED BY Invariant, <1>1, PTL

\* What is completed is never run again, and the second chance of the failed
\* tasks does not touch it.
THEOREM CompletedForGood == Spec => CompletedStays
<1>1. Inv /\ [Next]_vars =>
          [\A t \in Task : status[t] = "completed" => status'[t] = "completed"]_vars
  BY NextInv
<1> QED BY Invariant, <1>1, PTL DEF Spec, CompletedStays

\* The passes of _validate_plan accept exactly the plans without unknown
\* dependencies and without a cycle, for any number of tasks.
THEOREM ValidationIsExact == Spec => []ValidationExact
<1>1. ValidationExact
  BY ValidIsRanked DEF ValidationExact, Ranks
<1> QED BY <1>1, PTL

\* When a plan has been executed, every task has completed or failed, or was
\* skipped because something it depends on, directly or not, has failed: for
\* any plan, retries, second chance and order in which a round's tasks end
\* (execute, _replan_failures).
THEOREM FailuresTakeTheirCone == Spec => []FailureCone
<1>1. Init => ConeInv
  BY DEF Init, ConeInv, FailureCone
<1>2. Inv /\ ConeInv /\ [Next]_vars => ConeInv'
  BY ConeStep
<1>3. ConeInv => FailureCone
  BY DEF ConeInv
<1> QED BY Invariant, <1>1, <1>2, <1>3, PTL DEF Spec
=============================================================================
