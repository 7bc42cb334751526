-------------------------------- MODULE Planner --------------------------------
(***************************************************************************)
(* core/mascarade/orchestrator/planner.py: one call of                     *)
(* PlanAndExecuteOrchestrator.run.  The router is asked for a plan, a      *)
(* graph of tasks; the tasks that are ready run together, round by round;  *)
(* failed tasks get one more chance; the results are synthesized.          *)
(*                                                                         *)
(* asyncio.gather makes one asyncio task of every _run_task of a round.    *)
(* These start one after the other and end in any order.  One action is    *)
(* the code from one await to the next, of run or of a _run_task.          *)
(***************************************************************************)
EXTENDS Naturals, FiniteSets

CONSTANTS
    Task,        \* the ids of the plan
    UnknownTask, \* a dependency that is no id of the plan
    Agent,       \* agent names
    Plans,       \* what the router may answer: records of deps and agent
    MaxRetries,  \* max_retries
    MaxRemoved   \* bound: agents removed from the registry during the run

ASSUME PlannerAssumption ==
    /\ IsFiniteSet(Task) /\ UnknownTask \notin Task
    /\ Plans \subseteq [deps  : [Task -> SUBSET (Task \cup {UnknownTask})],
                        agent : [Task -> Agent]]
    /\ MaxRetries \in Nat
    /\ MaxRemoved \in Nat

VARIABLES
    phase,     \* where run is
    again,     \* has _replan_failures been called?
    plan,      \* the router's answer
    status,    \* status[t]: TaskNode.status
    retries,   \* retries[t]: TaskNode.retries
    coro,      \* coro[t]: the _run_task of t in the gather of this round
    registry,  \* the names in AgentRegistry._agents
    removed    \* how many were removed

vars == <<phase, again, plan, status, retries, coro, registry, removed>>

Status == {"pending", "running", "completed", "failed", "skipped"}

\* What run awaits, or how it ended.
Phase == {"plan", "execute", "synthesize", "answered", "raised"}

Coro == {"none", "created", "running", "raised"}

NoPlan == [deps |-> [t \in Task |-> {}], agent |-> [t \in Task |-> "none"]]

-----------------------------------------------------------------------------
(* _validate_plan                                                          *)

\* The ids that the first n passes of the loop resolve.
Resolved(deps) ==
    LET after[n \in 0..Cardinality(Task)] ==
            IF n = 0 THEN {}
            ELSE after[n - 1] \cup {t \in Task : deps[t] \subseteq after[n - 1]}
    IN  after[Cardinality(Task)]

\* Fault: only a task that depends on itself is found to be a cycle.
NoSelfLoop(deps) ==
    /\ \A t \in Task : deps[t] \subseteq Task
    /\ \A t \in Task : t \notin deps[t]

ValidGraph(deps) ==
    /\ \A t \in Task : deps[t] \subseteq Task
    /\ Resolved(deps) = Task

-----------------------------------------------------------------------------
(* execute, from the end of a round to the next await                      *)

\* Fault: a failed dependency counts as done.
ReadyAfterFailure(st, deps) ==
    {t \in Task : /\ st[t] = "pending"
                  /\ \A d \in deps[t] : st[d] \in {"completed", "failed"}}

\* ready_tasks
Ready(st, deps) ==
    {t \in Task : /\ st[t] = "pending"
                  /\ \A d \in deps[t] : st[d] = "completed"}

\* Nothing is ready: what is still pending never will be.
Skipped(st) == [t \in Task |-> IF st[t] = "pending" THEN "skipped" ELSE st[t]]

HasFailures(st) == \E t \in Task : st[t] = "failed"

StartRound(st, rt, deps) ==
    /\ phase' = "execute"
    /\ status' = st
    /\ retries' = rt
    /\ coro' = [t \in Task |-> IF t \in Ready(st, deps) THEN "created" ELSE "none"]

\* Faults of _replan_failures: skipped tasks are forgotten, the whole plan is
\* run again.
ReopenFailed(st) ==
    [t \in Task |-> IF st[t] = "failed" THEN "pending" ELSE st[t]]

ReopenAll(st) == [t \in Task |-> "pending"]

\* _replan_failures
Reopen(st) ==
    [t \in Task |-> IF st[t] \in {"failed", "skipped"} THEN "pending" ELSE st[t]]

\* Fault: reopened tasks get a retry back.
RetriesGivenBack(st, rt) ==
    [t \in Task |-> IF st[t] \in {"failed", "skipped"} THEN rt[t] - 1 ELSE rt[t]]

RetriesReopened(st, rt) ==
    [t \in Task |-> IF st[t] = "failed" THEN rt[t] + 1 ELSE rt[t]]

\* synthesize: the router is asked only if there are several results.
Synthesize(st, rt) ==
    /\ phase' = IF Cardinality({t \in Task : st[t] = "completed"}) > 1
                THEN "synthesize" ELSE "answered"
    /\ status' = st
    /\ retries' = rt
    /\ coro' = [t \in Task |-> "none"]

\* The loop of execute goes on; when it is over, run reopens the failed tasks
\* and executes again, once, or synthesizes.
Continue(deps) ==
    \/ /\ Ready(status, deps) # {}
       /\ StartRound(status, retries, deps)
       /\ UNCHANGED again
    \/ /\ Ready(status, deps) = {}
       /\ LET st == Skipped(status)
          IN  \/ /\ HasFailures(st) /\ ~again
                 /\ again' = TRUE
                 /\ StartRound(Reopen(st), RetriesReopened(st, retries), deps)
              \/ /\ again \/ ~HasFailures(st)
                 /\ Synthesize(st, retries)
                 /\ UNCHANGED again

-----------------------------------------------------------------------------
(* The steps of run                                                        *)

RaisesFrom(from) ==
    /\ phase = from
    /\ phase' = "raised"
    /\ UNCHANGED <<again, status, retries, coro, registry, removed>>

\* The router answered with a plan that passes validation.
PlanAccepted ==
    /\ phase = "plan"
    /\ \E p \in Plans :
          /\ plan' = p
          /\ ValidGraph(p.deps) /\ \A t \in Task : p.agent[t] \in registry
          /\ Continue(p.deps)
    /\ UNCHANGED <<registry, removed>>

\* It answered with one that does not, or not at all.
PlanRefused ==
    /\ RaisesFrom("plan")
    /\ \/ UNCHANGED plan
       \/ \E p \in Plans :
             /\ plan' = p
             /\ ~(ValidGraph(p.deps) /\ \A t \in Task : p.agent[t] \in registry)

\* gather returns: every _run_task of the round has.
RoundEnds ==
    /\ phase = "execute"
    /\ \A t \in Task : coro[t] = "none"
    /\ Continue(plan.deps)
    /\ UNCHANGED <<plan, registry, removed>>

\* gather raises what one of them raised; the others go on.
RoundRaises ==
    /\ \E t \in Task : coro[t] = "raised"
    /\ RaisesFrom("execute")
    /\ UNCHANGED plan

Answer ==
    /\ phase = "synthesize"
    /\ phase' = "answered"
    /\ UNCHANGED <<again, plan, status, retries, coro, registry, removed>>

SynthesisFails ==
    /\ RaisesFrom("synthesize")
    /\ UNCHANGED plan

-----------------------------------------------------------------------------
(* The steps of _run_task                                                  *)

\* Up to the await of agent.run.  The look-up of the agent is outside the try.
Start(t) ==
    /\ coro[t] = "created"
    /\ status' = [status EXCEPT ![t] = "running"]
    /\ coro' = [coro EXCEPT ![t] = IF plan.agent[t] \in registry
                                   THEN "running" ELSE "raised"]
    /\ UNCHANGED <<phase, again, plan, retries, registry, removed>>

RunSucceeds(t) ==
    /\ coro[t] = "running"
    /\ status' = [status EXCEPT ![t] = "completed"]
    /\ coro' = [coro EXCEPT ![t] = "none"]
    /\ UNCHANGED <<phase, again, plan, retries, registry, removed>>

\* Fault: one retry too many.
MayRetryOnceMore(t) == retries[t] <= MaxRetries

MayRetry(t) == retries[t] < MaxRetries

\* Fault: retries are not counted.
RunFailsUncounted(t) ==
    /\ coro[t] = "running"
    /\ status' = [status EXCEPT ![t] = IF MayRetry(t)
                                       THEN "pending" ELSE "failed"]
    /\ coro' = [coro EXCEPT ![t] = "none"]
    /\ UNCHANGED <<phase, again, plan, retries, registry, removed>>

\* The agent raised, or timeout_per_task passed.
RunFails(t) ==
    /\ coro[t] = "running"
    /\ IF MayRetry(t)
       THEN /\ status' = [status EXCEPT ![t] = "pending"]
            /\ retries' = [retries EXCEPT ![t] = @ + 1]
       ELSE /\ status' = [status EXCEPT ![t] = "failed"]
            /\ UNCHANGED retries
    /\ coro' = [coro EXCEPT ![t] = "none"]
    /\ UNCHANGED <<phase, again, plan, registry, removed>>

\* DELETE of an agent, by another client.
RemoveAgent(a) ==
    /\ a \in registry /\ removed < MaxRemoved
    /\ registry' = registry \ {a}
    /\ removed' = removed + 1
    /\ UNCHANGED <<phase, again, plan, status, retries, coro>>

-----------------------------------------------------------------------------

Init ==
    /\ phase = "plan"
    /\ again = FALSE
    /\ plan = NoPlan
    /\ status = [t \in Task |-> "pending"]
    /\ retries = [t \in Task |-> 0]
    /\ coro = [t \in Task |-> "none"]
    /\ registry = Agent
    /\ removed = 0

Run ==
    \/ PlanAccepted \/ PlanRefused \/ RoundEnds \/ RoundRaises
    \/ Answer \/ SynthesisFails

RunTask(t) == Start(t) \/ RunSucceeds(t) \/ RunFails(t)

Next ==
    \/ Run
    \/ \E t \in Task : RunTask(t)
    \/ \E a \in Agent : RemoveAgent(a)

Spec == Init /\ [][Next]_vars

\* The router's clients have timeouts, wait_for bounds every agent, and the
\* event loop serves every task.
FairSpec == Spec /\ WF_vars(Run) /\ \A t \in Task : WF_vars(RunTask(t))

-----------------------------------------------------------------------------
(* Correctness                                                             *)

TypeOK ==
    /\ phase \in Phase
    /\ again \in BOOLEAN
    /\ plan \in Plans \cup {NoPlan}
    /\ status \in [Task -> Status]
    /\ retries \in [Task -> Nat]
    /\ coro \in [Task -> Coro]
    /\ registry \subseteq Agent
    /\ removed \in 0..MaxRemoved

\* The passes of _validate_plan accept exactly the graphs without unknown
\* dependencies and without a cycle, those whose tasks can be ranked.
ValidationExact ==
    LET n == Cardinality(Task)
    IN  ValidGraph(plan.deps) <=>
            \E rank \in [Task -> 1..n] :
                \A t \in Task : \A d \in plan.deps[t] :
                    d \in Task /\ rank[d] < rank[t]

\* A task that was ever started has the results of all its dependencies, also
\* after retries, after the failed tasks were reopened, and among the tasks
\* that go on after run has raised.
DependenciesFirst ==
    \A t \in Task :
        status[t] \in {"running", "completed", "failed"} =>
            \A d \in plan.deps[t] : status[d] = "completed"

\* A completed task is never run again, and keeps its result.
CompletedStays ==
    [][\A t \in Task : status[t] = "completed" => status'[t] = "completed"]_vars

\* No task is run more than max_retries + 2 times.
RetriesBounded == \A t \in Task : retries[t] <= MaxRetries + 1

\* The tasks t depends on, directly or not.
Upstream(t) ==
    {u \in Task : \A S \in SUBSET Task :
        plan.deps[t] \subseteq S /\ (\A d \in S : plan.deps[d] \subseteq S)
            => u \in S}

\* When the plan has been executed, a failure has taken with it exactly what
\* depends on it, directly or not, and everything else is completed.
FailureCone ==
    phase \in {"synthesize", "answered"} =>
        \A t \in Task :
            \/ status[t] = "completed"
            \/ status[t] = "failed"
            \/ status[t] = "skipped" /\ \E u \in Upstream(t) : status[u] = "failed"

\* Every run ends, whatever the plan.
RunEnds == <>(phase \in {"answered", "raised"})
=============================================================================
