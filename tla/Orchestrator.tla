---------------------------- MODULE Orchestrator ----------------------------
(***************************************************************************)
(* core/mascarade/orchestrator/engine.py (with retry.py and                *)
(* dead_letter.py): concurrent runs of agents, one after the other, in     *)
(* parallel or as a pipeline.  An agent's execution asks the agent's       *)
(* breaker once, then tries the call MaxRetries + 1 times, each time on    *)
(* Ray first (when enabled and its own circuit allows) and then through    *)
(* the router, and reports to the breaker once, at the end.                *)
(*                                                                         *)
(* The program is one asyncio event loop: an action is what it does        *)
(* between two awaits.  A call (on Ray, through the router or through the  *)
(* cluster) is one await that ends with an answer or an exception.         *)
(***************************************************************************)
EXTENDS AgentBreaker, Sequences, FiniteSets

CONSTANTS
    Agent, NoAgent,
    Known,         \* the agents that the registry holds
    Run,           \* calls of Orchestrator.run
    Plans,         \* the plans that the runs may have, one for each run
    RayPlans,      \* those of them that may also find Ray enabled
    MaxSteps,      \* the longest plan
    MaxRetries,    \* RetryConfig.max_retries
    MaxLetters,    \* DeadLetterStore.max_entries
    RayThreshold,  \* _RAY_CIRCUIT_FAILURE_THRESHOLD
    RayCooldown,   \* _RAY_CIRCUIT_COOLDOWN_S, in ticks
    RayLimit       \* the timeout of a call on Ray, in ticks

\* What a caller asks for.  run passes skip to the modes that have it.
Plan == [mode     : {"sequential", "parallel", "pipeline"},
         agents   : UNION {[1..n -> Agent] : n \in 1..MaxSteps},
         fallback : [Agent -> Agent \cup {NoAgent}],
         skip     : BOOLEAN]

ASSUME OrchestratorAssumption ==
    /\ Known \subseteq Agent /\ NoAgent \notin Agent
    /\ MaxSteps \in Nat \ {0} /\ MaxRetries \in Nat /\ MaxLetters \in Nat \ {0}
    /\ RayThreshold \in Nat \ {0} /\ RayCooldown \in Nat \ {0} /\ RayLimit \in Nat \ {0}
    /\ Plans \subseteq [Run -> Plan] /\ RayPlans \subseteq Plans

VARIABLES
    plan,     \* plan[r]: what r was asked to do
    rayOn,    \* Ray is enabled and was reached
    phase,    \* phase[r]: "new", "running", "returned" or "raised"
    exec,     \* exec[r][i]: the execution of step i of run r
    results,  \* results[r]: the list of TaskResults
    current,  \* current[r]: the step whose output is current_input, 0 at first
    letters,  \* the entries of the dead letter store
    breaker,  \* circuit_breakers
    ray       \* _ray_failures and _ray_circuit_open_until

vars == <<plan, rayOn, phase, exec, results, current, letters, breaker, ray>>

Step == 1..MaxSteps

Steps(r) == DOMAIN plan[r].agents

\* tries: attempts that failed; age: ticks of the call on Ray; fell: it is
\* the fallback agent; sends: calls made so far, the primary agent's included.
Pending == {"ray", "local", "backoff"}

Exec == [pc    : {"idle", "ready", "ok", "failed"} \cup Pending,
         agent : Agent \cup {NoAgent},
         tries : Nat,
         age   : 0..RayLimit,
         fell  : BOOLEAN,
         sends : Nat]

Idle == [pc |-> "idle", agent |-> NoAgent, tries |-> 0, age |-> 0,
         fell |-> FALSE, sends |-> 0]

Result == [step : Step, ok : BOOLEAN, input : 0..MaxSteps]

\* The step of the letter of a run that raised.
NoStep == 0

Letter == Run \X (0..MaxSteps)

-----------------------------------------------------------------------------
(* The circuit in front of Ray.  left is the time until open_until; it is  *)
(* NoCircuit when there is none and 0 when it lies in the past.  failures  *)
(* stops at the threshold it is compared with.                             *)

NoCircuit == -1

RayCircuit == [failures : 0..RayThreshold, left : {NoCircuit} \cup 0..RayCooldown]

NoFailures == [failures |-> 0, left |-> NoCircuit]

\* open_until is counted from the start of the call that failed.
LeftAfter(age) == IF age < RayCooldown THEN RayCooldown - age ELSE 0

\* Fault: an answer forgets the failures but not the open circuit.
RayAnsweredHalf(c) == [c EXCEPT !.failures = 0]

RayAnswered(c) == NoFailures

RayFailed(c, age) ==
    IF c.failures + 1 >= RayThreshold
    THEN [failures |-> RayThreshold, left |-> LeftAfter(age)]
    ELSE [c EXCEPT !.failures = c.failures + 1]

\* Whether an attempt starts on Ray, and what asking does to the circuit.
AsksRay(c) == rayOn /\ c.left <= 0

RayAsked(c) == IF rayOn /\ c.left = 0 THEN NoFailures ELSE c

-----------------------------------------------------------------------------
(* An attempt of _do_execute begins.                                       *)

Attempted(e, circuit) ==
    [e EXCEPT !.pc = IF AsksRay(circuit) THEN "ray" ELSE "local",
              !.age = 0,
              !.sends = e.sends + 1]

\* _execute_agent of an agent whose breaker let it through.
Executed(e, a, fell, circuit) ==
    Attempted([e EXCEPT !.agent = a, !.tries = 0, !.fell = fell], circuit)

-----------------------------------------------------------------------------
(* DeadLetterStore.record_failure: a deque that drops its oldest entries.  *)

LastOf(s) == IF Len(s) <= MaxLetters THEN s
             ELSE SubSeq(s, Len(s) - MaxLetters + 1, Len(s))

Recorded(r, steps) == LastOf(letters \o [k \in DOMAIN steps |-> <<r, steps[k]>>])

-----------------------------------------------------------------------------
(* The part of run_sequential and run_pipeline that runs without an await: *)
(* from step i on, steps whose breaker turns them down fail at once, and   *)
(* the run stops, raises or begins the execution it then waits for.        *)

Failed(i, input) == [step |-> i, ok |-> FALSE, input |-> input]

Fallback(r, i) ==
    IF plan[r].mode = "pipeline" THEN plan[r].fallback[plan[r].agents[i]] ELSE NoAgent

\* Fault: the fallback is executed without asking its breaker.
CanFallBackUnasked(r, i, bs) == Fallback(r, i) \in Known

CanFallBack(r, i, bs) == Fallback(r, i) \in Known /\ CanExecute(bs[Fallback(r, i)])

\* The agent whose execution step i begins.
Starter(r, i, bs) ==
    CASE CanExecute(bs[plan[r].agents[i]]) -> plan[r].agents[i]
      [] ~CanExecute(bs[plan[r].agents[i]]) /\ CanFallBack(r, i, bs) -> Fallback(r, i)
      [] OTHER -> NoAgent

Gone(r, i) == plan[r].agents[i] \notin Known

\* Step i is not turned down and passed over.
Settles(r, i, bs) == Gone(r, i) \/ Starter(r, i, bs) # NoAgent \/ ~plan[r].skip

\* The steps from i to k - 1 are turned down; k is none of them.
PassedOver(r, i, k, bs) ==
    /\ k \in i..Len(plan[r].agents) + 1
    /\ \A j \in i..k-1 : ~Settles(r, j, bs)
    /\ k \in Steps(r) => Settles(r, k, bs)

Leave(r, how, bs, rs, res, steps) ==
    /\ phase' = [phase EXCEPT ![r] = how]
    /\ results' = [results EXCEPT ![r] = res]
    /\ letters' = Recorded(r, steps)
    /\ breaker' = bs /\ ray' = rs

\* bs, rs, ex, res and cur are what the step that ends has made of the
\* breakers, the Ray circuits, the executions, the results and the input;
\* failed holds the steps whose letters it records.
Proceed(r, i, bs, rs, ex, res, cur, failed) ==
    \E k \in i..Len(plan[r].agents) + 1 :
        LET over  == [j \in 1..(k - i) |-> i + j - 1]
            rest  == res \o [j \in 1..(k - i) |-> Failed(i + j - 1, cur)]
            steps == failed \o over
            a     == IF k \in Steps(r) THEN Starter(r, k, bs) ELSE NoAgent
        IN  /\ PassedOver(r, i, k, bs)
            /\ current' = [current EXCEPT ![r] = cur]
            /\ \/ /\ k \in Steps(r) /\ Gone(r, k)
                  /\ Leave(r, "raised", bs, rs, rest, Append(steps, NoStep))
                  /\ exec' = ex
               \/ /\ k \in Steps(r) /\ ~Gone(r, k) /\ a # NoAgent
                  /\ Leave(r, "running", [bs EXCEPT ![a] = Admitted(bs[a])],
                           [rs EXCEPT ![a] = RayAsked(rs[a])], rest, steps)
                  /\ exec' = [ex EXCEPT ![r][k] =
                                Executed(ex[r][k], a, a # plan[r].agents[k], rs[a])]
               \/ /\ k \in Steps(r) /\ ~Gone(r, k) /\ a = NoAgent
                  /\ Leave(r, "returned", bs, rs, Append(rest, Failed(k, cur)),
                           Append(steps, k))
                  /\ exec' = ex
               \/ /\ k \notin Steps(r)
                  /\ Leave(r, "returned", bs, rs, rest, steps)
                  /\ exec' = ex

Begin(r) ==
    /\ phase[r] = "new" /\ plan[r].mode # "parallel"
    /\ Proceed(r, 1, breaker, ray, exec, <<>>, 0, <<>>)
    /\ UNCHANGED <<plan, rayOn>>

-----------------------------------------------------------------------------
(* run_parallel: gather starts one task per agent and waits for all.       *)

BeginParallel(r) ==
    /\ phase[r] = "new" /\ plan[r].mode = "parallel"
    /\ phase' = [phase EXCEPT ![r] = "running"]
    /\ exec' = [exec EXCEPT ![r] = [i \in Step |->
                   IF i \in Steps(r) THEN [Idle EXCEPT !.pc = "ready"] ELSE Idle]]
    /\ UNCHANGED <<plan, rayOn, results, current, letters, breaker, ray>>

\* _run_one: the look-up and the breaker raise inside the task.
StartOne(r, i) ==
    LET a == plan[r].agents[i]
    IN  /\ i \in Steps(r) /\ exec[r][i].pc = "ready"
        /\ \/ /\ Gone(r, i) \/ ~CanExecute(breaker[a])
              /\ exec' = [exec EXCEPT ![r][i].pc = "failed"]
              /\ UNCHANGED <<breaker, ray>>
           \/ /\ ~Gone(r, i) /\ CanExecute(breaker[a])
              /\ breaker' = [breaker EXCEPT ![a] = Admitted(breaker[a])]
              /\ ray' = [ray EXCEPT ![a] = RayAsked(ray[a])]
              /\ exec' = [exec EXCEPT ![r][i] = Executed(exec[r][i], a, FALSE, ray[a])]
        /\ UNCHANGED <<plan, rayOn, phase, results, current, letters>>

Ended(r, i) == exec[r][i].pc \in {"ok", "failed"}

Outcomes(r) ==
    [i \in Steps(r) |-> [step |-> i, ok |-> exec[r][i].pc = "ok", input |-> 0]]

\* The steps in s, ascending.
Ascending(s) ==
    CHOOSE q \in [1..Cardinality(s) -> s] :
        \A j, k \in 1..Cardinality(s) : j < k => q[j] < q[k]

\* Fault: only the answers are returned.
AnswersOnly(r) ==
    LET answered == Ascending({i \in Steps(r) : exec[r][i].pc = "ok"})
    IN  [k \in DOMAIN answered |-> [step |-> answered[k], ok |-> TRUE, input |-> 0]]

GatherAnswersOnly(r) ==
    /\ phase[r] = "running" /\ plan[r].mode = "parallel"
    /\ \A i \in Steps(r) : Ended(r, i)
    /\ Leave(r, "returned", breaker, ray, AnswersOnly(r),
             Ascending({i \in Steps(r) : exec[r][i].pc = "failed"}))
    /\ UNCHANGED <<plan, rayOn, exec, current>>

\* Fault: the run waits for an answer of every agent.
GatherNoFailure(r) ==
    /\ phase[r] = "running" /\ plan[r].mode = "parallel"
    /\ \A i \in Steps(r) : exec[r][i].pc = "ok"
    /\ Leave(r, "returned", breaker, ray, Outcomes(r), <<>>)
    /\ UNCHANGED <<plan, rayOn, exec, current>>

Gather(r) ==
    /\ phase[r] = "running" /\ plan[r].mode = "parallel"
    /\ \A i \in Steps(r) : Ended(r, i)
    /\ Leave(r, "returned", breaker, ray, Outcomes(r),
             Ascending({i \in Steps(r) : exec[r][i].pc = "failed"}))
    /\ UNCHANGED <<plan, rayOn, exec, current>>

-----------------------------------------------------------------------------
(* An execution ends.                                                      *)

\* Fault: a fallback's answer is not what the next agent is given.
OutputKept(r, i) ==
    IF plan[r].mode = "pipeline" /\ ~exec[r][i].fell THEN i ELSE current[r]

Output(r, i) == IF plan[r].mode = "pipeline" THEN i ELSE current[r]

\* The execution of step i returns: its agent's circuit in front of Ray is c.
Succeeds(r, i, c) ==
    LET a  == exec[r][i].agent
        bs == [breaker EXCEPT ![a] = AfterSuccess(breaker[a])]
        rs == [ray EXCEPT ![a] = c]
        ex == [exec EXCEPT ![r][i].pc = "ok"]
    IN  \/ /\ plan[r].mode = "parallel"
           /\ breaker' = bs /\ ray' = rs /\ exec' = ex
           /\ UNCHANGED <<phase, results, current, letters>>
        \/ /\ plan[r].mode # "parallel"
           /\ Proceed(r, i + 1, bs, rs, ex,
                      Append(results[r], [step |-> i, ok |-> TRUE, input |-> current[r]]),
                      Output(r, i), <<>>)

\* Fault: a step that was passed over leaves no letter.
LettersOfSkipped(r, i) == IF plan[r].skip THEN <<>> ELSE <<i>>

LettersOf(r, i) == <<i>>

\* The execution of step i raises.
Raises(r, i) ==
    LET a    == exec[r][i].agent
        f    == Fallback(r, i)
        bs   == [breaker EXCEPT ![a] = AfterFailure(breaker[a])]
        ex   == [exec EXCEPT ![r][i].pc = "failed"]
        res  == Append(results[r], Failed(i, current[r]))
        back == ~exec[r][i].fell /\ CanFallBack(r, i, bs)
    IN  \/ /\ plan[r].mode = "parallel"
           /\ breaker' = bs /\ exec' = ex
           /\ UNCHANGED <<phase, results, current, letters, ray>>
        \/ /\ plan[r].mode # "parallel" /\ back
           /\ breaker' = [bs EXCEPT ![f] = Admitted(bs[f])]
           /\ ray' = [ray EXCEPT ![f] = RayAsked(ray[f])]
           /\ exec' = [exec EXCEPT ![r][i] = Executed(exec[r][i], f, TRUE, ray[f])]
           /\ UNCHANGED <<phase, results, current, letters>>
        \/ /\ plan[r].mode # "parallel" /\ ~back /\ plan[r].skip
           /\ Proceed(r, i + 1, bs, ray, ex, res, current[r], LettersOf(r, i))
        \/ /\ plan[r].mode # "parallel" /\ ~back /\ ~plan[r].skip
           /\ Leave(r, "returned", bs, ray, res, LettersOf(r, i))
           /\ exec' = ex
           /\ UNCHANGED current

-----------------------------------------------------------------------------
(* The awaits of _do_execute and execute_with_retry.                       *)

RayAnswers(r, i) ==
    /\ exec[r][i].pc = "ray"
    /\ Succeeds(r, i, RayAnswered(ray[exec[r][i].agent]))
    /\ UNCHANGED <<plan, rayOn>>

\* The call goes on through the router; on Ray it may still be running.
RayFails(r, i) ==
    LET e == exec[r][i]
    IN  /\ e.pc = "ray"
        /\ ray' = [ray EXCEPT ![e.agent] = RayFailed(ray[e.agent], e.age)]
        /\ exec' = [exec EXCEPT ![r][i].pc = "local", ![r][i].age = 0,
                                ![r][i].sends = e.sends + 1]
        /\ UNCHANGED <<plan, rayOn, phase, results, current, letters, breaker>>

SendAnswers(r, i) ==
    /\ exec[r][i].pc = "local"
    /\ Succeeds(r, i, ray[exec[r][i].agent])
    /\ UNCHANGED <<plan, rayOn>>

\* Fault: one retry too many.
LastTryOneMore(e) == e.tries > MaxRetries

LastTry(e) == e.tries = MaxRetries

BacksOff(r, i) ==
    /\ exec[r][i].pc = "local" /\ ~LastTry(exec[r][i])
    /\ exec' = [exec EXCEPT ![r][i].pc = "backoff",
                            ![r][i].tries = exec[r][i].tries + 1]
    /\ UNCHANGED <<plan, rayOn, phase, results, current, letters, breaker, ray>>

GivesUp(r, i) ==
    /\ exec[r][i].pc = "local" /\ LastTry(exec[r][i])
    /\ Raises(r, i)
    /\ UNCHANGED <<plan, rayOn>>

\* The sleep is over.  The breaker is not asked again.
Retries(r, i) ==
    LET e == exec[r][i]
    IN  /\ e.pc = "backoff"
        /\ ray' = [ray EXCEPT ![e.agent] = RayAsked(ray[e.agent])]
        /\ exec' = [exec EXCEPT ![r][i] = Attempted(e, ray[e.agent])]
        /\ UNCHANGED <<plan, rayOn, phase, results, current, letters, breaker>>

\* wait_for cancels the execution, which no breaker and no retry notices.
TimesOut(r, i) ==
    /\ plan[r].mode = "parallel" /\ exec[r][i].pc \in Pending
    /\ exec' = [exec EXCEPT ![r][i].pc = "failed"]
    /\ UNCHANGED <<plan, rayOn, phase, results, current, letters, breaker, ray>>

-----------------------------------------------------------------------------
Tick ==
    /\ \A r \in Run, i \in Step : exec[r][i].pc = "ray" => exec[r][i].age < RayLimit
    /\ breaker' = [a \in Agent |-> Aged(breaker[a])]
    /\ ray' = [a \in Agent |->
                 [ray[a] EXCEPT !.left = IF ray[a].left > 0 THEN ray[a].left - 1
                                         ELSE ray[a].left]]
    /\ exec' = [r \in Run |-> [i \in Step |->
                 [exec[r][i] EXCEPT !.age = IF exec[r][i].pc = "ray"
                                            THEN exec[r][i].age + 1 ELSE 0]]]
    /\ UNCHANGED <<plan, rayOn, phase, results, current, letters>>

Init ==
    /\ plan \in Plans /\ rayOn \in BOOLEAN /\ (rayOn => plan \in RayPlans)
    /\ phase = [r \in Run |-> "new"]
    /\ exec = [r \in Run |-> [i \in Step |-> Idle]]
    /\ results = [r \in Run |-> <<>>]
    /\ current = [r \in Run |-> 0]
    /\ letters = <<>>
    /\ breaker = [a \in Agent |-> FreshBreaker]
    /\ ray = [a \in Agent |-> NoFailures]

\* What the task that executes step i of run r does.
StepOf(r, i) ==
    \/ StartOne(r, i)
    \/ RayAnswers(r, i) \/ RayFails(r, i)
    \/ SendAnswers(r, i) \/ BacksOff(r, i) \/ GivesUp(r, i)
    \/ Retries(r, i)

RunOf(r) == Begin(r) \/ BeginParallel(r) \/ Gather(r)

Next ==
    \/ \E r \in Run : RunOf(r)
    \/ \E r \in Run, i \in Step : StepOf(r, i) \/ TimesOut(r, i)
    \/ Tick

Spec == Init /\ [][Next]_vars

\* Every call ends, with an answer or an exception, and every sleep.
Fairness ==
    /\ \A r \in Run : WF_vars(Gather(r))
    /\ \A r \in Run, i \in Step : WF_vars(StepOf(r, i))

FairSpec == Spec /\ Fairness

-----------------------------------------------------------------------------
(* Type invariant.                                                         *)

TypeOK ==
    /\ plan \in [Run -> Plan] /\ rayOn \in BOOLEAN
    /\ phase \in [Run -> {"new", "running", "returned", "raised"}]
    /\ exec \in [Run -> [Step -> Exec]]
    /\ results \in [Run -> Seq(Result)]
    /\ current \in [Run -> 0..MaxSteps]
    /\ letters \in Seq(Letter) /\ Len(letters) <= MaxLetters
    /\ breaker \in [Agent -> AgentCircuit]
    /\ ray \in [Agent -> RayCircuit]

-----------------------------------------------------------------------------
(* Safety properties.                                                      *)

\* Whatever executions end on a circuit that others have moved meanwhile, it
\* keeps its shape: a closed circuit is below the threshold, a half-open one
\* has not had the successes that close it, and an open one knows when it
\* failed, so that it can half-open (record_failure, _transition_to_*).
BreakerShape ==
    \A a \in Agent :
        LET b == breaker[a]
        IN  CASE b.state = "closed"    -> b.failures < FailureThreshold /\ b.successes = 0
              [] b.state = "half_open" -> /\ b.successes < SuccessThreshold
                                          /\ b.failures = 0 /\ b.age # Never
              [] b.state = "open"      -> /\ b.failures \in {0, FailureThreshold}
                                          /\ b.successes = 0 /\ b.age # Never

\* _ray_failures and _ray_circuit_open_until are written on both sides of
\* the awaits of several calls: an agent has an open_until, past or not,
\* exactly if its failures have reached the threshold (engine.py:286-302).
RayCircuitShape ==
    \A a \in Agent : ray[a].left # NoCircuit <=> ray[a].failures = RayThreshold

\* Both circuits of every agent are consistent at every await, whatever runs
\* have read and written them meanwhile.
CircuitShapes == BreakerShape /\ RayCircuitShape

\* The failures that run r has met: an error result for each of its steps,
\* and the exception that run re-raises.
Failures(r) ==
    {<<r, x.step>> : x \in {results[r][k] : k \in {j \in DOMAIN results[r] :
                                                    ~results[r][j].ok}}}
        \cup (IF phase[r] = "raised" THEN {<<r, NoStep>>} ELSE {})

\* Run f[1] met failure f before failure g.
Precedes(f, g) == /\ f[1] = g[1]
                  /\ f[2] # NoStep /\ (g[2] = NoStep \/ f[2] < g[2])

\* The dead letter store holds one letter for every failure of every run, in
\* the order in which the run met them, up to its size, and those it keeps of a
\* run are its last: none is missing, none is there twice, and a step that a
\* fallback saved has none (run_sequential, run_parallel, run_pipeline, run).
LettersMatchErrors ==
    LET all == UNION {Failures(r) : r \in Run}
    IN  /\ \A k \in DOMAIN letters : letters[k] \in all
        /\ Len(letters) = IF Cardinality(all) < MaxLetters
                          THEN Cardinality(all) ELSE MaxLetters
        /\ \A j, k \in DOMAIN letters :
               j < k /\ letters[j][1] = letters[k][1] =>
                   letters[k][2] = NoStep \/ letters[j][2] < letters[k][2]
        /\ \A k \in DOMAIN letters, f \in all :
               Precedes(letters[k], f) => \E j \in DOMAIN letters : letters[j] = f

\* What a caller gets back: from a parallel run one result per agent in the
\* order of the agents, whatever order they ended in; from the others the
\* steps from the first on, all of them unless one failed and skip_on_error
\* is off, and then none after it.
ResultsFollowPlan ==
    \A r \in Run : phase[r] = "returned" =>
        LET res == results[r]
        IN  /\ \A k \in DOMAIN res : /\ res[k].step = k
                                     /\ res[k].ok <=> exec[r][k].pc = "ok"
            /\ \/ Len(res) = Len(plan[r].agents)
               \/ plan[r].mode # "parallel" /\ ~plan[r].skip /\ ~res[Len(res)].ok
            /\ plan[r].mode # "parallel" /\ ~plan[r].skip =>
                   \A k \in 1..Len(res) - 1 : res[k].ok

\* In a pipeline every agent, the fallback too, is given the output of the
\* last step that succeeded before it, and the prompt when there is none
\* (current_input in run_pipeline).
InputIsLastOutput ==
    \A r \in Run : plan[r].mode = "pipeline" =>
        \A k \in DOMAIN results[r] :
            LET before == {j \in 1..k-1 : results[r][j].ok}
            IN  IF before = {} THEN results[r][k].input = 0
                ELSE /\ results[r][k].input \in before
                     /\ \A j \in before : j <= results[r][k].input

\* A prompt may be sent again after a call that took effect without an
\* answer, on Ray and then through the router, by every retry and by the
\* fallback, but no more often than that (execute_with_retry, _do_execute).
SendsBounded ==
    \A r \in Run, i \in Step :
        exec[r][i].sends <= (MaxRetries + 1) * (IF rayOn THEN 2 ELSE 1)
                                             * (IF exec[r][i].fell THEN 2 ELSE 1)

\* The executions of agent a that are under way.
Busy(a) == {x \in Run \X Step : /\ exec[x[1]][x[2]].pc \in Pending
                                /\ exec[x[1]][x[2]].agent = a}

Shut(b) == b.state = "open" /\ ~Rested(b)

\* While an agent's circuit is open and its timeout not over, no execution of
\* it begins, in any mode, as first choice or as fallback: only the retries
\* of those let through before go on (_execute_agent, can_execute).
ShutAgentStaysIdle ==
    [][\A a \in Agent : Shut(breaker[a]) \/ Shut(breaker'[a]) => Busy(a)' \subseteq Busy(a)]_vars

-----------------------------------------------------------------------------
(* Liveness.                                                               *)

\* Every run that began returns or raises: steps that are turned down, retries
\* and fallbacks do not keep it, and gather always has all it waits for.
RunsEnd ==
    \A r \in Run : phase[r] = "running" ~> phase[r] \in {"returned", "raised"}
=============================================================================
