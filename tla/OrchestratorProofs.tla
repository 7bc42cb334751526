------------------------- MODULE OrchestratorProofs -------------------------
(***************************************************************************)
(* Proofs about Orchestrator, for any agents, runs, plans, thresholds and  *)
(* numbers of retries: both circuits of an agent stay consistent, and an   *)
(* agent whose circuit is open is not executed.                            *)
(***************************************************************************)
EXTENDS Orchestrator, TLAPS

-----------------------------------------------------------------------------
(* The breaker of an agent                                                 *)

\* A breaker with the shape that BreakerShape demands.
GoodBreaker ==
    {b \in AgentCircuit :
        /\ b.state = "closed" => b.failures < FailureThreshold /\ b.successes = 0
        /\ b.state = "half_open" => /\ b.successes < SuccessThreshold
                                    /\ b.failures = 0 /\ b.age # Never
        /\ b.state = "open" => /\ b.failures \in {0, FailureThreshold}
                               /\ b.successes = 0 /\ b.age # Never}

\* A new breaker is good.
LEMMA FreshIsGood == FreshBreaker \in GoodBreaker
BY AgentBreakerAssumption DEF FreshBreaker, GoodBreaker, AgentCircuit, Never

\* What the transitions leave in each field.
LEMMA ToOpenFields ==
    ASSUME NEW b \in AgentCircuit
    PROVE  /\ ToOpen(b) \in AgentCircuit /\ ToOpen(b).state = "open"
           /\ ToOpen(b).failures = b.failures /\ ToOpen(b).successes = 0
           /\ ToOpen(b).age = b.age
<1> DEFINE c == ToOpen(b)
<1>1. c.state = "open"
  BY DEF ToOpen, AgentCircuit
<1>2. c.failures = b.failures /\ c.successes = 0 /\ c.age = b.age
  BY DEF ToOpen, AgentCircuit
<1>3. c \in AgentCircuit
  <2>1. 0 \in 0 .. FailureThreshold /\ 0 \in 0 .. SuccessThreshold
    BY AgentBreakerAssumption
  <2> QED BY <2>1, Zenon DEF ToOpen, AgentCircuit
<1> QED BY <1>1, <1>2, <1>3

LEMMA ToHalfOpenFields ==
    ASSUME NEW b \in AgentCircuit
    PROVE  /\ ToHalfOpen(b) \in AgentCircuit /\ ToHalfOpen(b).state = "half_open"
           /\ ToHalfOpen(b).failures = 0 /\ ToHalfOpen(b).successes = 0
           /\ ToHalfOpen(b).age = b.age
<1> DEFINE c == ToHalfOpen(b)
<1>1. c.state = "half_open"
  BY DEF ToHalfOpen, AgentCircuit
<1>2. c.failures = 0 /\ c.successes = 0 /\ c.age = b.age
  BY DEF ToHalfOpen, AgentCircuit
<1>3. c \in AgentCircuit
  <2>1. 0 \in 0 .. FailureThreshold /\ 0 \in 0 .. SuccessThreshold
    BY AgentBreakerAssumption
  <2> QED BY <2>1, Zenon DEF ToHalfOpen, AgentCircuit
<1> QED BY <1>1, <1>2, <1>3

LEMMA ToClosedFields ==
    ASSUME NEW b \in AgentCircuit
    PROVE  /\ ToClosed(b) \in AgentCircuit /\ ToClosed(b).state = "closed"
           /\ ToClosed(b).failures = 0 /\ ToClosed(b).successes = 0
           /\ ToClosed(b).age = b.age
<1> DEFINE c == ToClosed(b)
<1>1. c.state = "closed"
  BY DEF ToClosed, AgentCircuit
<1>2. c.failures = 0 /\ c.successes = 0 /\ c.age = b.age
  BY DEF ToClosed, AgentCircuit
<1>3. c \in AgentCircuit
  <2>1. 0 \in 0 .. FailureThreshold /\ 0 \in 0 .. SuccessThreshold
    BY AgentBreakerAssumption
  <2> QED BY <2>1, Zenon DEF ToClosed, AgentCircuit
<1> QED BY <1>1, <1>2, <1>3

\* Letting an execution through keeps a breaker good; it is not open then.
LEMMA AdmittedIsGood ==
    ASSUME NEW b \in GoodBreaker
    PROVE  Admitted(b) \in GoodBreaker /\ Admitted(b).state # "open"
<1>1. CASE b.state = "open"
  BY <1>1, ToHalfOpenFields, AgentBreakerAssumption DEF Admitted, GoodBreaker
<1>2. CASE b.state # "open"
  BY <1>2 DEF Admitted
<1> QED BY <1>1, <1>2

\* A success keeps a breaker good, and does not end the rest of an open one.
LEMMA SuccessIsGood ==
    ASSUME NEW b \in GoodBreaker
    PROVE  AfterSuccess(b) \in GoodBreaker /\ (Shut(b) => ~CanExecute(AfterSuccess(b)))
<1>1. CASE b.state = "half_open"
  <2>1. PICK c : c = [b EXCEPT !.successes = b.successes + 1]
    OBVIOUS
  <2>2. /\ c \in AgentCircuit /\ c.state = "half_open" /\ c.failures = 0
        /\ c.successes = b.successes + 1 /\ c.age # Never
    BY <1>1, <2>1, AgentBreakerAssumption DEF GoodBreaker, AgentCircuit
  <2>3. AfterSuccess(b) = IF c.successes >= SuccessThreshold THEN ToClosed(c) ELSE c
    BY <1>1, <2>1 DEF AfterSuccess
  <2>4. CASE c.successes >= SuccessThreshold
    BY <1>1, <2>2, <2>3, <2>4, ToClosedFields, AgentBreakerAssumption DEF GoodBreaker, Shut
  <2>5. CASE ~(c.successes >= SuccessThreshold)
    BY <1>1, <2>2, <2>3, <2>5, AgentBreakerAssumption DEF GoodBreaker, AgentCircuit, Shut
  <2> QED BY <2>4, <2>5
<1>2. CASE b.state = "closed"
  BY <1>2, AgentBreakerAssumption DEF AfterSuccess, GoodBreaker, AgentCircuit, Never, Shut
<1>3. CASE b.state = "open"
  BY <1>3 DEF AfterSuccess, GoodBreaker, Shut, CanExecute
<1> QED BY <1>1, <1>2, <1>3 DEF GoodBreaker, AgentCircuit

\* A failure keeps a breaker good, and starts the rest of an open one again.
LEMMA FailureIsGood ==
    ASSUME NEW b \in GoodBreaker
    PROVE  AfterFailure(b) \in GoodBreaker /\ (Shut(b) => ~CanExecute(AfterFailure(b)))
<1>1. PICK d : d = [b EXCEPT !.age = 0]
  OBVIOUS
<1>2. /\ d \in AgentCircuit /\ d.state = b.state /\ d.failures = b.failures
      /\ d.successes = b.successes /\ d.age = 0
  BY <1>1, AgentBreakerAssumption DEF GoodBreaker, AgentCircuit
<1>3. CASE b.state = "half_open"
  <2>1. AfterFailure(b) = ToOpen(d)
    BY <1>1, <1>3 DEF AfterFailure
  <2> QED BY <1>2, <1>3, <2>1, ToOpenFields DEF GoodBreaker, Never, Shut
<1>4. CASE b.state = "closed"
  <2>1. PICK c : c = [d EXCEPT !.failures = d.failures + 1]
    OBVIOUS
  <2>2. /\ c \in AgentCircuit /\ c.state = "closed" /\ c.failures = b.failures + 1
        /\ c.successes = 0 /\ c.age = 0
    BY <1>2, <1>4, <2>1, AgentBreakerAssumption DEF GoodBreaker, AgentCircuit
  <2>3. AfterFailure(b) = IF c.failures >= FailureThreshold THEN ToOpen(c) ELSE c
    BY <1>1, <1>4, <2>1 DEF AfterFailure
  <2>4. CASE c.failures >= FailureThreshold
    <3>1. c.failures = FailureThreshold
      BY <2>2, <2>4, AgentBreakerAssumption DEF AgentCircuit
    <3> QED BY <1>4, <2>2, <2>3, <2>4, <3>1, ToOpenFields DEF GoodBreaker, Never, Shut
  <2>5. CASE ~(c.failures >= FailureThreshold)
    BY <1>4, <2>2, <2>3, <2>5, AgentBreakerAssumption DEF GoodBreaker, AgentCircuit, Shut
  <2> QED BY <2>4, <2>5
<1>5. CASE b.state = "open"
  <2>1. AfterFailure(b) = d
    BY <1>1, <1>5 DEF AfterFailure
  <2>2. d \in GoodBreaker /\ ~CanExecute(d)
    BY <1>2, <1>5, AgentBreakerAssumption DEF GoodBreaker, Never, CanExecute, Rested
  <2> QED BY <2>1, <2>2
<1> QED BY <1>3, <1>4, <1>5 DEF GoodBreaker, AgentCircuit

\* Time keeps a breaker good.
LEMMA AgedIsGood ==
    ASSUME NEW b \in GoodBreaker
    PROVE  Aged(b) \in GoodBreaker
BY AgentBreakerAssumption DEF Aged, GoodBreaker, AgentCircuit, Never

-----------------------------------------------------------------------------
(* The circuit in front of Ray                                             *)

\* An open_until, past or not, exactly if the failures reached the threshold.
GoodRay == {c \in RayCircuit : c.left # NoCircuit <=> c.failures = RayThreshold}

\* A circuit without failures is good, and asking it leaves it so.
LEMMA NoFailuresIsGood == NoFailures \in GoodRay
BY OrchestratorAssumption DEF NoFailures, GoodRay, RayCircuit, NoCircuit

LEMMA RayAskedIsGood ==
    ASSUME NEW c \in GoodRay
    PROVE  RayAsked(c) \in GoodRay
BY NoFailuresIsGood DEF RayAsked

\* A failed call of any age counts, and opens the circuit at the threshold.
LEMMA RayFailedIsGood ==
    ASSUME NEW c \in GoodRay, NEW age \in Nat
    PROVE  RayFailed(c, age) \in GoodRay
<1>1. LeftAfter(age) \in 0 .. RayCooldown
  BY OrchestratorAssumption DEF LeftAfter
<1>2. CASE c.failures + 1 >= RayThreshold
  BY <1>1, <1>2, OrchestratorAssumption DEF RayFailed, GoodRay, RayCircuit, NoCircuit
<1>3. CASE ~(c.failures + 1 >= RayThreshold)
  BY <1>3, OrchestratorAssumption DEF RayFailed, GoodRay, RayCircuit, NoCircuit
<1> QED BY <1>2, <1>3

\* Time keeps it good.
LEMMA RayTickIsGood ==
    ASSUME NEW c \in GoodRay
    PROVE  [c EXCEPT !.left = IF c.left > 0 THEN c.left - 1 ELSE c.left] \in GoodRay
BY OrchestratorAssumption DEF GoodRay, RayCircuit, NoCircuit

-----------------------------------------------------------------------------
(* Executions                                                              *)

\* An execution under way is one of an agent.
GoodExec == {e \in Exec : e.pc \in Pending => e.agent \in Agent}

Execs == [Run -> [Step -> GoodExec]]

\* An attempt that begins is under way, of the same agent.
LEMMA AttemptedIsGood ==
    ASSUME NEW e \in Exec, e.agent \in Agent, NEW c
    PROVE  /\ Attempted(e, c) \in GoodExec
           /\ Attempted(e, c).agent = e.agent
<1> DEFINE p == IF AsksRay(c) THEN "ray" ELSE "local"
<1>1. p \in Pending
  BY DEF Pending
<1>2. 0 \in 0 .. RayLimit /\ e.sends + 1 \in Nat
  BY OrchestratorAssumption DEF Exec
<1>3. Attempted(e, c) = [e EXCEPT !.pc = p, !.age = 0, !.sends = e.sends + 1]
  BY DEF Attempted
<1> HIDE DEF p
<1>4. Attempted(e, c) \in Exec /\ Attempted(e, c).agent = e.agent
  BY <1>1, <1>2, <1>3, Zenon DEF Exec
<1> QED BY <1>4 DEF GoodExec

\* So is an execution that begins, of the agent it is begun for.
LEMMA ExecutedIsGood ==
    ASSUME NEW e \in Exec, NEW a \in Agent, NEW fell \in BOOLEAN, NEW c
    PROVE  Executed(e, a, fell, c) \in GoodExec /\ Executed(e, a, fell, c).agent = a
<1>1. PICK d : d = [e EXCEPT !.agent = a, !.tries = 0, !.fell = fell]
  OBVIOUS
<1>2. d \in Exec /\ d.agent = a
  BY <1>1, Zenon DEF Exec
<1> QED BY <1>1, <1>2, AttemptedIsGood DEF Executed

-----------------------------------------------------------------------------
(* The inductive invariant, and what a step may begin                      *)

Inv == /\ plan \in [Run -> Plan]
       /\ breaker \in [Agent -> GoodBreaker]
       /\ ray \in [Agent -> GoodRay]
       /\ exec \in Execs

\* The body of ShutAgentStaysIdle.
NoneBegins ==
    \A a \in Agent : Shut(breaker[a]) \/ Shut(breaker'[a]) => Busy(a)' \subseteq Busy(a)

\* ex holds no execution under way that was not.
NoneNew(ex) ==
    \A q \in Run, j \in Step : ex[q][j].pc \in Pending =>
        exec[q][j].pc \in Pending /\ ex[q][j].agent = exec[q][j].agent

\* bs lets none through that the breakers keep out.
NoneFreed(bs) == \A a \in Agent : Shut(breaker[a]) => ~CanExecute(bs[a])

\* Without a new execution none begins.
LEMMA NoneNewNoneBegins == NoneNew(exec') => NoneBegins
BY DEF NoneNew, NoneBegins, Busy

\* A step that lets an execution through begins none of a shut agent.
LEMMA OneBegins ==
    ASSUME NEW bs \in [Agent -> GoodBreaker], NEW rs \in [Agent -> GoodRay],
           NEW ex \in Execs, NoneNew(ex), NoneFreed(bs),
           NEW r \in Run, NEW i \in Step, NEW a \in Agent, NEW fell \in BOOLEAN,
           NEW c, CanExecute(bs[a]), plan' = plan, Inv,
           breaker' = [bs EXCEPT ![a] = Admitted(bs[a])],
           ray' = [rs EXCEPT ![a] = RayAsked(rs[a])],
           exec' = [ex EXCEPT ![r][i] = Executed(ex[r][i], a, fell, c)]
    PROVE  Inv' /\ NoneBegins
<1>1. ex[r][i] \in Exec
  BY DEF Execs, GoodExec
<1>2. PICK e \in GoodExec : e = Executed(ex[r][i], a, fell, c) /\ e.agent = a
  BY <1>1, ExecutedIsGood
<1>3. /\ exec' \in Execs /\ exec'[r][i] = e
      /\ \A q \in Run, j \in Step : q # r \/ j # i => exec'[q][j] = ex[q][j]
  <2>1. exec' = [ex EXCEPT ![r][i] = e]
    BY <1>2
  <2> QED BY <2>1 DEF Execs
<1>4. breaker' \in [Agent -> GoodBreaker] /\ breaker'[a].state # "open"
  BY AdmittedIsGood
<1>5. ray' \in [Agent -> GoodRay]
  BY RayAskedIsGood
<1>6. ~Shut(breaker[a]) /\ ~Shut(breaker'[a])
  BY <1>4 DEF NoneFreed, Shut
<1>7. NoneBegins
  <2> SUFFICES ASSUME NEW b \in Agent, Shut(breaker[b]) \/ Shut(breaker'[b]),
                      NEW q \in Run, NEW j \in Step,
                      exec'[q][j].pc \in Pending, exec'[q][j].agent = b
               PROVE  exec[q][j].pc \in Pending /\ exec[q][j].agent = b
    BY DEF NoneBegins, Busy
  <2>1. q # r \/ j # i
    BY <1>2, <1>3, <1>6
  <2> QED BY <1>3, <2>1 DEF NoneNew
<1> QED BY <1>3, <1>4, <1>5, <1>7 DEF Inv

\* A step that lets nothing through.
LEMMA NothingBegins ==
    ASSUME Inv, plan' = plan, breaker' \in [Agent -> GoodBreaker],
           ray' \in [Agent -> GoodRay], exec' \in Execs, NoneNew(exec')
    PROVE  Inv' /\ NoneBegins
BY NoneNewNoneBegins DEF Inv

-----------------------------------------------------------------------------
(* The steps of a run                                                      *)

\* The steps of a plan name agents.
LEMMA StepAgents ==
    ASSUME Inv, NEW r \in Run, NEW i \in Steps(r)
    PROVE  i \in Step /\ plan[r].agents[i] \in Agent
<1>1. PICK n \in 1 .. MaxSteps : plan[r].agents \in [1 .. n -> Agent]
  BY DEF Inv, Plan
<1> QED BY <1>1, OrchestratorAssumption DEF Steps, Step

\* The agent that a step begins with has a breaker that lets it through.
LEMMA StarterIsLetThrough ==
    ASSUME Inv, NEW r \in Run, NEW i \in Steps(r), NEW bs, Starter(r, i, bs) # NoAgent
    PROVE  Starter(r, i, bs) \in Agent /\ CanExecute(bs[Starter(r, i, bs)])
<1>1. CASE CanExecute(bs[plan[r].agents[i]])
  BY <1>1, StepAgents DEF Starter
<1>2. CASE ~CanExecute(bs[plan[r].agents[i]]) /\ CanFallBack(r, i, bs)
  BY <1>2, OrchestratorAssumption DEF Starter, CanFallBack
<1>3. CASE ~CanExecute(bs[plan[r].agents[i]]) /\ ~CanFallBack(r, i, bs)
  BY <1>3 DEF Starter
<1> QED BY <1>1, <1>2, <1>3

\* The part of a run without an await keeps the invariant, whatever its step
\* has made of the breakers, as long as it freed none.
LEMMA ProceedStep ==
    ASSUME Inv, plan' = plan, NEW r \in Run, NEW i \in Nat,
           NEW bs \in [Agent -> GoodBreaker], NEW rs \in [Agent -> GoodRay],
           NEW ex \in Execs, NoneNew(ex), NoneFreed(bs),
           NEW res, NEW cur, NEW failed, Proceed(r, i, bs, rs, ex, res, cur, failed)
    PROVE  Inv' /\ NoneBegins
<1> DEFINE starter(k) == IF k \in Steps(r) THEN Starter(r, k, bs) ELSE NoAgent
<1>1. PICK k \in i .. Len(plan[r].agents) + 1 :
          \/ breaker' = bs /\ ray' = rs /\ exec' = ex
          \/ /\ k \in Steps(r) /\ starter(k) # NoAgent
             /\ breaker' = [bs EXCEPT ![starter(k)] = Admitted(bs[starter(k)])]
             /\ ray' = [rs EXCEPT ![starter(k)] = RayAsked(rs[starter(k)])]
             /\ exec' = [ex EXCEPT ![r][k] =
                           Executed(ex[r][k], starter(k),
                                    starter(k) # plan[r].agents[k], rs[starter(k)])]
  BY Zenon DEF Proceed, Leave
<1>2. CASE breaker' = bs /\ ray' = rs /\ exec' = ex
  BY <1>2, NothingBegins
<1>3. CASE ~(breaker' = bs /\ ray' = rs /\ exec' = ex)
  <2>1. /\ k \in Steps(r) /\ starter(k) = Starter(r, k, bs) /\ starter(k) # NoAgent
    BY <1>1, <1>3
  <2>2. k \in Step /\ starter(k) \in Agent /\ CanExecute(bs[starter(k)])
    BY <2>1, StepAgents, StarterIsLetThrough
  <2>3. PICK a \in Agent, fell \in BOOLEAN, c \in GoodRay :
            a = starter(k) /\ fell = (starter(k) # plan[r].agents[k]) /\ c = rs[starter(k)]
    BY <2>2
  <2>4. /\ breaker' = [bs EXCEPT ![a] = Admitted(bs[a])]
        /\ ray' = [rs EXCEPT ![a] = RayAsked(rs[a])]
        /\ exec' = [ex EXCEPT ![r][k] = Executed(ex[r][k], a, fell, c)]
    BY <1>1, <1>3, <2>3
  <2>5. CanExecute(bs[a])
    BY <2>2, <2>3
  <2> QED BY <2>2, <2>4, <2>5, OneBegins
<1> QED BY <1>2, <1>3

\* One execution goes on, or ends.
LEMMA OneMoves ==
    ASSUME Inv, NEW r \in Run, NEW i \in Step, NEW e \in GoodExec,
           e.pc \in Pending => exec[r][i].pc \in Pending /\ e.agent = exec[r][i].agent,
           NEW ex, ex = [exec EXCEPT ![r][i] = e]
    PROVE  ex \in Execs /\ NoneNew(ex)
BY DEF Inv, Execs, NoneNew

\* One execution ends.
LEMMA OneEnds ==
    ASSUME Inv, NEW r \in Run, NEW i \in Step, NEW how \in {"ok", "failed"},
           NEW ex, ex = [exec EXCEPT ![r][i].pc = how]
    PROVE  ex \in Execs /\ NoneNew(ex)
<1>1. exec[r][i] \in Exec
  BY DEF Inv, Execs, GoodExec
<1>2. PICK e : e = [exec[r][i] EXCEPT !.pc = how]
  OBVIOUS
<1>3. e \in Exec /\ e.pc = how
  BY <1>1, <1>2, Zenon DEF Exec
<1>4. e \in GoodExec /\ e.pc \notin Pending
  BY <1>3 DEF GoodExec, Pending
<1>5. ex = [exec EXCEPT ![r][i] = e]
  BY <1>2, Zenon
<1> QED BY <1>4, <1>5, OneMoves

\* An outcome that is reported to a breaker frees no shut agent.
LEMMA ReportFreesNone ==
    ASSUME Inv, NEW a \in Agent, NEW bs, NEW b,
           b = AfterSuccess(breaker[a]) \/ b = AfterFailure(breaker[a]),
           bs = [breaker EXCEPT ![a] = b]
    PROVE  bs \in [Agent -> GoodBreaker] /\ NoneFreed(bs)
<1>1. b \in GoodBreaker /\ (Shut(breaker[a]) => ~CanExecute(b))
  BY SuccessIsGood, FailureIsGood DEF Inv
<1>2. \A c \in Agent : Shut(breaker[c]) => ~CanExecute(breaker[c])
  BY DEF Shut, CanExecute
<1> QED BY <1>1, <1>2 DEF Inv, NoneFreed

\* The first steps of a run, and its parallel form, one action each.
LEMMA BeginStep ==
    ASSUME Inv, NEW r \in Run, Begin(r)
    PROVE  Inv' /\ NoneBegins
<1>1. NoneFreed(breaker) /\ NoneNew(exec)
  BY DEF NoneFreed, NoneNew, Shut, CanExecute
<1>2. plan' = plan /\ Proceed(r, 1, breaker, ray, exec, <<>>, 0, <<>>)
  BY DEF Begin
<1>3. /\ breaker \in [Agent -> GoodBreaker] /\ ray \in [Agent -> GoodRay]
      /\ exec \in Execs /\ 1 \in Nat
  BY DEF Inv
<1> QED BY <1>1, <1>2, <1>3, ProceedStep

LEMMA BeginParallelStep ==
    ASSUME Inv, NEW r \in Run, BeginParallel(r)
    PROVE  Inv' /\ NoneBegins
<1>1. Idle \in GoodExec /\ Idle.pc \notin Pending
  BY OrchestratorAssumption DEF Idle, GoodExec, Exec, Pending
<1>2. PICK e : e = [Idle EXCEPT !.pc = "ready"]
  OBVIOUS
<1>3. e \in GoodExec /\ e.pc \notin Pending
  <2>1. e \in Exec /\ e.pc = "ready"
    BY <1>1, <1>2, Zenon DEF GoodExec, Exec
  <2> QED BY <2>1 DEF GoodExec, Pending
<1>4. exec' = [exec EXCEPT ![r] = [i \in Step |-> IF i \in Steps(r) THEN e ELSE Idle]]
  BY <1>2 DEF BeginParallel
<1>5. exec' \in Execs /\ NoneNew(exec')
  BY <1>1, <1>3, <1>4 DEF Inv, Execs, NoneNew
<1> QED BY <1>5, NothingBegins DEF BeginParallel, Inv

\* A task of gather looks its agent up and asks the breaker.
LEMMA StartOneStep ==
    ASSUME Inv, NEW r \in Run, NEW i \in Step, StartOne(r, i)
    PROVE  Inv' /\ NoneBegins
<1> DEFINE a == plan[r].agents[i]
<1>1. a \in Agent
  BY StepAgents DEF StartOne
<1>2. CASE /\ exec' = [exec EXCEPT ![r][i].pc = "failed"]
           /\ UNCHANGED <<breaker, ray>>
  BY <1>2, OneEnds, NothingBegins DEF StartOne, Inv
<1>3. CASE /\ CanExecute(breaker[a])
           /\ breaker' = [breaker EXCEPT ![a] = Admitted(breaker[a])]
           /\ ray' = [ray EXCEPT ![a] = RayAsked(ray[a])]
           /\ exec' = [exec EXCEPT ![r][i] = Executed(exec[r][i], a, FALSE, ray[a])]
  <2>1. NoneFreed(breaker) /\ NoneNew(exec)
    BY DEF NoneFreed, NoneNew, Shut, CanExecute
  <2>2. PICK b \in Agent, fell \in BOOLEAN, c \in GoodRay :
            b = a /\ fell = FALSE /\ c = ray[a]
    BY <1>1 DEF Inv
  <2>3. /\ CanExecute(breaker[b])
        /\ breaker' = [breaker EXCEPT ![b] = Admitted(breaker[b])]
        /\ ray' = [ray EXCEPT ![b] = RayAsked(ray[b])]
        /\ exec' = [exec EXCEPT ![r][i] = Executed(exec[r][i], b, fell, c)]
    BY <1>3, <2>2
  <2>4. plan' = plan
    BY DEF StartOne
  <2>5. /\ breaker \in [Agent -> GoodBreaker] /\ ray \in [Agent -> GoodRay]
        /\ exec \in Execs
    BY DEF Inv
  <2> QED BY <2>1, <2>3, <2>4, <2>5, OneBegins
<1> QED BY <1>2, <1>3 DEF StartOne

\* The end of an execution under way: its answer goes to the breaker.
LEMMA SucceedsStep ==
    ASSUME Inv, NEW r \in Run, NEW i \in Step, exec[r][i].pc \in Pending,
           NEW c \in GoodRay, Succeeds(r, i, c), plan' = plan
    PROVE  Inv' /\ NoneBegins
<1>1. PICK a \in Agent : a = exec[r][i].agent
  BY DEF Inv, Execs, GoodExec
<1>2. PICK bs, rs, ex : /\ bs = [breaker EXCEPT ![a] = AfterSuccess(breaker[a])]
                        /\ rs = [ray EXCEPT ![a] = c]
                        /\ ex = [exec EXCEPT ![r][i].pc = "ok"]
  OBVIOUS
<1>3. /\ bs \in [Agent -> GoodBreaker] /\ NoneFreed(bs)
      /\ ex \in Execs /\ NoneNew(ex)
  BY <1>2, ReportFreesNone, OneEnds
<1>4. rs \in [Agent -> GoodRay]
  BY <1>2 DEF Inv
<1>5. CASE breaker' = bs /\ ray' = rs /\ exec' = ex
  BY <1>3, <1>4, <1>5, NothingBegins
<1>6. CASE Proceed(r, i + 1, bs, rs, ex,
                   Append(results[r], [step |-> i, ok |-> TRUE, input |-> current[r]]),
                   Output(r, i), <<>>)
  <2>1. i + 1 \in Nat
    BY OrchestratorAssumption DEF Step
  <2> QED BY <1>3, <1>4, <1>6, <2>1, ProceedStep
<1> QED BY <1>1, <1>2, <1>5, <1>6 DEF Succeeds

\* Its exception goes to the breaker, and then a fallback may begin.
LEMMA RaisesStep ==
    ASSUME Inv, NEW r \in Run, NEW i \in Step, exec[r][i].pc \in Pending,
           Raises(r, i), plan' = plan
    PROVE  Inv' /\ NoneBegins
<1>1. PICK a \in Agent : a = exec[r][i].agent
  BY DEF Inv, Execs, GoodExec
<1>2. PICK bs, ex, f : /\ bs = [breaker EXCEPT ![a] = AfterFailure(breaker[a])]
                       /\ ex = [exec EXCEPT ![r][i].pc = "failed"]
                       /\ f = Fallback(r, i)
  OBVIOUS
<1>3. /\ bs \in [Agent -> GoodBreaker] /\ NoneFreed(bs)
      /\ ex \in Execs /\ NoneNew(ex)
  BY <1>2, ReportFreesNone, OneEnds
<1>4. /\ ray \in [Agent -> GoodRay] /\ exec \in Execs /\ NoneNew(exec)
  BY DEF Inv, NoneNew
<1>5. CASE breaker' = bs /\ ray' = ray /\ exec' = ex
  BY <1>3, <1>4, <1>5, NothingBegins
<1>6. CASE breaker' = bs /\ exec' = ex /\ UNCHANGED ray
  BY <1>5, <1>6
<1>7. CASE /\ CanFallBack(r, i, bs)
           /\ breaker' = [bs EXCEPT ![f] = Admitted(bs[f])]
           /\ ray' = [ray EXCEPT ![f] = RayAsked(ray[f])]
           /\ exec' = [exec EXCEPT ![r][i] = Executed(exec[r][i], f, TRUE, ray[f])]
  <2>1. f \in Agent /\ CanExecute(bs[f])
    BY <1>2, <1>7, OrchestratorAssumption DEF CanFallBack
  <2>2. PICK fell \in BOOLEAN, c \in GoodRay : fell = TRUE /\ c = ray[f]
    BY <1>4, <2>1
  <2>3. exec' = [exec EXCEPT ![r][i] = Executed(exec[r][i], f, fell, c)]
    BY <1>7, <2>2
  <2>4. /\ breaker' = [bs EXCEPT ![f] = Admitted(bs[f])]
        /\ ray' = [ray EXCEPT ![f] = RayAsked(ray[f])]
    BY <1>7
  <2>5. bs \in [Agent -> GoodBreaker] /\ NoneFreed(bs)
    BY <1>3
  <2> QED BY <1>4, <2>1, <2>3, <2>4, <2>5, OneBegins
<1>8. CASE Proceed(r, i + 1, bs, ray, ex, Append(results[r], Failed(i, current[r])),
                   current[r], LettersOf(r, i))
  <2>1. i + 1 \in Nat
    BY OrchestratorAssumption DEF Step
  <2> QED BY <1>3, <1>4, <1>8, <2>1, ProceedStep
<1> QED BY <1>1, <1>2, <1>5, <1>6, <1>7, <1>8, Zenon DEF Raises, Leave

\* The steps of an attempt.
LEMMA RayFailsStep ==
    ASSUME Inv, NEW r \in Run, NEW i \in Step, RayFails(r, i)
    PROVE  Inv' /\ NoneBegins
<1>1. PICK e \in GoodExec : e = exec[r][i]
  BY DEF Inv, Execs
<1>2. PICK d : d = [e EXCEPT !.pc = "local", !.age = 0, !.sends = e.sends + 1]
  OBVIOUS
<1>3. e \in Exec /\ e.pc \in Pending /\ e.agent \in Agent /\ e.age \in Nat
  BY <1>1, OrchestratorAssumption DEF RayFails, Pending, GoodExec, Exec
<1>4. d \in Exec /\ d.pc = "local" /\ d.agent = e.agent
  <2>1. 0 \in 0 .. RayLimit /\ e.sends + 1 \in Nat
    BY <1>3, OrchestratorAssumption DEF Exec
  <2>2. "local" \in Pending
    BY DEF Pending
  <2> QED BY <1>2, <1>3, <2>1, <2>2, Zenon DEF Exec
<1>5. d \in GoodExec
  BY <1>3, <1>4 DEF GoodExec
<1>6. exec' = [exec EXCEPT ![r][i] = d]
  BY <1>1, <1>2 DEF RayFails, Inv, Execs
<1>7. exec' \in Execs /\ NoneNew(exec')
  BY <1>1, <1>3, <1>4, <1>5, <1>6, OneMoves
<1>8. ray' \in [Agent -> GoodRay]
  BY <1>1, <1>3, RayFailedIsGood DEF RayFails, Inv
<1> QED BY <1>7, <1>8, NothingBegins DEF RayFails, Inv

LEMMA BacksOffStep ==
    ASSUME Inv, NEW r \in Run, NEW i \in Step, BacksOff(r, i)
    PROVE  Inv' /\ NoneBegins
<1>1. PICK e \in GoodExec : e = exec[r][i]
  BY DEF Inv, Execs
<1>2. PICK d : d = [e EXCEPT !.pc = "backoff", !.tries = e.tries + 1]
  OBVIOUS
<1>3. e \in Exec /\ e.pc \in Pending /\ e.agent \in Agent /\ e.tries + 1 \in Nat
  BY <1>1 DEF BacksOff, Pending, GoodExec, Exec
<1>4. d \in Exec /\ d.pc = "backoff" /\ d.agent = e.agent
  <2>1. "backoff" \in Pending
    BY DEF Pending
  <2> QED BY <1>2, <1>3, <2>1, Zenon DEF Exec
<1>5. d \in GoodExec
  BY <1>3, <1>4 DEF GoodExec
<1>6. exec' = [exec EXCEPT ![r][i] = d]
  BY <1>1, <1>2 DEF BacksOff, Inv, Execs
<1>7. exec' \in Execs /\ NoneNew(exec')
  BY <1>1, <1>3, <1>4, <1>5, <1>6, OneMoves
<1> QED BY <1>7, NothingBegins DEF BacksOff, Inv

LEMMA RetriesStep ==
    ASSUME Inv, NEW r \in Run, NEW i \in Step, Retries(r, i)
    PROVE  Inv' /\ NoneBegins
<1>1. PICK e \in GoodExec : e = exec[r][i]
  BY DEF Inv, Execs
<1>2. e \in Exec /\ e.pc \in Pending /\ e.agent \in Agent
  BY <1>1 DEF Retries, Pending, GoodExec
<1>3. PICK d \in GoodExec : d = Attempted(e, ray[e.agent]) /\ d.agent = e.agent
  BY <1>2, AttemptedIsGood
<1>4. exec' = [exec EXCEPT ![r][i] = d]
  BY <1>1, <1>3 DEF Retries
<1>5. exec' \in Execs /\ NoneNew(exec')
  BY <1>1, <1>2, <1>3, <1>4, OneMoves
<1>6. ray' \in [Agent -> GoodRay]
  BY <1>1, <1>2, RayAskedIsGood DEF Retries, Inv
<1> QED BY <1>5, <1>6, NothingBegins DEF Retries, Inv

\* A tick lets time pass for the circuits and the calls on Ray.
LEMMA TickStep ==
    ASSUME Inv, Tick
    PROVE  Inv' /\ NoneBegins
<1>1. breaker' \in [Agent -> GoodBreaker]
  BY AgedIsGood DEF Tick, Inv
<1>2. ray' \in [Agent -> GoodRay]
  BY RayTickIsGood DEF Tick, Inv
<1>3. ASSUME NEW r \in Run, NEW i \in Step
      PROVE  /\ exec'[r][i] \in GoodExec
             /\ exec'[r][i].pc = exec[r][i].pc /\ exec'[r][i].agent = exec[r][i].agent
  <2>1. PICK e \in GoodExec : e = exec[r][i]
    BY DEF Inv, Execs
  <2>2. PICK t : t = IF e.pc = "ray" THEN e.age + 1 ELSE 0
    OBVIOUS
  <2>3. t \in 0 .. RayLimit
    BY <2>1, <2>2, OrchestratorAssumption DEF Tick, GoodExec, Exec
  <2>4. exec'[r][i] = [e EXCEPT !.age = t]
    BY <2>1, <2>2 DEF Tick
  <2>5. /\ exec'[r][i] \in Exec /\ exec'[r][i].pc = e.pc
        /\ exec'[r][i].agent = e.agent
    BY <2>3, <2>4, Zenon DEF GoodExec, Exec
  <2> QED BY <2>1, <2>5 DEF GoodExec
<1>4. exec' \in Execs /\ NoneNew(exec')
  BY <1>3, Zenon DEF Tick, Execs, NoneNew
<1> QED BY <1>1, <1>2, <1>4, NothingBegins DEF Tick

-----------------------------------------------------------------------------
(* The theorems                                                            *)

\* The initial states satisfy the invariant.
LEMMA InitInv == Init => Inv
<1> SUFFICES ASSUME Init PROVE Inv
  OBVIOUS
<1>1. Idle \in GoodExec
  BY OrchestratorAssumption DEF Idle, GoodExec, Exec, Pending
<1> QED BY <1>1, FreshIsGood, NoFailuresIsGood, OrchestratorAssumption
        DEF Init, Inv, Execs

\* Every step keeps it, and begins no execution of a shut agent.
LEMMA NextInv ==
    ASSUME Inv, [Next]_vars
    PROVE  Inv' /\ NoneBegins
<1>1. ASSUME NEW r \in Run, RunOf(r)
      PROVE  Inv' /\ NoneBegins
  <2>1. CASE Begin(r)
    BY <2>1, BeginStep
  <2>2. CASE BeginParallel(r)
    BY <2>2, BeginParallelStep
  <2>3. CASE Gather(r)
    <3>1. UNCHANGED <<plan, exec, breaker, ray>>
      BY <2>3 DEF Gather, Leave
    <3> QED BY <3>1, NothingBegins DEF Inv, NoneNew
  <2> QED BY <1>1, <2>1, <2>2, <2>3 DEF RunOf
<1>2. ASSUME NEW r \in Run, NEW i \in Step, StepOf(r, i) \/ TimesOut(r, i)
      PROVE  Inv' /\ NoneBegins
  <2>1. CASE StartOne(r, i)
    BY <2>1, StartOneStep
  <2>2. CASE RayAnswers(r, i)
    BY <2>2, NoFailuresIsGood, SucceedsStep DEF RayAnswers, RayAnswered, Pending
  <2>3. CASE RayFails(r, i)
    BY <2>3, RayFailsStep
  <2>4. CASE SendAnswers(r, i)
    <3>1. exec[r][i].pc \in Pending
      BY <2>4 DEF SendAnswers, Pending
    <3>2. ray[exec[r][i].agent] \in GoodRay
      BY <3>1 DEF Inv, Execs, GoodExec
    <3> QED BY <2>4, <3>1, <3>2, SucceedsStep DEF SendAnswers
  <2>5. CASE BacksOff(r, i)
    BY <2>5, BacksOffStep
  <2>6. CASE GivesUp(r, i)
    BY <2>6, RaisesStep DEF GivesUp, Pending
  <2>7. CASE Retries(r, i)
    BY <2>7, RetriesStep
  <2>8. CASE TimesOut(r, i)
    BY <2>8, OneEnds, NothingBegins DEF TimesOut, Inv
  <2> QED BY <1>2, <2>1, <2>2, <2>3, <2>4, <2>5, <2>6, <2>7, <2>8 DEF StepOf
<1>3. CASE UNCHANGED vars
  BY <1>3, NothingBegins DEF vars, Inv, NoneNew
<1> QED BY <1>1, <1>2, <1>3, TickStep DEF Next

\* The circuits are good, and what is under way is so for an agent, always.
THEOREM Invariant == Spec => []Inv
<1>1. Inv /\ [Next]_vars => Inv'
  BY NextInv
<1> QED BY InitInv, <1>1, PTL DEF Spec

\* Both circuits of every agent keep their shape, in any interleaving of runs,
\* attempts, timeouts and ticks (circuit_breaker.py, engine.py).
THEOREM CircuitsConsistent == Spec => []CircuitShapes
<1>1. Inv => BreakerShape
  <2> SUFFICES ASSUME Inv, NEW a \in Agent
               PROVE  LET b == breaker[a]
                      IN  CASE b.state = "closed" ->
                                 b.failures < FailureThreshold /\ b.successes = 0
                            [] b.state = "half_open" ->
                                 /\ b.successes < SuccessThreshold
                                 /\ b.failures = 0 /\ b.age # Never
                            [] b.state = "open" ->
                                 /\ b.failures \in {0, FailureThreshold}
                                 /\ b.successes = 0 /\ b.age # Never
    BY DEF BreakerShape
  <2>1. breaker[a] \in GoodBreaker
    BY DEF Inv
  <2> QED BY <2>1 DEF GoodBreaker, AgentCircuit
<1>2. Inv => RayCircuitShape
  BY DEF Inv, RayCircuitShape, GoodRay
<1> QED BY <1>1, <1>2, Invariant, PTL DEF CircuitShapes

\* While the circuit of an agent is open and has not rested, no execution of
\* it begins, as first choice or as fallback, in any mode (can_execute).
THEOREM ShutAgentsAreLeftAlone == Spec => ShutAgentStaysIdle
<1>1. Inv /\ [Next]_vars =>
          [\A a \in Agent : Shut(breaker[a]) \/ Shut(breaker'[a]) =>
                                Busy(a)' \subseteq Busy(a)]_vars
  BY NextInv DEF NoneBegins
<1> QED BY <1>1, Invariant, PTL DEF Spec, ShutAgentStaysIdle
=============================================================================
