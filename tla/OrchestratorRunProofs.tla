----------------------- MODULE OrchestratorRunProofs -----------------------
(***************************************************************************)
(* More proofs about Orchestrator, for any agents, runs, plans and limits: *)
(* what a run makes of its steps, its results and the dead letter store.   *)
(***************************************************************************)
EXTENDS OrchestratorProofs, Iteration, SequenceTheorems, FiniteSetTheorems

-----------------------------------------------------------------------------
(* Plans                                                                   *)

\* A function on the first numbers is a sequence.
LEMMA FunctionIsSeq ==
    ASSUME NEW S, NEW n \in Nat, NEW f \in [1 .. n -> S]
    PROVE  f \in Seq(S) /\ Len(f) = n /\ DOMAIN f = 1 .. n
OBVIOUS

\* The steps of a plan are those of its list of agents.
LEMMA PlanOf ==
    ASSUME Inv, NEW r \in Run
    PROVE  /\ Len(plan[r].agents) \in 1 .. MaxSteps
           /\ Steps(r) = 1 .. Len(plan[r].agents)
           /\ plan[r].mode \in {"sequential", "parallel", "pipeline"}
           /\ plan[r].skip \in BOOLEAN
<1>1. PICK p \in Plan : p = plan[r]
  BY DEF Inv
<1>2. /\ p.agents \in UNION {[1 .. n -> Agent] : n \in 1 .. MaxSteps}
      /\ p.mode \in {"sequential", "parallel", "pipeline"} /\ p.skip \in BOOLEAN
  BY Zenon DEF Plan
<1>3. PICK n \in 1 .. MaxSteps : p.agents \in [1 .. n -> Agent]
  BY <1>2
<1>4. Len(p.agents) = n /\ DOMAIN p.agents = 1 .. n
  <2>1. n \in Nat
    BY OrchestratorAssumption
  <2> QED BY <1>3, <2>1, FunctionIsSeq
<1> QED BY <1>1, <1>2, <1>4 DEF Steps

-----------------------------------------------------------------------------
(* What the part of a run without an await tells                           *)

\* new is res and then g steps that were turned down, given the input cur.
Listed(new, res, g, cur) ==
    /\ new \in Seq(Result) /\ Len(new) = Len(res) + g
    /\ \A j \in 1 .. Len(res) : new[j] = res[j]
    /\ \A j \in Len(res) + 1 .. Len(res) + g : new[j] = Failed(j, cur)

\* st is failed and then the g steps from i on.
Numbered(st, failed, i, g) ==
    /\ st \in Seq(0 .. MaxSteps) /\ Len(st) = Len(failed) + g
    /\ \A j \in 1 .. Len(failed) : st[j] = failed[j]
    /\ \A j \in Len(failed) + 1 .. Len(failed) + g : st[j] = i + (j - Len(failed)) - 1

\* A step that was turned down is a result.
LEMMA FailedIsResult ==
    ASSUME NEW i \in Step, NEW cur \in 0 .. MaxSteps
    PROVE  Failed(i, cur) \in Result /\ Failed(i, cur).step = i
           /\ Failed(i, cur).ok = FALSE /\ Failed(i, cur).input = cur
BY DEF Failed, Result

\* The lists that Proceed builds.
LEMMA ListedBy ==
    ASSUME NEW res \in Seq(Result), NEW g \in Nat, NEW i \in Nat, i = Len(res) + 1,
           Len(res) + g <= MaxSteps, NEW cur \in 0 .. MaxSteps,
           NEW new, new = res \o [j \in 1 .. g |-> Failed(i + j - 1, cur)]
    PROVE  Listed(new, res, g, cur)
<1>0. Len(res) \in Nat /\ MaxSteps \in Nat
  BY LenProperties, OrchestratorAssumption
<1>1. PICK t : t = [j \in 1 .. g |-> Failed(i + j - 1, cur)]
  OBVIOUS
<1>2. \A j \in 1 .. g : i + j - 1 \in Step
  BY <1>0 DEF Step
<1>3. t \in [1 .. g -> Result]
  BY <1>1, <1>2, FailedIsResult
<1>4. t \in Seq(Result) /\ Len(t) = g
  BY <1>3, FunctionIsSeq
<1>5. /\ new \in Seq(Result) /\ Len(new) = Len(res) + g
      /\ \A j \in 1 .. Len(res) + g :
             new[j] = IF j <= Len(res) THEN res[j] ELSE t[j - Len(res)]
  BY <1>1, <1>4, ConcatProperties
<1>6. ASSUME NEW j \in Len(res) + 1 .. Len(res) + g
      PROVE  new[j] = Failed(j, cur)
  <2>1. /\ j \in 1 .. Len(res) + g /\ ~(j <= Len(res)) /\ j - Len(res) \in 1 .. g
        /\ i + (j - Len(res)) - 1 = j
    BY <1>0
  <2>2. t[j - Len(res)] = Failed(i + (j - Len(res)) - 1, cur)
    BY <1>1, <2>1
  <2> QED BY <1>5, <2>1, <2>2
<1>7. \A j \in 1 .. Len(res) : new[j] = res[j]
  BY <1>0, <1>5
<1> QED BY <1>5, <1>6, <1>7 DEF Listed

\* One more step that was turned down.
LEMMA ListedOneMore ==
    ASSUME NEW res \in Seq(Result), NEW g \in Nat, NEW cur \in 0 .. MaxSteps,
           NEW rest, Listed(rest, res, g, cur), Len(res) + g < MaxSteps,
           NEW k, k = Len(res) + g + 1
    PROVE  Listed(Append(rest, Failed(k, cur)), res, g + 1, cur)
<1>0. Len(res) \in Nat /\ MaxSteps \in Nat /\ rest \in Seq(Result) /\ Len(rest) = Len(res) + g
  BY LenProperties, OrchestratorAssumption DEF Listed
<1>1. Failed(k, cur) \in Result
  <2>1. k \in Nat /\ 1 <= k /\ k <= MaxSteps
    BY <1>0
  <2>2. k \in Step
    BY <1>0, <2>1 DEF Step
  <2> QED BY <2>2, FailedIsResult
<1>2. PICK new : new = Append(rest, Failed(k, cur))
  OBVIOUS
<1>3. /\ new \in Seq(Result) /\ Len(new) = Len(rest) + 1
      /\ \A j \in 1 .. Len(rest) : new[j] = rest[j]
      /\ new[Len(rest) + 1] = Failed(k, cur)
  BY <1>0, <1>1, <1>2, AppendProperties
<1>4. \A j \in 1 .. Len(res) : new[j] = res[j]
  BY <1>0, <1>3 DEF Listed
<1>5. ASSUME NEW j \in Len(res) + 1 .. Len(res) + (g + 1)
      PROVE  new[j] = Failed(j, cur)
  <2>1. CASE j = k
    BY <1>0, <1>3, <2>1
  <2>2. CASE j # k
    BY <1>0, <1>3, <2>2 DEF Listed
  <2> QED BY <2>1, <2>2
<1> QED BY <1>0, <1>2, <1>3, <1>4, <1>5 DEF Listed

\* The letters that go with them.
LEMMA NumberedBy ==
    ASSUME NEW failed \in Seq(Step), NEW g \in Nat, NEW i \in Nat \ {0},
           i + g <= MaxSteps + 1,
           NEW st, st = failed \o [j \in 1 .. g |-> i + j - 1]
    PROVE  Numbered(st, failed, i, g)
<1>0. Len(failed) \in Nat /\ MaxSteps \in Nat
  BY LenProperties, OrchestratorAssumption
<1>1. PICK t : t = [j \in 1 .. g |-> i + j - 1]
  OBVIOUS
<1>2. t \in [1 .. g -> 0 .. MaxSteps]
  BY <1>0, <1>1
<1>3. t \in Seq(0 .. MaxSteps) /\ Len(t) = g
  BY <1>2, FunctionIsSeq
<1>4. failed \in Seq(0 .. MaxSteps)
  <2>1. Step \subseteq 0 .. MaxSteps
    BY <1>0 DEF Step
  <2> QED BY <2>1, SeqMonotonic
<1>5. /\ st \in Seq(0 .. MaxSteps) /\ Len(st) = Len(failed) + g
      /\ \A j \in 1 .. Len(failed) + g :
             st[j] = IF j <= Len(failed) THEN failed[j] ELSE t[j - Len(failed)]
  BY <1>1, <1>3, <1>4, ConcatProperties
<1>6. ASSUME NEW j \in Len(failed) + 1 .. Len(failed) + g
      PROVE  st[j] = i + (j - Len(failed)) - 1
  <2>1. /\ j \in 1 .. Len(failed) + g /\ ~(j <= Len(failed)) /\ j - Len(failed) \in 1 .. g
    BY <1>0
  <2> QED BY <1>1, <1>5, <2>1
<1>7. \A j \in 1 .. Len(failed) : st[j] = failed[j]
  BY <1>0, <1>5
<1> QED BY <1>5, <1>6, <1>7 DEF Numbered

\* One more of these letters.
LEMMA NumberedOneMore ==
    ASSUME NEW failed \in Seq(Step), NEW g \in Nat, NEW i \in Nat \ {0},
           i + g <= MaxSteps, NEW st, Numbered(st, failed, i, g), NEW k, k = i + g
    PROVE  Numbered(Append(st, k), failed, i, g + 1)
<1>0. Len(failed) \in Nat /\ MaxSteps \in Nat /\ st \in Seq(0 .. MaxSteps)
      /\ Len(st) = Len(failed) + g
  BY LenProperties, OrchestratorAssumption DEF Numbered
<1>1. k \in 0 .. MaxSteps
  BY <1>0
<1>2. PICK new : new = Append(st, k)
  OBVIOUS
<1>3. /\ new \in Seq(0 .. MaxSteps) /\ Len(new) = Len(st) + 1
      /\ \A j \in 1 .. Len(st) : new[j] = st[j]
      /\ new[Len(st) + 1] = k
  BY <1>0, <1>1, <1>2, AppendProperties
<1>4. \A j \in 1 .. Len(failed) : new[j] = failed[j]
  BY <1>0, <1>3 DEF Numbered
<1>5. ASSUME NEW j \in Len(failed) + 1 .. Len(failed) + (g + 1)
      PROVE  new[j] = i + (j - Len(failed)) - 1
  <2>1. CASE j = Len(st) + 1
    BY <1>0, <1>3, <2>1
  <2>2. CASE j # Len(st) + 1
    <3>0. j \in Nat /\ Len(failed) + 1 <= j /\ j <= Len(failed) + g
      BY <1>0, <2>2
    <3>1. j \in 1 .. Len(st) /\ j \in Len(failed) + 1 .. Len(failed) + g
      BY <1>0, <3>0
    <3>2. new[j] = st[j]
      BY <1>3, <3>1
    <3> QED BY <3>1, <3>2 DEF Numbered
  <2> QED BY <2>1, <2>2
<1> QED BY <1>0, <1>2, <1>3, <1>4, <1>5 DEF Numbered

\* Run r goes on from step i: g steps are turned down, st are the steps that
\* get a letter, and then it raises, waits for the next step, or returns.
GoesOn(r, i, ex, res, cur, failed, g, new, st) ==
    /\ Listed(new, res, g, cur) /\ Numbered(st, failed, i, g)
    /\ Len(res) + g <= Len(plan[r].agents)
    /\ results' = [results EXCEPT ![r] = new]
    /\ current' = [current EXCEPT ![r] = cur]
    /\ \/ /\ phase' = [phase EXCEPT ![r] = "raised"] /\ exec' = ex
          /\ letters' = Recorded(r, Append(st, NoStep))
          /\ ~plan[r].skip => g = 0
       \/ /\ phase' = [phase EXCEPT ![r] = "running"]
          /\ letters' = Recorded(r, st)
          /\ Len(res) + g < Len(plan[r].agents)
          /\ ~plan[r].skip => g = 0
          /\ \E a \in Agent, fell \in BOOLEAN : \E c :
                 exec' = [ex EXCEPT ![r][i + g] = Executed(ex[r][i + g], a, fell, c)]
       \/ /\ phase' = [phase EXCEPT ![r] = "returned"] /\ exec' = ex
          /\ letters' = Recorded(r, st)
          /\ ~plan[r].skip => g <= 1
          /\ \/ Len(res) + g = Len(plan[r].agents)
             \/ ~plan[r].skip /\ g = 1

\* That is what Proceed does, in any of its branches.
LEMMA ProceedTells ==
    ASSUME Inv, NEW r \in Run, NEW res \in Seq(Result), NEW cur \in 0 .. MaxSteps,
           NEW failed \in Seq(Step), Len(res) <= Len(plan[r].agents),
           NEW i, i = Len(res) + 1, NEW bs, NEW rs, NEW ex,
           Proceed(r, i, bs, rs, ex, res, cur, failed)
    PROVE  \E g \in Nat : \E new, st : GoesOn(r, i, ex, res, cur, failed, g, new, st)
<1> DEFINE n == Len(plan[r].agents)
<1>0. /\ Len(res) \in Nat /\ MaxSteps \in Nat /\ n \in Nat /\ n <= MaxSteps
      /\ Steps(r) = 1 .. n /\ i \in Nat \ {0}
  BY PlanOf, LenProperties, OrchestratorAssumption
<1>1. PICK k \in i .. n + 1 :
        LET over  == [j \in 1 .. (k - i) |-> i + j - 1]
            rest  == res \o [j \in 1 .. (k - i) |-> Failed(i + j - 1, cur)]
            steps == failed \o over
            a     == IF k \in Steps(r) THEN Starter(r, k, bs) ELSE NoAgent
        IN  /\ PassedOver(r, i, k, bs)
            /\ current' = [current EXCEPT ![r] = cur]
            /\ \/ /\ k \in Steps(r) /\ Gone(r, k)
                  /\ Leave(r, "raised", bs, rs, rest, Append(steps, NoStep))
                  /\ exec' = ex
               \/ /\ k \in Steps(r) /\ ~Gone(r, k) /\ a # NoAgent
                  /\ Leave(r, "running", [bs EXCEPT ![a] = Admitted(bs[a])],
                           [rs EXCEPT ![a] = RayAsked(rs[a])], rest, steps)
                  /\ exec' = [ex EXCEPT ![r][k] =
                                Executed(ex[r][k], a, a # plan[r].agents[k], rs[a])]
               \/ /\ k \in Steps(r) /\ ~Gone(r, k) /\ a = NoAgent
                  /\ Leave(r, "returned", bs, rs, Append(rest, Failed(k, cur)),
                           Append(steps, k))
                  /\ exec' = ex
               \/ /\ k \notin Steps(r)
                  /\ Leave(r, "returned", bs, rs, rest, steps)
                  /\ exec' = ex
  BY Zenon DEF Proceed
<1>2. PICK g : g = k - i
  OBVIOUS
<1>13. k \in Nat /\ i <= k /\ k <= n + 1
  BY <1>0
<1>14. /\ g \in Nat /\ k = i + g /\ Len(res) + g <= n /\ Len(res) + g <= MaxSteps
       /\ i + g <= MaxSteps + 1 /\ (k \in 1 .. n <=> Len(res) + g < n)
  BY <1>0, <1>2, <1>13
<1>3. PICK rest, st : /\ rest = res \o [j \in 1 .. g |-> Failed(i + j - 1, cur)]
                      /\ st = failed \o [j \in 1 .. g |-> i + j - 1]
  OBVIOUS
<1>4. Listed(rest, res, g, cur)
  BY <1>0, <1>3, <1>14, ListedBy
<1>5. Numbered(st, failed, i, g)
  BY <1>0, <1>3, <1>14, NumberedBy
<1>6. PICK a : a = IF k \in Steps(r) THEN Starter(r, k, bs) ELSE NoAgent
  OBVIOUS
<1>7. /\ PassedOver(r, i, k, bs)
      /\ current' = [current EXCEPT ![r] = cur]
      /\ \/ /\ k \in Steps(r) /\ Gone(r, k)
            /\ Leave(r, "raised", bs, rs, rest, Append(st, NoStep))
            /\ exec' = ex
         \/ /\ k \in Steps(r) /\ ~Gone(r, k) /\ a # NoAgent
            /\ Leave(r, "running", [bs EXCEPT ![a] = Admitted(bs[a])],
                     [rs EXCEPT ![a] = RayAsked(rs[a])], rest, st)
            /\ exec' = [ex EXCEPT ![r][k] =
                          Executed(ex[r][k], a, a # plan[r].agents[k], rs[a])]
         \/ /\ k \in Steps(r) /\ ~Gone(r, k) /\ a = NoAgent
            /\ Leave(r, "returned", bs, rs, Append(rest, Failed(k, cur)), Append(st, k))
            /\ exec' = ex
         \/ /\ k \notin Steps(r)
            /\ Leave(r, "returned", bs, rs, rest, st)
            /\ exec' = ex
  BY <1>1, <1>2, <1>3, <1>6, Zenon
<1>8. ~plan[r].skip => g = 0
  <2> SUFFICES ASSUME ~plan[r].skip, g # 0 PROVE FALSE
    OBVIOUS
  <2>1. i \in i .. k - 1
    BY <1>0, <1>13, <1>14
  <2> QED BY <1>7, <2>1 DEF PassedOver, Settles
<1>9. CASE /\ Leave(r, "raised", bs, rs, rest, Append(st, NoStep))
           /\ exec' = ex
  <2>1. GoesOn(r, i, ex, res, cur, failed, g, rest, st)
    BY <1>4, <1>5, <1>14, <1>7, <1>8, <1>9 DEF Leave, GoesOn
  <2> QED BY <1>14, <2>1
<1>10. CASE /\ k \in Steps(r) /\ a # NoAgent
            /\ Leave(r, "running", [bs EXCEPT ![a] = Admitted(bs[a])],
                     [rs EXCEPT ![a] = RayAsked(rs[a])], rest, st)
            /\ exec' = [ex EXCEPT ![r][k] =
                          Executed(ex[r][k], a, a # plan[r].agents[k], rs[a])]
  <2>1. a \in Agent /\ Len(res) + g < n
    BY <1>0, <1>6, <1>10, <1>14, StarterIsLetThrough
  <2>2. PICK fell \in BOOLEAN, c \in {rs[a]} : fell = (a # plan[r].agents[k]) /\ c = rs[a]
    OBVIOUS
  <2>3. exec' = [ex EXCEPT ![r][i + g] = Executed(ex[r][i + g], a, fell, c)]
    BY <1>10, <1>14, <2>2
  <2>4. \E b \in Agent, f \in BOOLEAN : \E d :
            exec' = [ex EXCEPT ![r][i + g] = Executed(ex[r][i + g], b, f, d)]
    BY <2>1, <2>3
  <2>5. /\ phase' = [phase EXCEPT ![r] = "running"] /\ letters' = Recorded(r, st)
        /\ results' = [results EXCEPT ![r] = rest]
    BY <1>10 DEF Leave
  <2>6. GoesOn(r, i, ex, res, cur, failed, g, rest, st)
    BY <1>4, <1>5, <1>14, <1>7, <1>8, <2>1, <2>4, <2>5 DEF GoesOn
  <2> QED BY <1>14, <2>6
<1>11. CASE /\ k \in Steps(r) /\ ~Gone(r, k) /\ a = NoAgent
            /\ Leave(r, "returned", bs, rs, Append(rest, Failed(k, cur)), Append(st, k))
            /\ exec' = ex
  <2>1. ~plan[r].skip /\ g = 0
    BY <1>6, <1>7, <1>8, <1>11 DEF PassedOver, Settles
  <2>2. Len(res) + g < n /\ Len(res) + g < MaxSteps /\ i + g <= MaxSteps
    BY <1>0, <1>11, <1>14
  <2>3. PICK new, su : new = Append(rest, Failed(k, cur)) /\ su = Append(st, k)
    OBVIOUS
  <2>4. Listed(new, res, g + 1, cur)
    BY <1>0, <1>4, <1>14, <2>2, <2>3, ListedOneMore
  <2>5. Numbered(su, failed, i, g + 1)
    BY <1>0, <1>5, <1>14, <2>2, <2>3, NumberedOneMore
  <2>6. /\ phase' = [phase EXCEPT ![r] = "returned"] /\ letters' = Recorded(r, su)
        /\ results' = [results EXCEPT ![r] = new]
    BY <1>11, <2>3 DEF Leave
  <2>7. /\ g + 1 \in Nat /\ g + 1 = 1 /\ g + 1 <= 1 /\ Len(res) + (g + 1) <= n
    BY <1>0, <2>1, <2>2
  <2>8. GoesOn(r, i, ex, res, cur, failed, g + 1, new, su)
    BY <1>7, <1>11, <2>1, <2>4, <2>5, <2>6, <2>7 DEF GoesOn
  <2> QED BY <2>7, <2>8
<1>12. CASE /\ k \notin Steps(r)
            /\ Leave(r, "returned", bs, rs, rest, st)
            /\ exec' = ex
  <2>0. k \notin 1 .. n
    BY <1>0, <1>12
  <2>1. Len(res) + g = n
    <3>1. ~(Len(res) + g < n) /\ Len(res) + g <= n
      BY <1>14, <2>0
    <3>2. Len(res) + g \in Nat /\ n \in Nat
      BY <1>0, <1>14
    <3> QED BY <3>1, <3>2
  <2>2. /\ phase' = [phase EXCEPT ![r] = "returned"] /\ letters' = Recorded(r, st)
        /\ results' = [results EXCEPT ![r] = rest] /\ exec' = ex
        /\ current' = [current EXCEPT ![r] = cur]
    BY <1>7, <1>12 DEF Leave
  <2>3. ~plan[r].skip => g <= 1
    BY <1>8
  <2>4. g \in Nat /\ Len(res) + g <= n
    BY <1>14
  <2>5. GoesOn(r, i, ex, res, cur, failed, g, rest, st)
    BY <1>4, <1>5, <2>1, <2>2, <2>3, <2>4 DEF GoesOn
  <2> QED BY <2>4, <2>5
<1> QED BY <1>7, <1>9, <1>10, <1>11, <1>12
-----------------------------------------------------------------------------
(* What a run has made of its steps                                        *)

\* c is the last of the first m results that is an answer, 0 without one.
LastAnswer(res, m, c) ==
    \/ c = 0 /\ \A j \in 1 .. m : ~res[j].ok
    \/ c \in 1 .. m /\ res[c].ok /\ \A j \in 1 .. m : res[j].ok => j <= c

\* Each agent was given the last answer before it, and so will the next be.
Fed(res, cur) ==
    /\ LastAnswer(res, Len(res), cur)
    /\ \A k \in 1 .. Len(res) : LastAnswer(res, k - 1, res[k].input)

\* The results are those of the first executions x, in the order of the plan.
Told(p, res, cur, x) ==
    /\ res \in Seq(Result) /\ Len(res) <= Len(p.agents) /\ cur \in 0 .. MaxSteps
    /\ \A k \in 1 .. Len(res) : /\ res[k].step = k /\ x[k].pc \in {"idle", "ok", "failed"}
                                /\ res[k].ok <=> x[k].pc = "ok"
    /\ p.mode = "pipeline" => Fed(res, cur)

\* Unless the run passes failures over, only the last result may be one.
Unbroken(p, m, res) == ~p.skip => \A k \in 1 .. m : res[k].ok

Phase == {"new", "running", "returned", "raised"}

\* A run that goes step by step executes the first step without a result,
\* and none after it.
Stepwise(p, ph, res, cur, x) ==
    /\ ph \in Phase
    /\ Told(p, res, cur, x)
    /\ \A k \in Step : k > Len(res) => \/ x[k] = Idle
                                       \/ ph = "running" /\ k = Len(res) + 1
    /\ ph = "new" => res = <<>> /\ cur = 0
    /\ ph = "running" => Len(res) < Len(p.agents) /\ x[Len(res) + 1].pc \in Pending
    /\ ph # "returned" => Unbroken(p, Len(res), res)
    /\ ph = "returned" => /\ Unbroken(p, Len(res) - 1, res)
                          /\ \/ Len(res) = Len(p.agents)
                             \/ ~p.skip /\ Len(res) # 0 /\ ~res[Len(res)].ok

\* The outcomes of the tasks of gather, in the order of the plan.
Gathered(p, res, x) ==
    /\ Len(res) = Len(p.agents)
    /\ \A k \in 1 .. Len(res) : /\ res[k].step = k /\ x[k].pc \in {"ok", "failed"}
                                /\ res[k].ok <=> x[k].pc = "ok"

\* A parallel run executes all of its steps, and then tells of them.
Together(p, ph, res, cur, x) ==
    /\ ph \in Phase /\ ph # "raised"
    /\ res \in Seq(Result) /\ cur = 0
    /\ ph = "new" => \A k \in Step : x[k] = Idle
    /\ ph # "new" => \A k \in Step : IF k <= Len(p.agents) THEN x[k].pc # "idle"
                                                           ELSE x[k] = Idle
    /\ ph # "returned" => res = <<>>
    /\ ph = "returned" => Gathered(p, res, x)

Shape(p, ph, res, cur, x) ==
    IF p.mode = "parallel" THEN Together(p, ph, res, cur, x)
                           ELSE Stepwise(p, ph, res, cur, x)

RunsInv ==
    /\ phase \in [Run -> Phase] /\ results \in [Run -> Seq(Result)]
    /\ current \in [Run -> 0 .. MaxSteps]
    /\ \A r \in Run : Shape(plan[r], phase[r], results[r], current[r], exec[r])


\* The fields of a result.
LEMMA ResultFields ==
    ASSUME NEW res \in Seq(Result), NEW k \in 1 .. Len(res)
    PROVE  res[k].step \in Step /\ res[k].ok \in BOOLEAN /\ res[k].input \in Nat
<1>1. PICK e \in Result : e = res[k]
  BY ElementOfSeq
<1>2. e.step \in Step /\ e.ok \in BOOLEAN /\ e.input \in 0 .. MaxSteps
  BY Zenon DEF Result
<1> QED BY <1>1, <1>2, OrchestratorAssumption

\* The last answer stays the same over results that are none.
LEMMA LastAnswerMore ==
    ASSUME NEW res, NEW new, NEW m \in Nat, NEW l \in Nat, m <= l, NEW c \in Nat,
           LastAnswer(res, m, c), \A j \in 1 .. m : new[j] = res[j],
           \A j \in m + 1 .. l : ~new[j].ok
    PROVE  LastAnswer(new, l, c)
<1>1. \A j \in 1 .. l : j \in 1 .. m \/ j \in m + 1 .. l
  OBVIOUS
<1>2. CASE c = 0 /\ \A j \in 1 .. m : ~res[j].ok
  BY <1>1, <1>2 DEF LastAnswer
<1>3. CASE c \in 1 .. m /\ res[c].ok /\ \A j \in 1 .. m : res[j].ok => j <= c
  BY <1>1, <1>3 DEF LastAnswer
<1> QED BY <1>2, <1>3 DEF LastAnswer

\* The size of a plan, as a number.
LEMMA PlanSize ==
    ASSUME Inv, NEW r \in Run
    PROVE  /\ Len(plan[r].agents) \in Nat /\ 1 <= Len(plan[r].agents)
           /\ Len(plan[r].agents) <= MaxSteps /\ MaxSteps \in Nat
           /\ Steps(r) = 1 .. Len(plan[r].agents)
BY PlanOf, OrchestratorAssumption

\* Steps that are turned down, with the last answer as their input, are told.
LEMMA TurnedDownTold ==
    ASSUME NEW p, Len(p.agents) \in Nat, Len(p.agents) <= MaxSteps,
           NEW res, NEW cur, NEW x, Told(p, res, cur, x), NEW new, NEW g \in Nat,
           Listed(new, res, g, cur), Len(res) + g <= Len(p.agents),
           \A k \in Step : k > Len(res) => x[k] = Idle
    PROVE  Told(p, new, cur, x)
<1>1. /\ res \in Seq(Result) /\ Len(res) \in Nat /\ MaxSteps \in Nat /\ cur \in 0 .. MaxSteps
      /\ cur \in Nat /\ new \in Seq(Result) /\ Len(new) = Len(res) + g
  BY LenProperties, OrchestratorAssumption DEF Told, Listed
<1>2. ASSUME NEW k \in 1 .. Len(new), k > Len(res)
      PROVE  /\ new[k] = Failed(k, cur) /\ new[k].step = k /\ new[k].ok = FALSE
             /\ new[k].input = cur /\ x[k] = Idle
  <2>1. k \in Len(res) + 1 .. Len(res) + g /\ k \in Step
    BY <1>1, <1>2 DEF Step
  <2>2. new[k] = Failed(k, cur)
    BY <2>1 DEF Listed
  <2>3. /\ Failed(k, cur).step = k /\ Failed(k, cur).ok = FALSE
        /\ Failed(k, cur).input = cur
    BY <1>1, <2>1, FailedIsResult
  <2> QED BY <1>2, <2>1, <2>2, <2>3
<1>3. ASSUME NEW k \in 1 .. Len(new), ~(k > Len(res))
      PROVE  k \in 1 .. Len(res) /\ new[k] = res[k]
  BY <1>1, <1>3 DEF Listed
<1>4. \A k \in 1 .. Len(new) : /\ new[k].step = k /\ x[k].pc \in {"idle", "ok", "failed"}
                               /\ new[k].ok <=> x[k].pc = "ok"
  <2> TAKE k \in 1 .. Len(new)
  <2>1. CASE k > Len(res)
    <3>1. Idle.pc = "idle"
      BY DEF Idle
    <3>2. new[k].step = k /\ new[k].ok = FALSE /\ x[k] = Idle
      BY <1>2, <2>1
    <3> QED BY <3>1, <3>2
  <2>2. CASE ~(k > Len(res))
    BY <1>3, <2>2 DEF Told
  <2> QED BY <2>1, <2>2
<1>5. ASSUME p.mode = "pipeline"
      PROVE  Fed(new, cur)
  <2>1. LastAnswer(res, Len(res), cur)
    BY <1>5 DEF Told, Fed
  <2>2. \A j \in 1 .. Len(res) : new[j] = res[j]
    BY DEF Listed
  <2>3. ASSUME NEW l \in Nat, Len(res) <= l, l <= Len(new)
        PROVE  LastAnswer(new, l, cur)
    <3>1. \A j \in Len(res) + 1 .. l : ~new[j].ok
      <4> TAKE j \in Len(res) + 1 .. l
      <4>1. j \in 1 .. Len(new) /\ j > Len(res)
        BY <1>1, <2>3
      <4> QED BY <1>2, <4>1
    <3> QED BY <1>1, <2>1, <2>2, <2>3, <3>1, LastAnswerMore
  <2>4. LastAnswer(new, Len(new), cur)
    BY <1>1, <2>3
  <2>5. ASSUME NEW k \in 1 .. Len(new)
        PROVE  LastAnswer(new, k - 1, new[k].input)
    <3>1. CASE k > Len(res)
      <4>1. k - 1 \in Nat /\ Len(res) <= k - 1 /\ k - 1 <= Len(new)
        BY <1>1, <3>1
      <4>2. new[k].input = cur
        BY <1>2, <3>1
      <4> QED BY <2>3, <4>1, <4>2
    <3>2. CASE ~(k > Len(res))
      <4>1. k \in 1 .. Len(res) /\ new[k] = res[k]
        BY <1>3, <3>2
      <4>2. LastAnswer(res, k - 1, res[k].input)
        BY <1>5, <4>1 DEF Told, Fed
      <4>3. res[k].input \in Nat
        BY <1>1, <4>1, ResultFields
      <4>4. PICK m \in Nat : m = k - 1
        BY <4>1
      <4>5. /\ m <= m /\ \A j \in 1 .. m : new[j] = res[j]
            /\ \A j \in m + 1 .. m : ~new[j].ok
        BY <1>1, <2>2, <4>1, <4>4
      <4>6. LastAnswer(new, m, res[k].input)
        <5>1. LastAnswer(res, m, res[k].input)
          BY <4>2, <4>4
        <5> QED BY <4>3, <4>5, <5>1, LastAnswerMore
      <4> QED BY <4>1, <4>4, <4>6
    <3> QED BY <3>1, <3>2
  <2> QED BY <2>4, <2>5 DEF Fed
<1> QED BY <1>1, <1>4, <1>5 DEF Told

\* new is res and the result of step i, which was given cur.
Extended(new, res, i, ok, cur) ==
    /\ new \in Seq(Result) /\ Len(new) = i
    /\ \A k \in 1 .. Len(res) : new[k] = res[k]
    /\ new[i].step = i /\ new[i].ok = ok /\ new[i].input = cur

\* That is what appending it makes.
LEMMA ExtendedBy ==
    ASSUME NEW res \in Seq(Result), NEW i, i = Len(res) + 1, i \in Step,
           NEW ok \in BOOLEAN, NEW cur \in 0 .. MaxSteps,
           NEW new, new = Append(res, [step |-> i, ok |-> ok, input |-> cur])
    PROVE  Extended(new, res, i, ok, cur)
<1>1. PICK e : e = [step |-> i, ok |-> ok, input |-> cur]
  OBVIOUS
<1>2. e \in Result /\ e.step = i /\ e.ok = ok /\ e.input = cur
  BY <1>1 DEF Result
<1> QED BY <1>1, <1>2, AppendProperties DEF Extended

\* So is the step whose execution has ended, with what it was given.
LEMMA EndedTold ==
    ASSUME NEW p, Len(p.agents) \in Nat, Len(p.agents) <= MaxSteps,
           NEW res, NEW cur, NEW x, Told(p, res, cur, x), NEW i, i = Len(res) + 1,
           i <= Len(p.agents), NEW ok \in BOOLEAN, NEW y,
           \A k \in 1 .. Len(res) : y[k] = x[k],
           ok => y[i].pc = "ok", ~ok => y[i].pc = "failed",
           NEW out, ok /\ p.mode = "pipeline" => out = i,
           (ok /\ p.mode = "pipeline") \/ out = cur,
           NEW new, Extended(new, res, i, ok, cur)
    PROVE  Told(p, new, out, y)
<1>1. /\ res \in Seq(Result) /\ Len(res) \in Nat /\ MaxSteps \in Nat /\ cur \in 0 .. MaxSteps
      /\ cur \in Nat /\ i \in Step /\ i \in Nat
  BY LenProperties, OrchestratorAssumption DEF Told, Step
<1>2. PICK e : e = new[i]
  OBVIOUS
<1>3. e.step = i /\ e.ok = ok /\ e.input = cur
  BY <1>2 DEF Extended
<1>4. /\ new \in Seq(Result) /\ Len(new) = Len(res) + 1 /\ new[Len(res) + 1] = e
      /\ \A k \in 1 .. Len(res) : new[k] = res[k]
  BY <1>1, <1>2 DEF Extended
<1>5. \A k \in 1 .. Len(new) : k \in 1 .. Len(res) \/ k = i
  BY <1>1, <1>4
<1>6. \A k \in 1 .. Len(new) : /\ new[k].step = k /\ y[k].pc \in {"idle", "ok", "failed"}
                               /\ new[k].ok <=> y[k].pc = "ok"
  <2> TAKE k \in 1 .. Len(new)
  <2>1. CASE k \in 1 .. Len(res)
    BY <1>4, <2>1 DEF Told
  <2>2. CASE k = i
    BY <1>3, <1>4, <2>2
  <2> QED BY <1>5, <2>1, <2>2
<1>7. ASSUME p.mode = "pipeline"
      PROVE  Fed(new, out)
  <2>1. LastAnswer(res, Len(res), cur)
    BY <1>7 DEF Told, Fed
  <2>2. LastAnswer(new, Len(new), out)
    <3>1. CASE ok
      <4>1. out = i
        BY <1>7, <3>1
      <4>2. i \in 1 .. Len(new) /\ \A j \in 1 .. Len(new) : j <= i
        BY <1>1, <1>4
      <4>3. new[i].ok
        BY <3>1 DEF Extended
      <4> QED BY <4>1, <4>2, <4>3 DEF LastAnswer
    <3>2. CASE ~ok
      <4>1. out = cur /\ \A j \in Len(res) + 1 .. Len(new) : ~new[j].ok
        BY <1>1, <1>3, <1>4, <3>2
      <4>2. Len(new) \in Nat /\ Len(res) <= Len(new)
        BY <1>1, <1>4
      <4>3. PICK m \in Nat, l \in Nat : m = Len(res) /\ l = Len(new)
        BY <1>1, <4>2
      <4>4. /\ m <= l /\ LastAnswer(res, m, cur)
            /\ \A j \in 1 .. m : new[j] = res[j]
            /\ \A j \in m + 1 .. l : ~new[j].ok
        BY <1>4, <2>1, <4>1, <4>2, <4>3
      <4>5. PICK d \in Nat : d = cur
        BY <1>1
      <4>6. LastAnswer(res, m, d)
        BY <4>4, <4>5
      <4>7. LastAnswer(new, l, d)
        BY <4>4, <4>6, LastAnswerMore
      <4> QED BY <4>1, <4>3, <4>5, <4>7
    <3> QED BY <3>1, <3>2
  <2>3. ASSUME NEW k \in 1 .. Len(new)
        PROVE  LastAnswer(new, k - 1, new[k].input)
    <3>1. PICK c \in Nat : c = new[k].input /\ LastAnswer(res, k - 1, c)
      <4>1. CASE k = i
        BY <1>1, <1>3, <1>4, <2>1, <4>1
      <4>2. CASE k \in 1 .. Len(res)
        <5>1. res[k].input \in Nat
          BY <1>1, <4>2, ResultFields
        <5> QED BY <1>4, <1>7, <4>2, <5>1 DEF Told, Fed
      <4> QED BY <1>5, <4>1, <4>2
    <3>2. PICK m \in Nat : m = k - 1
      OBVIOUS
    <3>3. /\ m <= m /\ \A j \in 1 .. m : new[j] = res[j]
          /\ \A j \in m + 1 .. m : ~new[j].ok
      BY <1>1, <1>4, <3>2
    <3>4. LastAnswer(res, m, c)
      BY <3>1, <3>2
    <3>5. LastAnswer(new, m, c)
      BY <3>3, <3>4, LastAnswerMore
    <3> QED BY <3>1, <3>2, <3>5
  <2> QED BY <2>2, <2>3 DEF Fed
<1>8. out \in 0 .. MaxSteps
  BY <1>1 DEF Step
<1> QED BY <1>1, <1>4, <1>6, <1>7, <1>8 DEF Told

\* Only the states of the executions matter, up to the last result.
LEMMA ToldAgrees ==
    ASSUME NEW p, NEW res, NEW cur, NEW x, Told(p, res, cur, x), NEW y,
           \A k \in 1 .. Len(res) : y[k].pc = x[k].pc
    PROVE  Told(p, res, cur, y)
BY DEF Told

\* The parts of a shape are what they should be.
LEMMA ShapeTyped ==
    ASSUME NEW p, NEW ph, NEW res, NEW cur, NEW x, Shape(p, ph, res, cur, x)
    PROVE  ph \in Phase /\ res \in Seq(Result) /\ cur \in 0 .. MaxSteps /\ Len(res) \in Nat
<1>1. CASE p.mode = "parallel"
  <2>1. 0 \in 0 .. MaxSteps
    BY OrchestratorAssumption
  <2> QED BY <1>1, <2>1, LenProperties DEF Shape, Together
<1>2. CASE p.mode # "parallel"
  BY <1>2, LenProperties DEF Shape, Stepwise, Told
<1> QED BY <1>1, <1>2

\* The invariant after a step, unfolded.
LEMMA RunsInvNext ==
    ASSUME phase' \in [Run -> Phase], results' \in [Run -> Seq(Result)],
           current' \in [Run -> 0 .. MaxSteps],
           \A q \in Run : Shape(plan'[q], phase'[q], results'[q], current'[q], exec'[q])
    PROVE  RunsInv'
BY DEF RunsInv, Shape, Stepwise, Together, Told, Fed, LastAnswer, Gathered, Unbroken,
       Phase, Step, Idle, Result, Pending

\* A step of one run leaves the others as they are.
LEMMA OthersStay ==
    ASSUME RunsInv, plan' = plan, NEW r \in Run,
           phase' \in [Run -> Phase], results' \in [Run -> Seq(Result)],
           current' \in [Run -> 0 .. MaxSteps],
           \A q \in Run : q # r => /\ phase'[q] = phase[q] /\ results'[q] = results[q]
                                   /\ current'[q] = current[q] /\ exec'[q] = exec[q],
           Shape(plan[r], phase'[r], results'[r], current'[r], exec'[r])
    PROVE  RunsInv'
<1>1. ASSUME NEW q \in Run
      PROVE  Shape(plan'[q], phase'[q], results'[q], current'[q], exec'[q])
  <2>1. CASE q = r
    BY <2>1
  <2>2. CASE q # r
    <3>1. Shape(plan[q], phase[q], results[q], current[q], exec[q])
      BY DEF RunsInv
    <3> QED BY <2>2, <3>1
  <2> QED BY <2>1, <2>2
<1> QED BY <1>1, RunsInvNext

\* Likewise, with what it makes of the run it moves.
LEMMA OneRunMoves ==
    ASSUME RunsInv, plan' = plan, NEW r \in Run, NEW ph, NEW res, NEW cur,
           phase' = [phase EXCEPT ![r] = ph], results' = [results EXCEPT ![r] = res],
           current' = [current EXCEPT ![r] = cur],
           \A q \in Run : q # r => exec'[q] = exec[q],
           Shape(plan[r], ph, res, cur, exec'[r])
    PROVE  RunsInv'
<1>1. ph \in Phase /\ res \in Seq(Result) /\ cur \in 0 .. MaxSteps
  BY ShapeTyped
<1>2. /\ phase' \in [Run -> Phase] /\ results' \in [Run -> Seq(Result)]
      /\ current' \in [Run -> 0 .. MaxSteps]
  BY <1>1 DEF RunsInv
<1>3. /\ phase'[r] = ph /\ results'[r] = res /\ current'[r] = cur
      /\ \A q \in Run : q # r => /\ phase'[q] = phase[q] /\ results'[q] = results[q]
                                 /\ current'[q] = current[q] /\ exec'[q] = exec[q]
  BY DEF RunsInv
<1> QED BY <1>2, <1>3, OthersStay

\* An execution that begins is under way, and has been sent once more.
LEMMA ExecutedFields ==
    ASSUME NEW e \in Exec, NEW a \in Agent, NEW fell \in BOOLEAN, NEW c
    PROVE  LET d == Executed(e, a, fell, c)
           IN  /\ d.pc = IF AsksRay(c) THEN "ray" ELSE "local"
               /\ d.pc \in Pending /\ d.tries = 0 /\ d.fell = fell
               /\ d.sends = e.sends + 1
<1>1. PICK d : d = [e EXCEPT !.agent = a, !.tries = 0, !.fell = fell]
  OBVIOUS
<1>2. d \in Exec /\ d.tries = 0 /\ d.fell = fell /\ d.sends = e.sends
  BY <1>1, Zenon DEF Exec
<1>3. PICK w \in Pending : w = IF AsksRay(c) THEN "ray" ELSE "local"
  BY DEF Pending
<1>4. PICK f : f = [d EXCEPT !.pc = w, !.age = 0, !.sends = d.sends + 1]
  OBVIOUS
<1>5. f.pc = w /\ f.tries = d.tries /\ f.fell = d.fell /\ f.sends = d.sends + 1
  BY <1>2, <1>4 DEF Exec
<1>6. Executed(e, a, fell, c) = f
  BY <1>1, <1>3, <1>4, Zenon DEF Executed, Attempted
<1> QED BY <1>2, <1>3, <1>5, <1>6

\* The part of a run without an await leaves it in one of its shapes.
LEMMA ProceedShape ==
    ASSUME Inv, RunsInv, plan' = plan, NEW r \in Run, plan[r].mode # "parallel",
           NEW res, NEW cur, NEW failed \in Seq(Step), NEW i, i = Len(res) + 1,
           NEW ex \in Execs, \A q \in Run : q # r => ex[q] = exec[q],
           Told(plan[r], res, cur, ex[r]), Unbroken(plan[r], Len(res), res),
           \A k \in Step : k > Len(res) => ex[r][k] = Idle,
           NEW bs, NEW rs, Proceed(r, i, bs, rs, ex, res, cur, failed)
    PROVE  RunsInv'
<1>0. PICK p, n : p = plan[r] /\ n = Len(p.agents)
  OBVIOUS
<1>1. /\ n \in Nat /\ 1 <= n /\ n <= MaxSteps /\ MaxSteps \in Nat
      /\ res \in Seq(Result) /\ Len(res) \in Nat /\ Len(res) <= n /\ cur \in 0 .. MaxSteps
  BY <1>0, PlanSize, LenProperties DEF Told
<1>2. PICK g \in Nat : \E new, st : GoesOn(r, i, ex, res, cur, failed, g, new, st)
  BY <1>0, <1>1, ProceedTells
<1>3. PICK new :
          /\ Listed(new, res, g, cur) /\ Len(res) + g <= n
          /\ results' = [results EXCEPT ![r] = new]
          /\ current' = [current EXCEPT ![r] = cur]
          /\ \/ /\ phase' = [phase EXCEPT ![r] = "raised"] /\ exec' = ex
                /\ ~p.skip => g = 0
             \/ /\ phase' = [phase EXCEPT ![r] = "running"]
                /\ Len(res) + g < n
                /\ ~p.skip => g = 0
                /\ \E a \in Agent, fell \in BOOLEAN : \E c :
                       exec' = [ex EXCEPT ![r][i + g] =
                                   Executed(ex[r][i + g], a, fell, c)]
             \/ /\ phase' = [phase EXCEPT ![r] = "returned"] /\ exec' = ex
                /\ ~p.skip => g <= 1
                /\ Len(res) + g = n \/ (~p.skip /\ g = 1)
  BY <1>0, <1>2 DEF GoesOn
<1>4. /\ new \in Seq(Result) /\ Len(new) \in Nat /\ Len(new) = Len(res) + g
      /\ \A j \in 1 .. Len(res) : new[j] = res[j]
  BY <1>3, LenProperties DEF Listed
<1>5. Told(p, new, cur, ex[r])
  BY <1>0, <1>1, <1>3, TurnedDownTold
<1>6. \A k \in Step : k > Len(new) => ex[r][k] = Idle
  BY <1>1, <1>4 DEF Step
<1>7. /\ (~p.skip => g = 0) => Unbroken(p, Len(new), new)
      /\ (~p.skip => g <= 1) => Unbroken(p, Len(new) - 1, new)
  <2>1. ~p.skip => \A k \in 1 .. Len(res) : res[k].ok
    BY <1>0 DEF Unbroken
  <2>2. g = 0 => \A k \in 1 .. Len(new) : k \in 1 .. Len(res)
    BY <1>1, <1>4
  <2>3. g <= 1 => \A k \in 1 .. Len(new) - 1 : k \in 1 .. Len(res)
    BY <1>1, <1>4
  <2> QED BY <1>4, <2>1, <2>2, <2>3 DEF Unbroken
<1>8. CASE /\ phase' = [phase EXCEPT ![r] = "raised"] /\ exec' = ex
           /\ ~p.skip => g = 0
  <2>1. Stepwise(p, "raised", new, cur, ex[r])
    BY <1>5, <1>6, <1>7, <1>8 DEF Stepwise, Phase
  <2>2. Shape(plan[r], "raised", new, cur, exec'[r])
    BY <1>0, <1>8, <2>1 DEF Shape
  <2> QED BY <1>3, <1>8, <2>2, OneRunMoves
<1>9. CASE /\ phase' = [phase EXCEPT ![r] = "running"]
           /\ Len(res) + g < n
           /\ ~p.skip => g = 0
           /\ \E a \in Agent, fell \in BOOLEAN : \E c :
                  exec' = [ex EXCEPT ![r][i + g] = Executed(ex[r][i + g], a, fell, c)]
  <2>1. PICK a \in Agent, fell \in BOOLEAN : \E c :
             exec' = [ex EXCEPT ![r][i + g] = Executed(ex[r][i + g], a, fell, c)]
    BY <1>9
  <2>2. PICK c : exec' = [ex EXCEPT ![r][i + g] = Executed(ex[r][i + g], a, fell, c)]
    BY <2>1
  <2>3. PICK k : k = i + g
    OBVIOUS
  <2>4. k \in Step /\ k = Len(new) + 1
    BY <1>1, <1>4, <1>9, <2>3 DEF Step
  <2>5. PICK d : d = Executed(ex[r][k], a, fell, c)
    OBVIOUS
  <2>6. ex[r][k] \in Exec
    BY <2>4 DEF Execs, GoodExec
  <2>7. d.pc \in Pending
    BY <2>5, <2>6, ExecutedFields
  <2>8. /\ exec'[r][k] = d /\ \A j \in Step : j # k => exec'[r][j] = ex[r][j]
        /\ \A q \in Run : q # r => exec'[q] = exec[q]
    BY <2>2, <2>3, <2>4, <2>5 DEF Execs
  <2>9. \A j \in 1 .. Len(new) : j \in Step /\ j # k
    BY <1>1, <1>3, <1>4, <2>4 DEF Step
  <2>10. Told(p, new, cur, exec'[r])
    BY <1>5, <2>8, <2>9, ToldAgrees
  <2>11. Stepwise(p, "running", new, cur, exec'[r])
    BY <1>0, <1>4, <1>6, <1>7, <1>9, <2>4, <2>7, <2>8, <2>10 DEF Stepwise, Phase
  <2>12. Shape(plan[r], "running", new, cur, exec'[r])
    BY <1>0, <2>11 DEF Shape
  <2> QED BY <1>3, <1>9, <2>8, <2>12, OneRunMoves
<1>10. CASE /\ phase' = [phase EXCEPT ![r] = "returned"] /\ exec' = ex
            /\ ~p.skip => g <= 1
            /\ Len(res) + g = n \/ (~p.skip /\ g = 1)
  <2>1. ~p.skip /\ g = 1 => Len(new) # 0 /\ ~new[Len(new)].ok
    <3> SUFFICES ASSUME g = 1 PROVE Len(new) # 0 /\ ~new[Len(new)].ok
      OBVIOUS
    <3>1. Len(new) \in Len(res) + 1 .. Len(res) + g /\ Len(new) \in Step
      BY <1>1, <1>3, <1>4 DEF Step
    <3>2. new[Len(new)] = Failed(Len(new), cur)
      BY <1>3, <3>1 DEF Listed
    <3>3. Failed(Len(new), cur).ok = FALSE
      BY <1>1, <3>1, FailedIsResult
    <3> QED BY <1>1, <1>4, <3>2, <3>3
  <2>2. Stepwise(p, "returned", new, cur, ex[r])
    BY <1>0, <1>4, <1>5, <1>6, <1>7, <1>10, <2>1 DEF Stepwise, Phase
  <2>3. Shape(plan[r], "returned", new, cur, exec'[r])
    BY <1>0, <1>10, <2>2 DEF Shape
  <2> QED BY <1>3, <1>10, <2>3, OneRunMoves
<1> QED BY <1>3, <1>8, <1>9, <1>10

\* An execution that has not ended is that of the first step without a
\* result, or one of the tasks of gather.
LEMMA UnderWay ==
    ASSUME Inv, RunsInv, NEW r \in Run, NEW i \in Step,
           exec[r][i].pc \in Pending \cup {"ready"}
    PROVE  /\ phase[r] = "running" /\ i <= Len(plan[r].agents)
           /\ plan[r].mode # "parallel" => /\ i = Len(results[r]) + 1
                                           /\ exec[r][i].pc \in Pending
<1>1. PICK p, ph, res, cur, x : /\ p = plan[r] /\ ph = phase[r] /\ res = results[r]
                                /\ cur = current[r] /\ x = exec[r]
  OBVIOUS
<1>2. Shape(p, ph, res, cur, x) /\ x[i].pc \in Pending \cup {"ready"}
  BY <1>1 DEF RunsInv
<1>3. x[i] # Idle /\ x[i].pc \notin {"idle", "ok", "failed"}
  BY <1>2 DEF Idle, Pending
<1>4. Len(res) \in Nat /\ Len(p.agents) \in Nat /\ i \in Nat /\ 1 <= i
  BY <1>1, <1>2, ShapeTyped, PlanSize DEF Step
<1>5. CASE p.mode = "parallel"
  <2>1. Together(p, ph, res, cur, x)
    BY <1>2, <1>5 DEF Shape
  <2>2. ph # "new" /\ i <= Len(p.agents)
    BY <1>3, <1>4, <2>1 DEF Together
  <2>3. ph # "returned"
    BY <1>3, <1>4, <2>1, <2>2 DEF Together, Gathered
  <2> QED BY <1>1, <1>5, <2>1, <2>2, <2>3 DEF Together, Phase
<1>6. CASE p.mode # "parallel"
  <2>1. Stepwise(p, ph, res, cur, x)
    BY <1>2, <1>6 DEF Shape
  <2>2. i > Len(res)
    BY <1>3, <1>4, <2>1 DEF Stepwise, Told
  <2>3. ph = "running" /\ i = Len(res) + 1
    BY <1>3, <2>1, <2>2 DEF Stepwise
  <2>4. x[i].pc \in Pending /\ i <= Len(p.agents)
    BY <1>4, <2>1, <2>3 DEF Stepwise
  <2> QED BY <1>1, <2>3, <2>4
<1> QED BY <1>5, <1>6

\* An execution goes on; one of gather's may end.
LEMMA OneExecMoves ==
    ASSUME Inv, RunsInv, plan' = plan, UNCHANGED <<phase, results, current>>,
           NEW r \in Run, NEW i \in Step, exec[r][i].pc \in Pending \cup {"ready"},
           NEW e, exec' = [exec EXCEPT ![r][i] = e],
           \/ e.pc \in Pending
           \/ plan[r].mode = "parallel" /\ e.pc \in {"ok", "failed"}
    PROVE  RunsInv'
<1>1. PICK p, ph, res, cur, x : /\ p = plan[r] /\ ph = phase[r] /\ res = results[r]
                                /\ cur = current[r] /\ x = exec[r]
  OBVIOUS
<1>2. Shape(p, ph, res, cur, x)
  BY <1>1 DEF RunsInv
<1>3. PICK y : y = exec'[r]
  OBVIOUS
<1>4. /\ y[i] = e /\ \A k \in Step : k # i => y[k] = x[k]
      /\ \A q \in Run : q # r => exec'[q] = exec[q]
  BY <1>1, <1>3 DEF Inv, Execs
<1>5. /\ Len(res) \in Nat /\ Len(p.agents) \in Nat /\ Len(p.agents) <= MaxSteps
      /\ i \in Nat /\ MaxSteps \in Nat
  BY <1>1, <1>2, ShapeTyped, PlanSize DEF Step
<1>6. /\ ph = "running" /\ i <= Len(p.agents) /\ e.pc \in Pending \cup {"ok", "failed"}
      /\ p.mode # "parallel" => i = Len(res) + 1 /\ e.pc \in Pending
  BY <1>1, UnderWay
<1>7. ASSUME p.mode = "parallel" PROVE Shape(p, ph, res, cur, y)
  <2>1. Together(p, ph, res, cur, x)
    BY <1>2, <1>7 DEF Shape
  <2>2. e.pc # "idle"
    BY <1>6 DEF Pending
  <2>3. \A k \in Step : IF k <= Len(p.agents) THEN y[k].pc # "idle" ELSE y[k] = Idle
    BY <1>4, <1>6, <2>1, <2>2 DEF Together
  <2>4. Together(p, ph, res, cur, y)
    BY <1>6, <2>1, <2>3 DEF Together
  <2> QED BY <1>7, <2>4 DEF Shape
<1>8. ASSUME p.mode # "parallel" PROVE Shape(p, ph, res, cur, y)
  <2>1. Stepwise(p, ph, res, cur, x)
    BY <1>2, <1>8 DEF Shape
  <2>2. \A k \in 1 .. Len(res) : k \in Step /\ k # i
    <3>1. Len(res) <= Len(p.agents)
      BY <2>1 DEF Stepwise, Told
    <3> QED BY <1>5, <1>6, <1>8, <3>1 DEF Step
  <2>3. Told(p, res, cur, y)
    BY <1>4, <2>1, <2>2, ToldAgrees DEF Stepwise
  <2>4. Stepwise(p, ph, res, cur, y)
    BY <1>4, <1>6, <1>8, <2>1, <2>3 DEF Stepwise
  <2> QED BY <1>8, <2>4 DEF Shape
<1>9. Shape(p, ph, res, cur, y)
  BY <1>7, <1>8
<1>10. Shape(plan[r], phase'[r], results'[r], current'[r], exec'[r])
  BY <1>1, <1>3, <1>9
<1>11. /\ phase' \in [Run -> Phase] /\ results' \in [Run -> Seq(Result)]
       /\ current' \in [Run -> 0 .. MaxSteps]
  BY DEF RunsInv
<1> QED BY <1>4, <1>10, <1>11, OthersStay

\* A run begins.
LEMMA BeginShape ==
    ASSUME Inv, RunsInv, NEW r \in Run, Begin(r)
    PROVE  RunsInv'
<1>1. /\ plan' = plan /\ plan[r].mode # "parallel" /\ exec \in Execs
      /\ Proceed(r, 1, breaker, ray, exec, <<>>, 0, <<>>)
  BY DEF Begin, Inv
<1>2. Stepwise(plan[r], "new", results[r], current[r], exec[r])
  BY <1>1 DEF Begin, RunsInv, Shape
<1>3. results[r] = <<>> /\ current[r] = 0
  BY <1>2 DEF Stepwise
<1>4. PICK res, cur : res = <<>> /\ cur = 0 /\ res = results[r] /\ cur = current[r]
  BY <1>3
<1>5. /\ Told(plan[r], res, cur, exec[r]) /\ Unbroken(plan[r], Len(res), res)
      /\ \A k \in Step : k > Len(res) => exec[r][k] = Idle
  BY <1>2, <1>4 DEF Stepwise
<1>6. PICK i, failed : i = 1 /\ failed = <<>> /\ i = Len(res) + 1 /\ failed \in Seq(Step)
  <2>1. 1 = Len(<<>>) + 1 /\ <<>> \in Seq(Step)
    OBVIOUS
  <2> QED BY <1>4, <2>1
<1>7. Proceed(r, i, breaker, ray, exec, res, cur, failed)
  BY <1>1, <1>4, <1>6
<1> QED BY <1>1, <1>5, <1>6, <1>7, ProceedShape

\* gather starts all tasks.
LEMMA BeginParallelShape ==
    ASSUME Inv, RunsInv, NEW r \in Run, BeginParallel(r)
    PROVE  RunsInv'
<1>1. /\ plan' = plan /\ plan[r].mode = "parallel"
      /\ phase' = [phase EXCEPT ![r] = "running"] /\ UNCHANGED <<results, current>>
  BY DEF BeginParallel
<1>2. PICK e : e = [Idle EXCEPT !.pc = "ready"]
  OBVIOUS
<1>3. e.pc = "ready"
  BY <1>2 DEF Idle
<1>4. exec' = [exec EXCEPT ![r] = [i \in Step |-> IF i \in Steps(r) THEN e ELSE Idle]]
  BY <1>2 DEF BeginParallel
<1>5. /\ \A q \in Run : q # r => exec'[q] = exec[q]
      /\ exec'[r] = [i \in Step |-> IF i \in Steps(r) THEN e ELSE Idle]
  BY <1>4 DEF Inv, Execs
<1>6. PICK n : n = Len(plan[r].agents) /\ n \in Nat /\ Steps(r) = 1 .. n
  BY PlanSize
<1>7. ASSUME NEW k \in Step
      PROVE  IF k <= n THEN exec'[r][k].pc # "idle" ELSE exec'[r][k] = Idle
  <2>1. k \in Steps(r) <=> k <= n
    BY <1>6, OrchestratorAssumption DEF Step
  <2> QED BY <1>3, <1>5, <2>1
<1>8. Together(plan[r], "new", results[r], current[r], exec[r])
  BY <1>1 DEF BeginParallel, RunsInv, Shape
<1>9. Together(plan[r], "running", results[r], current[r], exec'[r])
  BY <1>6, <1>7, <1>8 DEF Together, Phase
<1>10. Shape(plan[r], "running", results[r], current[r], exec'[r])
  BY <1>1, <1>9 DEF Shape
<1>11. /\ phase' \in [Run -> Phase] /\ results' \in [Run -> Seq(Result)]
       /\ current' \in [Run -> 0 .. MaxSteps] /\ phase'[r] = "running"
       /\ \A q \in Run : q # r => phase'[q] = phase[q]
  BY <1>1 DEF RunsInv, Phase
<1>12. Shape(plan[r], phase'[r], results'[r], current'[r], exec'[r])
  BY <1>1, <1>10, <1>11
<1> QED BY <1>1, <1>5, <1>11, <1>12, OthersStay

\* All tasks have ended: their outcomes are the results.
LEMMA GatherShape ==
    ASSUME Inv, RunsInv, NEW r \in Run, Gather(r)
    PROVE  RunsInv'
<1>1. /\ plan' = plan /\ plan[r].mode = "parallel" /\ exec' = exec
      /\ phase' = [phase EXCEPT ![r] = "returned"] /\ current' = current
      /\ results' = [results EXCEPT ![r] = Outcomes(r)]
      /\ \A i \in Steps(r) : exec[r][i].pc \in {"ok", "failed"}
  BY DEF Gather, Leave, Ended
<1>2. PICK n : n = Len(plan[r].agents) /\ n \in Nat /\ Steps(r) = 1 .. n /\ n <= MaxSteps
  BY PlanSize
<1>3. PICK res : res = Outcomes(r)
  OBVIOUS
<1>4. ASSUME NEW i \in 1 .. n
      PROVE  /\ res[i] \in Result /\ res[i].step = i
             /\ res[i].ok <=> exec[r][i].pc = "ok"
  <2>1. i \in Step /\ 0 \in 0 .. MaxSteps
    BY <1>2, OrchestratorAssumption DEF Step
  <2>2. PICK ok \in BOOLEAN : ok = (exec[r][i].pc = "ok")
    OBVIOUS
  <2>3. res[i] = [step |-> i, ok |-> ok, input |-> 0]
    BY <1>2, <1>3, <2>2 DEF Outcomes
  <2>4. res[i] \in Result /\ res[i].step = i /\ res[i].ok = ok
    BY <2>1, <2>3 DEF Result
  <2> QED BY <2>2, <2>4
<1>5. res \in [1 .. n -> Result]
  BY <1>2, <1>3, <1>4 DEF Outcomes
<1>6. res \in Seq(Result) /\ Len(res) = n
  BY <1>2, <1>5, FunctionIsSeq
<1>7. Gathered(plan[r], res, exec[r])
  BY <1>1, <1>2, <1>4, <1>6 DEF Gathered
<1>8. Together(plan[r], "running", results[r], current[r], exec[r])
  BY <1>1 DEF Gather, RunsInv, Shape
<1>9. PICK cur : cur = current[r] /\ current' = [current EXCEPT ![r] = cur]
  BY <1>1 DEF RunsInv
<1>10. Together(plan[r], "returned", res, cur, exec'[r])
  BY <1>1, <1>6, <1>7, <1>8, <1>9 DEF Together, Phase
<1>11. Shape(plan[r], "returned", res, cur, exec'[r])
  BY <1>1, <1>10 DEF Shape
<1>12. \A q \in Run : q # r => exec'[q] = exec[q]
  BY <1>1
<1> QED BY <1>1, <1>3, <1>9, <1>11, <1>12, OneRunMoves

\* The end of the execution of step i makes the executions ex, the results
\* res and the input cur.
Ends(r, i, ok, ex, res, cur) ==
    /\ ex = [exec EXCEPT ![r][i].pc = IF ok THEN "ok" ELSE "failed"]
    /\ res = Append(results[r], [step |-> i, ok |-> ok, input |-> current[r]])
    /\ cur = IF ok /\ plan[r].mode = "pipeline" THEN i ELSE current[r]

\* Its run has told of that step then, and may go on to the next.
LEMMA EndShape ==
    ASSUME Inv, RunsInv, NEW r \in Run, NEW i \in Step,
           exec[r][i].pc \in Pending, plan[r].mode # "parallel",
           NEW ok \in BOOLEAN, NEW ex, NEW res, NEW cur, Ends(r, i, ok, ex, res, cur)
    PROVE  /\ i + 1 = Len(res) + 1 /\ Extended(res, results[r], i, ok, current[r])
           /\ \A q \in Run : q # r => ex[q] = exec[q]
           /\ Told(plan[r], res, cur, ex[r])
           /\ \A k \in Step : k > Len(res) => ex[r][k] = Idle
           /\ Unbroken(plan[r], Len(res) - 1, res)
           /\ ok \/ plan[r].skip => Unbroken(plan[r], Len(res), res)
<1>1. PICK p, old, c, x : /\ p = plan[r] /\ old = results[r]
                          /\ c = current[r] /\ x = exec[r]
  OBVIOUS
<1>2. /\ phase[r] = "running" /\ i = Len(old) + 1 /\ i <= Len(p.agents)
  BY <1>1, UnderWay
<1>3. Stepwise(p, "running", old, c, x)
  BY <1>1, <1>2 DEF RunsInv, Shape
<1>4. /\ Told(p, old, c, x) /\ Unbroken(p, Len(old), old)
      /\ \A k \in Step : k > Len(old) => x[k] = Idle \/ k = Len(old) + 1
  BY <1>3 DEF Stepwise
<1>5. /\ Len(p.agents) \in Nat /\ Len(p.agents) <= MaxSteps /\ MaxSteps \in Nat
      /\ old \in Seq(Result) /\ Len(old) \in Nat /\ c \in 0 .. MaxSteps /\ i \in Nat
  <2>1. /\ Len(p.agents) \in Nat /\ Len(p.agents) <= MaxSteps /\ MaxSteps \in Nat
    BY <1>1, PlanSize
  <2>2. old \in Seq(Result) /\ c \in 0 .. MaxSteps
    BY <1>4 DEF Told
  <2>3. Len(old) \in Nat
    BY <2>2, LenProperties
  <2> QED BY <2>1, <2>2, <2>3, OrchestratorAssumption DEF Step
<1>6. Extended(res, old, i, ok, c)
  <2>1. res = Append(old, [step |-> i, ok |-> ok, input |-> c])
    BY <1>1 DEF Ends
  <2> QED BY <1>2, <1>5, <2>1, ExtendedBy
<1>7. PICK y : y = ex[r]
  OBVIOUS
<1>8. /\ y[i].pc = (IF ok THEN "ok" ELSE "failed")
      /\ \A k \in Step : k # i => y[k] = x[k]
      /\ \A q \in Run : q # r => ex[q] = exec[q]
  <2>1. exec[r][i] \in Exec
    BY DEF Inv, Execs, GoodExec
  <2>2. PICK e, how : how = (IF ok THEN "ok" ELSE "failed") /\ e = [exec[r][i] EXCEPT !.pc = how]
    OBVIOUS
  <2>3. e.pc = how
    BY <2>1, <2>2 DEF Exec
  <2>4. ex = [exec EXCEPT ![r][i] = e]
    BY <2>2, Zenon DEF Ends
  <2> QED BY <1>1, <1>7, <2>2, <2>3, <2>4 DEF Inv, Execs
<1>9. \A k \in 1 .. Len(old) : k \in Step /\ k # i
  BY <1>2, <1>5 DEF Step
<1>10. \A k \in 1 .. Len(old) : y[k] = x[k]
  BY <1>8, <1>9
<1>11. Told(p, res, cur, y)
  <2>1. PICK out : out = cur
    OBVIOUS
  <2>2. PICK new : new = res
    OBVIOUS
  <2>3. out = IF ok /\ p.mode = "pipeline" THEN i ELSE c
    BY <1>1, <2>1 DEF Ends
  <2>4. Extended(new, old, i, ok, c)
    BY <1>6, <2>2
  <2>5. /\ ok => y[i].pc = "ok"
        /\ ~ok => y[i].pc = "failed"
        /\ ok /\ p.mode = "pipeline" => out = i
        /\ (ok /\ p.mode = "pipeline") \/ out = c
    BY <1>8, <2>3
  <2>6. Told(p, old, c, x)
    BY <1>4
  <2>7. Told(p, new, out, y)
    BY <1>2, <1>5, <1>10, <2>4, <2>5, <2>6, EndedTold
  <2> QED BY <2>1, <2>2, <2>7
<1>12. Len(res) = i
  BY <1>6 DEF Extended
<1>13. \A k \in Step : k > Len(res) => y[k] = Idle
  BY <1>2, <1>4, <1>5, <1>8, <1>12 DEF Step
<1>14. ~p.skip => \A k \in 1 .. Len(old) : res[k].ok
  BY <1>4, <1>6 DEF Unbroken, Extended
<1>15. Unbroken(p, Len(res) - 1, res)
  BY <1>2, <1>5, <1>12, <1>14 DEF Unbroken
<1>16. ASSUME ok \/ p.skip PROVE Unbroken(p, Len(res), res)
  <2>1. \A k \in 1 .. Len(res) : k \in 1 .. Len(old) \/ k = i
    BY <1>2, <1>5, <1>12
  <2>2. ok => res[i].ok
    BY <1>6 DEF Extended
  <2> QED BY <1>14, <1>16, <2>1, <2>2 DEF Unbroken
<1> QED BY <1>1, <1>6, <1>7, <1>8, <1>11, <1>12, <1>13, <1>15, <1>16

\* The execution of a step returns.
LEMMA SucceedsShape ==
    ASSUME Inv, RunsInv, plan' = plan, NEW r \in Run, NEW i \in Step,
           exec[r][i].pc \in Pending, NEW c, Succeeds(r, i, c)
    PROVE  RunsInv'
<1>1. PICK bs, rs, ex : /\ bs = [breaker EXCEPT ![exec[r][i].agent] =
                                    AfterSuccess(breaker[exec[r][i].agent])]
                        /\ rs = [ray EXCEPT ![exec[r][i].agent] = c]
                        /\ ex = [exec EXCEPT ![r][i].pc = "ok"]
  OBVIOUS
<1>2. ex \in Execs
  BY <1>1, OneEnds
<1>3. CASE plan[r].mode = "parallel" /\ exec' = ex /\ UNCHANGED <<phase, results, current>>
  <2>1. PICK e : e = [exec[r][i] EXCEPT !.pc = "ok"]
    OBVIOUS
  <2>2. e.pc = "ok"
    BY <2>1 DEF Inv, Execs, GoodExec, Exec
  <2>3. exec' = [exec EXCEPT ![r][i] = e]
    BY <1>1, <1>3, <2>1, Zenon
  <2> QED BY <1>3, <2>2, <2>3, OneExecMoves
<1>4. CASE /\ plan[r].mode # "parallel"
           /\ Proceed(r, i + 1, bs, rs, ex,
                      Append(results[r], [step |-> i, ok |-> TRUE, input |-> current[r]]),
                      Output(r, i), <<>>)
  <2>1. PICK res, cur, ok, failed :
             /\ res = Append(results[r], [step |-> i, ok |-> ok, input |-> current[r]])
             /\ cur = Output(r, i) /\ ok = TRUE /\ failed = <<>>
    OBVIOUS
  <2>2. Proceed(r, i + 1, bs, rs, ex, res, cur, failed) /\ failed \in Seq(Step)
    BY <1>4, <2>1
  <2>3. Ends(r, i, ok, ex, res, cur)
    BY <1>1, <2>1 DEF Ends, Output
  <2>5. /\ i + 1 = Len(res) + 1 /\ \A q \in Run : q # r => ex[q] = exec[q]
        /\ Told(plan[r], res, cur, ex[r])
        /\ \A k \in Step : k > Len(res) => ex[r][k] = Idle
        /\ Unbroken(plan[r], Len(res), res)
    <3>1. ok \in BOOLEAN /\ plan[r].mode # "parallel"
      BY <1>4, <2>1
    <3>2. /\ i + 1 = Len(res) + 1 /\ \A q \in Run : q # r => ex[q] = exec[q]
          /\ Told(plan[r], res, cur, ex[r])
          /\ \A k \in Step : k > Len(res) => ex[r][k] = Idle
          /\ ok \/ plan[r].skip => Unbroken(plan[r], Len(res), res)
      BY <2>3, <3>1, EndShape
    <3> QED BY <2>1, <3>2
  <2> QED BY <1>2, <1>4, <2>2, <2>5, ProceedShape
<1> QED BY <1>1, <1>3, <1>4, Zenon DEF Succeeds

\* It raises: its fallback begins, the run goes on or returns.
LEMMA RaisesShape ==
    ASSUME Inv, RunsInv, plan' = plan, NEW r \in Run, NEW i \in Step,
           exec[r][i].pc \in Pending, Raises(r, i)
    PROVE  RunsInv'
<1>1. PICK bs, ex, f, res, ok, cur :
             /\ bs = [breaker EXCEPT ![exec[r][i].agent] =
                         AfterFailure(breaker[exec[r][i].agent])]
             /\ ex = [exec EXCEPT ![r][i].pc = "failed"]
             /\ f = Fallback(r, i) /\ ok = FALSE /\ cur = current[r]
             /\ res = Append(results[r], Failed(i, current[r]))
  OBVIOUS
<1>2. ex \in Execs
  BY <1>1, OneEnds
<1>3. CASE plan[r].mode = "parallel" /\ exec' = ex /\ UNCHANGED <<phase, results, current>>
  <2>1. PICK e : e = [exec[r][i] EXCEPT !.pc = "failed"]
    OBVIOUS
  <2>2. e.pc = "failed"
    BY <2>1 DEF Inv, Execs, GoodExec, Exec
  <2>3. exec' = [exec EXCEPT ![r][i] = e]
    BY <1>1, <1>3, <2>1, Zenon
  <2> QED BY <1>3, <2>2, <2>3, OneExecMoves
<1>4. CASE /\ CanFallBack(r, i, bs) /\ UNCHANGED <<phase, results, current>>
           /\ exec' = [exec EXCEPT ![r][i] = Executed(exec[r][i], f, TRUE, ray[f])]
  <2>1. PICK e : e = Executed(exec[r][i], f, TRUE, ray[f])
    OBVIOUS
  <2>2. f \in Agent /\ exec[r][i] \in Exec
    BY <1>1, <1>4, OrchestratorAssumption DEF CanFallBack, Inv, Execs, GoodExec
  <2>3. e.pc \in Pending
    <3>1. PICK fell \in BOOLEAN, c \in {ray[f]} : fell = TRUE /\ c = ray[f]
      OBVIOUS
    <3>2. e = Executed(exec[r][i], f, fell, c)
      BY <2>1, <3>1
    <3> QED BY <2>2, <3>2, ExecutedFields
  <2> QED BY <1>4, <2>1, <2>3, OneExecMoves
<1>5. ASSUME plan[r].mode # "parallel"
      PROVE  /\ i + 1 = Len(res) + 1 /\ Extended(res, results[r], i, ok, cur)
             /\ \A q \in Run : q # r => ex[q] = exec[q]
             /\ Told(plan[r], res, cur, ex[r])
             /\ \A k \in Step : k > Len(res) => ex[r][k] = Idle
             /\ Unbroken(plan[r], Len(res) - 1, res)
             /\ plan[r].skip => Unbroken(plan[r], Len(res), res)
  <2>1. ok \in BOOLEAN
    BY <1>1
  <2>2. Ends(r, i, ok, ex, res, cur)
    BY <1>1 DEF Ends, Failed
  <2>3. /\ i + 1 = Len(res) + 1 /\ Extended(res, results[r], i, ok, current[r])
        /\ \A q \in Run : q # r => ex[q] = exec[q]
        /\ Told(plan[r], res, cur, ex[r])
        /\ \A k \in Step : k > Len(res) => ex[r][k] = Idle
        /\ Unbroken(plan[r], Len(res) - 1, res)
        /\ ok \/ plan[r].skip => Unbroken(plan[r], Len(res), res)
    BY <1>5, <2>1, <2>2, EndShape
  <2> QED BY <1>1, <2>3
<1>6. CASE /\ plan[r].mode # "parallel" /\ plan[r].skip
           /\ Proceed(r, i + 1, bs, ray, ex, res, cur, LettersOf(r, i))
  <2>1. PICK failed : failed = LettersOf(r, i)
    OBVIOUS
  <2>2. failed \in Seq(Step)
    BY <2>1 DEF LettersOf
  <2> QED BY <1>2, <1>5, <1>6, <2>1, <2>2, ProceedShape
<1>7. CASE /\ plan[r].mode # "parallel" /\ ~plan[r].skip /\ exec' = ex
           /\ phase' = [phase EXCEPT ![r] = "returned"] /\ UNCHANGED current
           /\ results' = [results EXCEPT ![r] = res]
  <2>1. Len(res) = i /\ i # 0 /\ res[i].ok = FALSE
    BY <1>1, <1>5, <1>7, OrchestratorAssumption DEF Extended, Step
  <2>2. Stepwise(plan[r], "returned", res, cur, ex[r])
    BY <1>5, <1>7, <2>1 DEF Stepwise, Phase
  <2>3. Shape(plan[r], "returned", res, cur, exec'[r])
    BY <1>7, <2>2 DEF Shape
  <2>4. current' = [current EXCEPT ![r] = cur]
    BY <1>1, <1>7 DEF RunsInv
  <2> QED BY <1>5, <1>7, <2>3, <2>4, OneRunMoves
<1> QED BY <1>1, <1>3, <1>4, <1>6, <1>7, Zenon DEF Raises, Leave

\* A task of gather begins its execution, or is turned down.
LEMMA StartOneShape ==
    ASSUME Inv, RunsInv, NEW r \in Run, NEW i \in Step, StartOne(r, i)
    PROVE  RunsInv'
<1>1. /\ plan' = plan /\ UNCHANGED <<phase, results, current>>
      /\ exec[r][i].pc \in Pending \cup {"ready"} /\ exec[r][i] \in Exec
  BY DEF StartOne, Inv, Execs, GoodExec
<1>2. plan[r].mode = "parallel"
  BY <1>1, UnderWay DEF StartOne, Pending
<1>3. CASE exec' = [exec EXCEPT ![r][i].pc = "failed"]
  <2>1. PICK e : e = [exec[r][i] EXCEPT !.pc = "failed"]
    OBVIOUS
  <2>2. e.pc = "failed"
    BY <1>1, <2>1 DEF Exec
  <2>3. exec' = [exec EXCEPT ![r][i] = e]
    BY <1>3, <2>1, Zenon
  <2> QED BY <1>1, <1>2, <2>2, <2>3, OneExecMoves
<1>4. CASE exec' = [exec EXCEPT ![r][i] = Executed(exec[r][i], plan[r].agents[i], FALSE,
                                                   ray[plan[r].agents[i]])]
  <2>1. PICK a \in Agent : a = plan[r].agents[i]
    BY StepAgents DEF StartOne
  <2>2. PICK fell \in BOOLEAN, c \in {ray[a]} : fell = FALSE
    OBVIOUS
  <2>3. PICK e : e = Executed(exec[r][i], a, fell, c)
    OBVIOUS
  <2>4. e.pc \in Pending
    BY <1>1, <2>3, ExecutedFields
  <2>5. exec' = [exec EXCEPT ![r][i] = e]
    BY <1>4, <2>1, <2>2, <2>3
  <2> QED BY <1>1, <2>4, <2>5, OneExecMoves
<1> QED BY <1>3, <1>4 DEF StartOne

\* The steps of an attempt, and the end of one by a timeout.
LEMMA AttemptShape ==
    ASSUME Inv, RunsInv, NEW r \in Run, NEW i \in Step,
           RayFails(r, i) \/ BacksOff(r, i) \/ Retries(r, i) \/ TimesOut(r, i)
    PROVE  RunsInv'
<1>1. /\ plan' = plan /\ UNCHANGED <<phase, results, current>>
      /\ exec[r][i].pc \in Pending /\ exec[r][i] \in Exec
  BY DEF RayFails, BacksOff, Retries, TimesOut, Inv, Execs, GoodExec, Pending
<1>2. PICK e : e = exec[r][i] /\ e \in Exec
  BY <1>1
<1>3. PICK d : /\ exec' = [exec EXCEPT ![r][i] = d]
               /\ \/ d.pc \in Pending
                  \/ plan[r].mode = "parallel" /\ d.pc \in {"ok", "failed"}
  <2>1. CASE RayFails(r, i)
    <3>1. PICK d : d = [e EXCEPT !.pc = "local", !.age = 0, !.sends = e.sends + 1]
      OBVIOUS
    <3>2. d.pc = "local"
      BY <1>2, <3>1 DEF Exec
    <3>3. exec' = [exec EXCEPT ![r][i] = d]
      BY <1>2, <2>1, <3>1 DEF RayFails, Inv, Execs
    <3> QED BY <3>2, <3>3 DEF Pending
  <2>2. CASE BacksOff(r, i)
    <3>1. PICK d : d = [e EXCEPT !.pc = "backoff", !.tries = e.tries + 1]
      OBVIOUS
    <3>2. d.pc = "backoff"
      BY <1>2, <3>1 DEF Exec
    <3>3. exec' = [exec EXCEPT ![r][i] = d]
      BY <1>2, <2>2, <3>1 DEF BacksOff, Inv, Execs
    <3> QED BY <3>2, <3>3 DEF Pending
  <2>3. CASE Retries(r, i)
    <3>1. PICK w \in Pending : w = IF AsksRay(ray[e.agent]) THEN "ray" ELSE "local"
      BY DEF Pending
    <3>2. PICK d : d = [e EXCEPT !.pc = w, !.age = 0, !.sends = e.sends + 1]
      OBVIOUS
    <3>3. d.pc = w
      BY <1>2, <3>2 DEF Exec
    <3>4. exec' = [exec EXCEPT ![r][i] = d]
      BY <1>2, <2>3, <3>1, <3>2, Zenon DEF Retries, Attempted
    <3> QED BY <3>3, <3>4
  <2>4. CASE TimesOut(r, i)
    <3>1. PICK d : d = [e EXCEPT !.pc = "failed"]
      OBVIOUS
    <3>2. d.pc = "failed"
      BY <1>2, <3>1 DEF Exec
    <3>3. exec' = [exec EXCEPT ![r][i] = d]
      BY <1>2, <2>4, <3>1, Zenon DEF TimesOut
    <3> QED BY <2>4, <3>2, <3>3 DEF TimesOut
  <2> QED BY <2>1, <2>2, <2>3, <2>4
<1> QED BY <1>1, <1>3, OneExecMoves

\* A shape is one of the states of the executions, not of their ages.
LEMMA ShapeAgrees ==
    ASSUME NEW p, Len(p.agents) \in Nat, Len(p.agents) <= MaxSteps,
           NEW ph, NEW res, NEW cur, NEW x, Shape(p, ph, res, cur, x), NEW y,
           \A k \in Step : y[k].pc = x[k].pc /\ (x[k] = Idle => y[k] = Idle)
    PROVE  Shape(p, ph, res, cur, y)
<1>1. MaxSteps \in Nat /\ Len(res) \in Nat
  BY ShapeTyped, OrchestratorAssumption
<1>2. CASE p.mode = "parallel"
  <2>1. Together(p, ph, res, cur, x)
    BY <1>2 DEF Shape
  <2>2. Gathered(p, res, x) => Gathered(p, res, y)
    <3> SUFFICES ASSUME Gathered(p, res, x) PROVE Gathered(p, res, y)
      OBVIOUS
    <3>1. \A k \in 1 .. Len(res) : k \in Step
      BY <1>1 DEF Gathered, Step
    <3> QED BY <3>1 DEF Gathered
  <2>3. Together(p, ph, res, cur, y)
    BY <2>1, <2>2 DEF Together
  <2> QED BY <1>2, <2>3 DEF Shape
<1>3. CASE p.mode # "parallel"
  <2>1. Stepwise(p, ph, res, cur, x)
    BY <1>3 DEF Shape
  <2>2. Len(res) <= Len(p.agents) /\ \A k \in 1 .. Len(res) : k \in Step
    BY <1>1, <2>1 DEF Stepwise, Told, Step
  <2>3. Told(p, res, cur, y)
    BY <2>1, <2>2, ToldAgrees DEF Stepwise
  <2>4. ph = "running" => Len(res) + 1 \in Step
    BY <1>1, <2>1 DEF Stepwise, Step
  <2>5. Stepwise(p, ph, res, cur, y)
    BY <2>1, <2>3, <2>4 DEF Stepwise
  <2> QED BY <1>3, <2>5 DEF Shape
<1> QED BY <1>2, <1>3

\* Time passes for the calls on Ray.
LEMMA TickShape ==
    ASSUME Inv, RunsInv, Tick
    PROVE  RunsInv'
<1>1. ASSUME NEW r \in Run, NEW k \in Step
      PROVE  /\ exec'[r][k].pc = exec[r][k].pc
             /\ exec[r][k] = Idle => exec'[r][k] = Idle
  <2>1. PICK e, t : e = exec[r][k] /\ t = IF e.pc = "ray" THEN e.age + 1 ELSE 0
    OBVIOUS
  <2>2. exec'[r][k] = [e EXCEPT !.age = t]
    BY <2>1 DEF Tick
  <2>3. e \in Exec
    BY <2>1 DEF Inv, Execs, GoodExec
  <2>4. exec'[r][k].pc = e.pc
    BY <2>2, <2>3 DEF Exec
  <2>5. e = Idle => t = 0
    BY <2>1 DEF Idle
  <2>6. [Idle EXCEPT !.age = 0] = Idle
    <3>1. Idle \in Exec /\ Idle.age = 0
      BY OrchestratorAssumption DEF Idle, Exec
    <3>2. \A d \in Exec : [d EXCEPT !.age = d.age] = d
      BY DEF Exec
    <3> QED BY <3>1, <3>2
  <2> QED BY <2>1, <2>2, <2>4, <2>5, <2>6
<1>2. UNCHANGED <<plan, phase, results, current>>
  BY DEF Tick
<1>3. ASSUME NEW r \in Run
      PROVE  Shape(plan[r], phase[r], results[r], current[r], exec'[r])
  <2>1. Shape(plan[r], phase[r], results[r], current[r], exec[r])
    BY DEF RunsInv
  <2>2. Len(plan[r].agents) \in Nat /\ Len(plan[r].agents) <= MaxSteps
    BY PlanSize
  <2>3. PICK y : y = exec'[r]
    OBVIOUS
  <2>4. \A k \in Step : y[k].pc = exec[r][k].pc /\ (exec[r][k] = Idle => y[k] = Idle)
    BY <1>1, <2>3
  <2>5. Shape(plan[r], phase[r], results[r], current[r], y)
    BY <2>1, <2>2, <2>4, ShapeAgrees
  <2> QED BY <2>3, <2>5
<1>4. /\ phase' \in [Run -> Phase] /\ results' \in [Run -> Seq(Result)]
      /\ current' \in [Run -> 0 .. MaxSteps]
  BY <1>2 DEF RunsInv
<1> QED BY <1>2, <1>3, <1>4, RunsInvNext

\* New runs have told nothing.
LEMMA InitRuns == Init => RunsInv
<1> SUFFICES ASSUME Init PROVE RunsInv
  OBVIOUS
<1>1. Inv
  BY InitInv
<1>2. /\ phase \in [Run -> Phase] /\ results \in [Run -> Seq(Result)]
      /\ current \in [Run -> 0 .. MaxSteps]
  BY OrchestratorAssumption DEF Init, Phase
<1>3. ASSUME NEW r \in Run
      PROVE  Shape(plan[r], phase[r], results[r], current[r], exec[r])
  <2>1. PICK p, res, x : p = plan[r] /\ res = results[r] /\ x = exec[r]
    OBVIOUS
  <2>2. /\ phase[r] = "new" /\ res = <<>> /\ current[r] = 0
        /\ \A k \in Step : x[k] = Idle
    BY <2>1 DEF Init
  <2>3. res \in Seq(Result) /\ Len(res) = 0
    BY <2>2
  <2>4. Together(p, "new", res, 0, x)
    BY <2>2, <2>3 DEF Together, Phase
  <2>5. Fed(res, 0)
    BY <2>3 DEF Fed, LastAnswer
  <2>6. Told(p, res, 0, x)
    BY <1>1, <2>1, <2>3, <2>5, PlanSize, OrchestratorAssumption DEF Told
  <2>7. Stepwise(p, "new", res, 0, x)
    BY <2>2, <2>3, <2>6 DEF Stepwise, Phase, Unbroken
  <2>8. Shape(p, "new", res, 0, x)
    BY <2>4, <2>7 DEF Shape
  <2> QED BY <2>1, <2>2, <2>8
<1> QED BY <1>2, <1>3 DEF RunsInv

\* Every step leaves every run in one of its shapes.
LEMMA NextRuns ==
    ASSUME Inv, RunsInv, [Next]_vars
    PROVE  RunsInv'
<1>1. ASSUME NEW r \in Run, RunOf(r)
      PROVE  RunsInv'
  BY <1>1, BeginShape, BeginParallelShape, GatherShape DEF RunOf
<1>2. ASSUME NEW r \in Run, NEW i \in Step, StepOf(r, i) \/ TimesOut(r, i)
      PROVE  RunsInv'
  <2>1. CASE StartOne(r, i)
    BY <2>1, StartOneShape
  <2>2. CASE RayAnswers(r, i) \/ SendAnswers(r, i)
    <3>1. plan' = plan /\ exec[r][i].pc \in Pending
      BY <2>2 DEF RayAnswers, SendAnswers, Pending
    <3>2. PICK c : Succeeds(r, i, c)
      BY <2>2 DEF RayAnswers, SendAnswers
    <3> QED BY <3>1, <3>2, SucceedsShape
  <2>3. CASE GivesUp(r, i)
    <3>1. plan' = plan /\ exec[r][i].pc \in Pending
      BY <2>3 DEF GivesUp, Pending
    <3> QED BY <2>3, <3>1, RaisesShape DEF GivesUp
  <2>4. CASE RayFails(r, i) \/ BacksOff(r, i) \/ Retries(r, i) \/ TimesOut(r, i)
    BY <2>4, AttemptShape
  <2> QED BY <1>2, <2>1, <2>2, <2>3, <2>4 DEF StepOf
<1>3. CASE UNCHANGED vars
  <2>1. \A q \in Run : Shape(plan[q], phase[q], results[q], current[q], exec[q])
    BY DEF RunsInv
  <2>2. /\ phase' = phase /\ results' = results /\ current' = current
        /\ plan' = plan /\ exec' = exec
    BY <1>3 DEF vars
  <2>3. /\ phase' \in [Run -> Phase] /\ results' \in [Run -> Seq(Result)]
        /\ current' \in [Run -> 0 .. MaxSteps]
    BY <2>2 DEF RunsInv
  <2> QED BY <2>1, <2>2, <2>3, RunsInvNext
<1> QED BY <1>1, <1>2, <1>3, TickShape DEF Next

\* What every run has told is that of its executions, always.
THEOREM RunsTell == Spec => []RunsInv
<1>1. Inv /\ RunsInv /\ [Next]_vars => RunsInv'
  BY NextRuns
<1> QED BY InitRuns, <1>1, Invariant, PTL DEF Spec

\* What a caller gets back is one result for each step in the order of the
\* plan, up to the failure that ends the run, in every mode, whatever the
\* executions of other runs do to the circuits meanwhile (run_sequential,
\* run_parallel, run_pipeline).
THEOREM CallersGetThePlan == Spec => []ResultsFollowPlan
<1>1. Inv /\ RunsInv => ResultsFollowPlan
  <2> SUFFICES ASSUME Inv, RunsInv, NEW r \in Run, phase[r] = "returned",
                      NEW res, res = results[r]
               PROVE  /\ \A k \in DOMAIN res : /\ res[k].step = k
                                               /\ res[k].ok <=> exec[r][k].pc = "ok"
                      /\ \/ Len(res) = Len(plan[r].agents)
                         \/ plan[r].mode # "parallel" /\ ~plan[r].skip /\ ~res[Len(res)].ok
                      /\ plan[r].mode # "parallel" /\ ~plan[r].skip =>
                             \A k \in 1..Len(res) - 1 : res[k].ok
    BY DEF ResultsFollowPlan
  <2>1. PICK new : new = res
    OBVIOUS
  <2>2. Shape(plan[r], "returned", new, current[r], exec[r])
    BY <2>1 DEF RunsInv
  <2>3. DOMAIN new = 1 .. Len(new)
    BY <2>2, ShapeTyped, LenProperties
  <2>4. CASE plan[r].mode = "parallel"
    <3>1. Gathered(plan[r], new, exec[r])
      BY <2>2, <2>4 DEF Shape, Together
    <3> QED BY <2>1, <2>3, <2>4, <3>1 DEF Gathered
  <2>5. CASE plan[r].mode # "parallel"
    <3>1. Stepwise(plan[r], "returned", new, current[r], exec[r])
      BY <2>2, <2>5 DEF Shape
    <3>2. \A k \in 1 .. Len(new) : /\ new[k].step = k
                                   /\ new[k].ok <=> exec[r][k].pc = "ok"
      BY <3>1 DEF Stepwise, Told
    <3>3. /\ \/ Len(new) = Len(plan[r].agents)
             \/ ~plan[r].skip /\ ~new[Len(new)].ok
          /\ ~plan[r].skip => \A k \in 1 .. Len(new) - 1 : new[k].ok
      BY <3>1 DEF Stepwise, Unbroken
    <3> QED BY <2>1, <2>3, <2>5, <3>2, <3>3
  <2> QED BY <2>4, <2>5
<1> QED BY <1>1, Invariant, RunsTell, PTL

\* In a pipeline of any length every agent is given the output of the last
\* one that answered, whatever fails, falls back or is turned down in between
\* (current_input in run_pipeline).
THEOREM AgentsAreFed == Spec => []InputIsLastOutput
<1>1. RunsInv => InputIsLastOutput
  <2> SUFFICES ASSUME RunsInv, NEW r \in Run, plan[r].mode = "pipeline",
                      NEW k \in DOMAIN results[r]
               PROVE  LET before == {j \in 1..k-1 : results[r][j].ok}
                      IN  IF before = {} THEN results[r][k].input = 0
                          ELSE /\ results[r][k].input \in before
                               /\ \A j \in before : j <= results[r][k].input
    BY DEF InputIsLastOutput
  <2>1. Stepwise(plan[r], phase[r], results[r], current[r], exec[r])
    BY DEF RunsInv, Shape
  <2>2. Fed(results[r], current[r]) /\ DOMAIN results[r] = 1 .. Len(results[r])
    BY <2>1, LenProperties DEF Stepwise, Told
  <2>3. LastAnswer(results[r], k - 1, results[r][k].input)
    BY <2>2 DEF Fed
  <2> QED BY <2>3 DEF LastAnswer
<1> QED BY <1>1, RunsTell, PTL

-----------------------------------------------------------------------------
(* The calls that an execution makes                                       *)

\* The calls of m attempts.
Calls(m) == IF rayOn THEN 2 * m ELSE m

\* What the primary agent may have sent before its fallback.
Before(e) == IF e.fell THEN Calls(MaxRetries + 1) ELSE 0

\* An execution has made no more calls than its attempts so far.
Frugal(e) ==
    /\ e.tries <= MaxRetries
    /\ e.pc \in {"idle", "ready"} => e.sends = 0
    /\ e.pc = "ray" => rayOn /\ e.sends <= Before(e) + Calls(e.tries) + 1
    /\ e.pc = "local" => e.sends <= Before(e) + Calls(e.tries + 1)
    /\ e.pc = "backoff" => e.tries # 0 /\ e.sends <= Before(e) + Calls(e.tries)
    /\ e.sends <= Before(e) + Calls(MaxRetries + 1)

SendsInv ==
    /\ rayOn \in BOOLEAN
    /\ \A r \in Run, i \in Step : Frugal(exec[r][i])
\* The bound on the calls of attempts, in each case.
LEMMA CallsAre ==
    ASSUME rayOn \in BOOLEAN
    PROVE  \/ rayOn = TRUE /\ \A m \in Nat : Calls(m) = 2 * m
           \/ rayOn = FALSE /\ \A m \in Nat : Calls(m) = m
BY DEF Calls

\* An execution that begins, for the first time or as the fallback of one
\* that has given up.
LEMMA BeginsFrugal ==
    ASSUME rayOn \in BOOLEAN, NEW e \in Exec, Frugal(e),
           NEW a \in Agent, NEW fell \in BOOLEAN, NEW c,
           e.sends = 0 \/ (fell = TRUE /\ e.fell = FALSE)
    PROVE  Frugal(Executed(e, a, fell, c))
<1>1. PICK d : d = Executed(e, a, fell, c)
  OBVIOUS
<1>2. /\ d.pc = IF AsksRay(c) THEN "ray" ELSE "local"
      /\ d.tries = 0 /\ d.fell = fell /\ d.sends = e.sends + 1
  BY <1>1, ExecutedFields
<1>3. (d.pc = "ray" /\ rayOn) \/ d.pc = "local"
  BY <1>2 DEF AsksRay
<1>4. MaxRetries \in Nat /\ 0 + 1 \in Nat /\ MaxRetries + 1 \in Nat /\ 0 \in Nat
      /\ 0 + 1 = 1 /\ e.sends \in Nat
  BY OrchestratorAssumption DEF Exec
<1>5. /\ Calls(0) = 0 /\ 1 <= Calls(1) /\ Calls(1) <= Calls(MaxRetries + 1)
      /\ Calls(MaxRetries + 1) \in Nat /\ Calls(1) \in Nat
  <2>1. Calls(0) = 0 /\ Calls(1) = (IF rayOn THEN 2 ELSE 1)
    BY DEF Calls
  <2>2. Calls(MaxRetries + 1) = IF rayOn THEN 2 * (MaxRetries + 1) ELSE MaxRetries + 1
    BY DEF Calls
  <2> QED BY <1>4, <2>1, <2>2
<1>6. e.sends <= Before(d)
  <2>1. CASE e.sends = 0
    BY <1>5, <2>1 DEF Before
  <2>2. CASE fell = TRUE /\ e.fell = FALSE
    BY <1>2, <1>4, <1>5, <2>2 DEF Before, Frugal
  <2> QED BY <2>1, <2>2
<1>7. Before(d) \in Nat
  BY <1>5 DEF Before
<1>8. /\ d.tries <= MaxRetries /\ d.pc \notin {"idle", "ready", "backoff"}
      /\ d.pc = "ray" => rayOn /\ d.sends <= Before(d) + Calls(d.tries) + 1
      /\ d.pc = "local" => d.sends <= Before(d) + Calls(d.tries + 1)
      /\ d.sends <= Before(d) + Calls(MaxRetries + 1)
  BY <1>2, <1>3, <1>4, <1>5, <1>6, <1>7
<1>9. Frugal(d)
  BY <1>8 DEF Frugal
<1> QED BY <1>1, <1>9

\* An attempt that begins again.
LEMMA RetriesFrugal ==
    ASSUME rayOn \in BOOLEAN, NEW e \in Exec, Frugal(e), e.pc = "backoff", NEW d,
           (d.pc = "ray" /\ rayOn) \/ d.pc = "local",
           d.tries = e.tries, d.fell = e.fell, d.sends = e.sends + 1
    PROVE  Frugal(d)
<1>1. MaxRetries \in Nat /\ e.tries \in Nat /\ e.sends \in Nat /\ e.fell \in BOOLEAN
  BY OrchestratorAssumption DEF Exec
<1>2. Before(d) = Before(e)
  BY DEF Before
<1>3. Before(e) \in Nat
  BY <1>1 DEF Before, Calls
<1>4. /\ e.tries <= MaxRetries /\ e.sends <= Before(e) + Calls(e.tries)
  BY DEF Frugal
<1>5. /\ d.tries <= MaxRetries /\ d.pc \notin {"idle", "ready", "backoff"}
      /\ d.pc = "ray" => rayOn /\ d.sends <= Before(e) + Calls(e.tries) + 1
      /\ d.pc = "local" => d.sends <= Before(e) + Calls(e.tries + 1)
      /\ d.sends <= Before(e) + Calls(MaxRetries + 1)
  <2>1. CASE rayOn
    BY <1>1, <1>3, <1>4, <2>1 DEF Calls
  <2>2. CASE ~rayOn
    BY <1>1, <1>3, <1>4, <2>2 DEF Calls
  <2> QED BY <2>1, <2>2
<1> QED BY <1>2, <1>5 DEF Frugal

\* An attempt that goes on through the router, or waits for the next.
LEMMA AttemptFrugal ==
    ASSUME rayOn \in BOOLEAN, NEW e \in Exec, Frugal(e), NEW d, d.fell = e.fell,
           \/ /\ e.pc = "ray" /\ d.pc = "local"
              /\ d.tries = e.tries /\ d.sends = e.sends + 1
           \/ /\ e.pc = "local" /\ d.pc = "backoff" /\ e.tries # MaxRetries
              /\ d.tries = e.tries + 1 /\ d.sends = e.sends
    PROVE  Frugal(d)
<1>1. MaxRetries \in Nat /\ e.tries \in Nat /\ e.sends \in Nat /\ e.fell \in BOOLEAN
  BY OrchestratorAssumption DEF Exec
<1>2. Before(d) = Before(e)
  BY DEF Before
<1>3. Before(e) \in Nat
  BY <1>1 DEF Before, Calls
<1>4. /\ e.tries <= MaxRetries /\ e.sends <= Before(e) + Calls(MaxRetries + 1)
      /\ e.pc = "ray" => rayOn /\ e.sends <= Before(e) + Calls(e.tries) + 1
      /\ e.pc = "local" => e.sends <= Before(e) + Calls(e.tries + 1)
  BY DEF Frugal
<1>5. CASE /\ e.pc = "ray" /\ d.pc = "local"
           /\ d.tries = e.tries /\ d.sends = e.sends + 1
  <2>1. /\ d.sends <= Before(e) + Calls(d.tries + 1)
        /\ d.sends <= Before(e) + Calls(MaxRetries + 1)
    BY <1>1, <1>3, <1>4, <1>5 DEF Calls
  <2> QED BY <1>2, <1>4, <1>5, <2>1 DEF Frugal
<1>6. CASE /\ e.pc = "local" /\ d.pc = "backoff" /\ e.tries # MaxRetries
           /\ d.tries = e.tries + 1 /\ d.sends = e.sends
  <2>1. /\ d.tries <= MaxRetries /\ d.tries # 0
        /\ d.sends <= Before(e) + Calls(d.tries)
    BY <1>1, <1>4, <1>6
  <2> QED BY <1>2, <1>4, <1>6, <2>1 DEF Frugal
<1> QED BY <1>5, <1>6

\* One that ends, and one that time passes for.
LEMMA EndFrugal ==
    ASSUME NEW e, Frugal(e), NEW d, d.tries = e.tries, d.fell = e.fell, d.sends = e.sends,
           d.pc = e.pc \/ d.pc \in {"ok", "failed"}
    PROVE  Frugal(d)
BY DEF Frugal, Before

\* The part of a run without an await begins an execution that sent nothing.
LEMMA ProceedSends ==
    ASSUME Inv, SendsInv, NEW r \in Run,
           NEW res, NEW cur, NEW failed \in Seq(Step), NEW i, i = Len(res) + 1,
           NEW ex \in Execs, \A q \in Run, k \in Step : Frugal(ex[q][k]),
           Told(plan[r], res, cur, ex[r]),
           \A k \in Step : k > Len(res) => ex[r][k] = Idle,
           NEW bs, NEW rs, Proceed(r, i, bs, rs, ex, res, cur, failed)
    PROVE  \A q \in Run, k \in Step : Frugal(exec'[q][k])
<1>0. PICK n : n = Len(plan[r].agents)
  OBVIOUS
<1>1. /\ n \in Nat /\ n <= MaxSteps /\ MaxSteps \in Nat
      /\ res \in Seq(Result) /\ Len(res) \in Nat /\ Len(res) <= n /\ cur \in 0 .. MaxSteps
  BY <1>0, PlanSize, LenProperties DEF Told
<1>2. PICK g \in Nat : \E new, st : GoesOn(r, i, ex, res, cur, failed, g, new, st)
  BY <1>0, <1>1, ProceedTells
<1>3. \/ exec' = ex
      \/ /\ Len(res) + g < n
         /\ \E a \in Agent, fell \in BOOLEAN : \E c :
                exec' = [ex EXCEPT ![r][i + g] = Executed(ex[r][i + g], a, fell, c)]
  BY <1>0, <1>2 DEF GoesOn
<1>4. CASE exec' = ex
  BY <1>4
<1>5. CASE exec' # ex
  <2>1. PICK a \in Agent, fell \in BOOLEAN : \E c :
             exec' = [ex EXCEPT ![r][i + g] = Executed(ex[r][i + g], a, fell, c)]
    BY <1>3, <1>5
  <2>2. PICK c : exec' = [ex EXCEPT ![r][i + g] = Executed(ex[r][i + g], a, fell, c)]
    BY <2>1
  <2>3. PICK k : k = i + g
    OBVIOUS
  <2>4. k \in Step /\ k > Len(res)
    BY <1>1, <1>3, <1>5, <2>3 DEF Step
  <2>5. PICK e : e = ex[r][k] /\ e = Idle
    BY <2>4
  <2>6. e \in Exec /\ e.sends = 0 /\ Frugal(e)
    <3>1. Idle.sends = 0
      BY DEF Idle
    <3> QED BY <2>4, <2>5, <3>1 DEF Execs, GoodExec
  <2>7. PICK d : d = Executed(e, a, fell, c)
    OBVIOUS
  <2>8. Frugal(d)
    BY <2>6, <2>7, BeginsFrugal DEF SendsInv
  <2>9. exec' = [ex EXCEPT ![r][k] = d]
    BY <2>2, <2>3, <2>5, <2>7
  <2> QED BY <2>4, <2>8, <2>9 DEF Execs
<1> QED BY <1>4, <1>5

\* The invariant after a step that leaves Ray as it is.
LEMMA SendsInvNext ==
    ASSUME SendsInv, rayOn' = rayOn, \A q \in Run, k \in Step : Frugal(exec'[q][k])
    PROVE  SendsInv'
BY DEF SendsInv, Frugal, Before, Calls, Step

\* One execution moves.
LEMMA OneSends ==
    ASSUME Inv, SendsInv, rayOn' = rayOn, NEW r \in Run, NEW i \in Step, NEW d, Frugal(d),
           exec' = [exec EXCEPT ![r][i] = d]
    PROVE  SendsInv'
<1>1. \A q \in Run, k \in Step : Frugal(exec'[q][k])
  BY DEF SendsInv, Inv, Execs
<1> QED BY <1>1, SendsInvNext

\* One execution ends, by an outcome or a timeout.
LEMMA OneEndsFrugal ==
    ASSUME Inv, SendsInv, NEW r \in Run, NEW i \in Step, NEW how \in {"ok", "failed"},
           NEW ex, ex = [exec EXCEPT ![r][i].pc = how]
    PROVE  \A q \in Run, k \in Step : Frugal(ex[q][k])
<1>1. PICK e, d : e = exec[r][i] /\ d = [e EXCEPT !.pc = how]
  OBVIOUS
<1>2. e \in Exec /\ Frugal(e)
  BY <1>1 DEF Inv, Execs, GoodExec, SendsInv
<1>3. d.pc = how /\ d.tries = e.tries /\ d.fell = e.fell /\ d.sends = e.sends
  BY <1>1, <1>2 DEF Exec
<1>4. Frugal(d)
  BY <1>2, <1>3, EndFrugal
<1>5. PICK new : new = ex
  OBVIOUS
<1>6. new = [exec EXCEPT ![r][i] = d]
  BY <1>1, <1>5, Zenon
<1>7. \A q \in Run, k \in Step : Frugal(new[q][k])
  BY <1>4, <1>6 DEF SendsInv, Inv, Execs
<1> QED BY <1>5, <1>7

\* A run begins, step by step or in parallel.
LEMMA BeginSends ==
    ASSUME Inv, RunsInv, SendsInv, NEW r \in Run, Begin(r)
    PROVE  SendsInv'
<1>1. /\ rayOn' = rayOn /\ plan[r].mode # "parallel" /\ exec \in Execs
      /\ Proceed(r, 1, breaker, ray, exec, <<>>, 0, <<>>)
      /\ \A q \in Run, k \in Step : Frugal(exec[q][k])
  BY DEF Begin, Inv, SendsInv
<1>2. Stepwise(plan[r], "new", results[r], current[r], exec[r])
  BY <1>1 DEF Begin, RunsInv, Shape
<1>3. results[r] = <<>> /\ current[r] = 0
  BY <1>2 DEF Stepwise
<1>4. PICK res, cur : res = <<>> /\ cur = 0 /\ res = results[r] /\ cur = current[r]
  BY <1>3
<1>5. /\ Told(plan[r], res, cur, exec[r])
      /\ \A k \in Step : k > Len(res) => exec[r][k] = Idle
  BY <1>2, <1>4 DEF Stepwise
<1>6. PICK i, failed : i = 1 /\ failed = <<>> /\ i = Len(res) + 1 /\ failed \in Seq(Step)
  <2>1. 1 = Len(<<>>) + 1 /\ <<>> \in Seq(Step)
    OBVIOUS
  <2> QED BY <1>4, <2>1
<1>7. Proceed(r, i, breaker, ray, exec, res, cur, failed)
  BY <1>1, <1>4, <1>6
<1>8. \A q \in Run, k \in Step : Frugal(exec'[q][k])
  BY <1>1, <1>5, <1>6, <1>7, ProceedSends
<1> QED BY <1>1, <1>8, SendsInvNext

\* Tasks that gather has not started have sent nothing.
LEMMA BeginParallelSends ==
    ASSUME Inv, SendsInv, NEW r \in Run, BeginParallel(r)
    PROVE  SendsInv'
<1>1. PICK e : e = [Idle EXCEPT !.pc = "ready"]
  OBVIOUS
<1>2. /\ e.pc = "ready" /\ e.tries = 0 /\ e.fell = FALSE /\ e.sends = 0
      /\ Idle.pc = "idle" /\ Idle.tries = 0 /\ Idle.fell = FALSE /\ Idle.sends = 0
  BY <1>1 DEF Idle
<1>3. Calls(MaxRetries + 1) \in Nat /\ MaxRetries \in Nat
  BY OrchestratorAssumption DEF Calls
<1>4. Frugal(e) /\ Frugal(Idle)
  BY <1>2, <1>3 DEF Frugal, Before
<1>5. exec' = [exec EXCEPT ![r] = [i \in Step |-> IF i \in Steps(r) THEN e ELSE Idle]]
  BY <1>1 DEF BeginParallel
<1>6. \A q \in Run, k \in Step : Frugal(exec'[q][k])
  BY <1>4, <1>5 DEF SendsInv, Inv, Execs
<1> QED BY <1>6, SendsInvNext DEF BeginParallel

\* A task begins, or fails without a call.
LEMMA StartOneSends ==
    ASSUME Inv, SendsInv, NEW r \in Run, NEW i \in Step, StartOne(r, i)
    PROVE  SendsInv'
<1>1. rayOn' = rayOn /\ rayOn \in BOOLEAN
  BY DEF StartOne, SendsInv
<1>2. PICK e : e = exec[r][i] /\ e \in Exec /\ Frugal(e) /\ e.pc = "ready"
  BY DEF StartOne, SendsInv, Inv, Execs, GoodExec
<1>3. CASE exec' = [exec EXCEPT ![r][i].pc = "failed"]
  BY <1>1, <1>3, OneEndsFrugal, SendsInvNext
<1>4. CASE exec' = [exec EXCEPT ![r][i] = Executed(exec[r][i], plan[r].agents[i], FALSE,
                                                   ray[plan[r].agents[i]])]
  <2>1. PICK a \in Agent : a = plan[r].agents[i]
    BY StepAgents DEF StartOne
  <2>2. PICK fell \in BOOLEAN, c \in {ray[a]} : fell = FALSE
    OBVIOUS
  <2>3. PICK d : d = Executed(e, a, fell, c)
    OBVIOUS
  <2>4. e.sends = 0
    BY <1>2 DEF Frugal
  <2>5. Frugal(d)
    BY <1>1, <1>2, <2>3, <2>4, BeginsFrugal
  <2>6. exec' = [exec EXCEPT ![r][i] = d]
    BY <1>2, <1>4, <2>1, <2>2, <2>3
  <2> QED BY <1>1, <2>5, <2>6, OneSends
<1> QED BY <1>3, <1>4 DEF StartOne

\* An execution returns, and the next one may begin.
LEMMA SucceedsSends ==
    ASSUME Inv, RunsInv, SendsInv, rayOn' = rayOn, NEW r \in Run, NEW i \in Step,
           exec[r][i].pc \in Pending, NEW c, Succeeds(r, i, c)
    PROVE  SendsInv'
<1>1. PICK bs, rs, ex : /\ bs = [breaker EXCEPT ![exec[r][i].agent] =
                                    AfterSuccess(breaker[exec[r][i].agent])]
                        /\ rs = [ray EXCEPT ![exec[r][i].agent] = c]
                        /\ ex = [exec EXCEPT ![r][i].pc = "ok"]
  OBVIOUS
<1>2. ex \in Execs /\ \A q \in Run, k \in Step : Frugal(ex[q][k])
  BY <1>1, OneEnds, OneEndsFrugal
<1>3. CASE exec' = ex
  BY <1>2, <1>3, SendsInvNext
<1>4. CASE /\ plan[r].mode # "parallel"
           /\ Proceed(r, i + 1, bs, rs, ex,
                      Append(results[r], [step |-> i, ok |-> TRUE, input |-> current[r]]),
                      Output(r, i), <<>>)
  <2>1. PICK res, cur, ok, failed :
             /\ res = Append(results[r], [step |-> i, ok |-> ok, input |-> current[r]])
             /\ cur = Output(r, i) /\ ok = TRUE /\ failed = <<>>
    OBVIOUS
  <2>2. Proceed(r, i + 1, bs, rs, ex, res, cur, failed) /\ failed \in Seq(Step)
    BY <1>4, <2>1
  <2>3. Ends(r, i, ok, ex, res, cur)
    BY <1>1, <2>1 DEF Ends, Output
  <2>4. ok \in BOOLEAN /\ plan[r].mode # "parallel"
    BY <1>4, <2>1
  <2>5. /\ i + 1 = Len(res) + 1 /\ Told(plan[r], res, cur, ex[r])
        /\ \A k \in Step : k > Len(res) => ex[r][k] = Idle
    BY <2>3, <2>4, EndShape
  <2>6. \A q \in Run, k \in Step : Frugal(exec'[q][k])
    BY <1>2, <2>2, <2>5, ProceedSends
  <2> QED BY <2>6, SendsInvNext
<1> QED BY <1>1, <1>3, <1>4, Zenon DEF Succeeds

\* It raises, after its last attempt: the fallback or the next one may begin.
LEMMA RaisesSends ==
    ASSUME Inv, RunsInv, SendsInv, NEW r \in Run, NEW i \in Step, GivesUp(r, i)
    PROVE  SendsInv'
<1>0. /\ exec[r][i].pc \in Pending /\ rayOn' = rayOn /\ rayOn \in BOOLEAN /\ Raises(r, i)
  BY DEF GivesUp, Pending, SendsInv
<1>1. PICK bs, ex, f, res, ok, cur :
             /\ bs = [breaker EXCEPT ![exec[r][i].agent] =
                         AfterFailure(breaker[exec[r][i].agent])]
             /\ ex = [exec EXCEPT ![r][i].pc = "failed"]
             /\ f = Fallback(r, i) /\ ok = FALSE /\ cur = current[r]
             /\ res = Append(results[r], Failed(i, current[r]))
  OBVIOUS
<1>2. ex \in Execs /\ \A q \in Run, k \in Step : Frugal(ex[q][k])
  BY <1>1, OneEnds, OneEndsFrugal
<1>3. CASE exec' = ex
  BY <1>0, <1>2, <1>3, SendsInvNext
<1>4. CASE /\ ~exec[r][i].fell /\ CanFallBack(r, i, bs)
           /\ exec' = [exec EXCEPT ![r][i] = Executed(exec[r][i], f, TRUE, ray[f])]
  <2>1. f \in Agent
    BY <1>1, <1>4, OrchestratorAssumption DEF CanFallBack
  <2>2. PICK e : e = exec[r][i] /\ e \in Exec /\ Frugal(e)
    BY DEF SendsInv, Inv, Execs, GoodExec
  <2>3. PICK fell \in BOOLEAN, c \in {ray[f]} : fell = TRUE
    OBVIOUS
  <2>4. PICK d : d = Executed(e, f, fell, c)
    OBVIOUS
  <2>5. e.fell = FALSE
    BY <1>4, <2>2 DEF Exec
  <2>6. Frugal(d)
    BY <1>0, <2>1, <2>2, <2>3, <2>4, <2>5, BeginsFrugal
  <2>7. exec' = [exec EXCEPT ![r][i] = d]
    BY <1>4, <2>2, <2>3, <2>4
  <2> QED BY <1>0, <2>6, <2>7, OneSends
<1>5. CASE /\ plan[r].mode # "parallel" /\ plan[r].skip
           /\ Proceed(r, i + 1, bs, ray, ex, res, cur, LettersOf(r, i))
  <2>1. PICK failed : failed = LettersOf(r, i)
    OBVIOUS
  <2>2. failed \in Seq(Step)
    BY <2>1 DEF LettersOf
  <2>3. ok \in BOOLEAN /\ Ends(r, i, ok, ex, res, cur)
    BY <1>1 DEF Ends, Failed
  <2>4. /\ i + 1 = Len(res) + 1 /\ Told(plan[r], res, cur, ex[r])
        /\ \A k \in Step : k > Len(res) => ex[r][k] = Idle
    BY <1>0, <1>5, <2>3, EndShape
  <2>5. \A q \in Run, k \in Step : Frugal(exec'[q][k])
    BY <1>2, <1>5, <2>1, <2>2, <2>4, ProceedSends
  <2> QED BY <1>0, <2>5, SendsInvNext
<1> QED BY <1>0, <1>1, <1>3, <1>4, <1>5, Zenon DEF Raises, Leave

\* An attempt moves on, begins again, or is cancelled.
LEMMA AttemptSends ==
    ASSUME Inv, SendsInv, NEW r \in Run, NEW i \in Step,
           RayFails(r, i) \/ BacksOff(r, i) \/ Retries(r, i) \/ TimesOut(r, i)
    PROVE  SendsInv'
<1>1. rayOn' = rayOn /\ rayOn \in BOOLEAN
  BY DEF RayFails, BacksOff, Retries, TimesOut, SendsInv
<1>2. PICK e : e = exec[r][i] /\ e \in Exec /\ Frugal(e)
  BY DEF Inv, Execs, GoodExec, SendsInv
<1>3. CASE RayFails(r, i)
  <2>1. PICK d : d = [e EXCEPT !.pc = "local", !.age = 0, !.sends = e.sends + 1]
    OBVIOUS
  <2>2. /\ e.pc = "ray" /\ d.pc = "local" /\ d.tries = e.tries
        /\ d.fell = e.fell /\ d.sends = e.sends + 1
    BY <1>2, <1>3, <2>1 DEF Exec, RayFails
  <2>3. Frugal(d)
    BY <1>1, <1>2, <2>2, AttemptFrugal
  <2>4. exec' = [exec EXCEPT ![r][i] = d]
    BY <1>2, <1>3, <2>1 DEF RayFails, Inv, Execs
  <2> QED BY <1>1, <2>3, <2>4, OneSends
<1>4. CASE BacksOff(r, i)
  <2>1. PICK d : d = [e EXCEPT !.pc = "backoff", !.tries = e.tries + 1]
    OBVIOUS
  <2>2. /\ e.pc = "local" /\ d.pc = "backoff" /\ d.tries = e.tries + 1
        /\ d.fell = e.fell /\ d.sends = e.sends /\ e.tries # MaxRetries
    BY <1>2, <1>4, <2>1 DEF Exec, BacksOff, LastTry
  <2>3. Frugal(d)
    BY <1>1, <1>2, <2>2, AttemptFrugal
  <2>4. exec' = [exec EXCEPT ![r][i] = d]
    BY <1>2, <1>4, <2>1 DEF BacksOff, Inv, Execs
  <2> QED BY <1>1, <2>3, <2>4, OneSends
<1>5. CASE Retries(r, i)
  <2>1. PICK w \in Pending : w = IF AsksRay(ray[e.agent]) THEN "ray" ELSE "local"
    BY DEF Pending
  <2>2. PICK d : d = [e EXCEPT !.pc = w, !.age = 0, !.sends = e.sends + 1]
    OBVIOUS
  <2>3. /\ e.pc = "backoff" /\ d.pc = w /\ d.tries = e.tries
        /\ d.fell = e.fell /\ d.sends = e.sends + 1
    BY <1>2, <1>5, <2>2 DEF Exec, Retries
  <2>4. (d.pc = "ray" /\ rayOn) \/ d.pc = "local"
    BY <2>1, <2>3 DEF AsksRay
  <2>5. Frugal(d)
    BY <1>1, <1>2, <2>3, <2>4, RetriesFrugal
  <2>6. exec' = [exec EXCEPT ![r][i] = d]
    BY <1>2, <1>5, <2>1, <2>2, Zenon DEF Retries, Attempted
  <2> QED BY <1>1, <2>5, <2>6, OneSends
<1>6. CASE TimesOut(r, i)
  BY <1>1, <1>6, OneEndsFrugal, SendsInvNext DEF TimesOut
<1> QED BY <1>3, <1>4, <1>5, <1>6

\* Time sends nothing.
LEMMA TickSends ==
    ASSUME Inv, SendsInv, Tick
    PROVE  SendsInv'
<1>1. ASSUME NEW r \in Run, NEW k \in Step
      PROVE  Frugal(exec'[r][k])
  <2>1. PICK e, t : e = exec[r][k] /\ t = IF e.pc = "ray" THEN e.age + 1 ELSE 0
    OBVIOUS
  <2>2. PICK d : d = [e EXCEPT !.age = t] /\ d = exec'[r][k]
    BY <2>1 DEF Tick
  <2>3. e \in Exec /\ Frugal(e)
    BY <2>1 DEF Inv, Execs, GoodExec, SendsInv
  <2>4. d.pc = e.pc /\ d.tries = e.tries /\ d.fell = e.fell /\ d.sends = e.sends
    BY <2>2, <2>3 DEF Exec
  <2>5. Frugal(d)
    BY <2>3, <2>4, EndFrugal
  <2> QED BY <2>2, <2>5
<1> QED BY <1>1, SendsInvNext DEF Tick

\* At first nothing was sent.
LEMMA InitSends == Init => SendsInv
<1> SUFFICES ASSUME Init PROVE SendsInv
  OBVIOUS
<1>1. Calls(MaxRetries + 1) \in Nat /\ MaxRetries \in Nat
  BY OrchestratorAssumption DEF Calls
<1>2. /\ Idle.pc = "idle" /\ Idle.tries = 0 /\ Idle.fell = FALSE /\ Idle.sends = 0
  BY DEF Idle
<1>3. Frugal(Idle)
  BY <1>1, <1>2 DEF Frugal, Before
<1> QED BY <1>3 DEF Init, SendsInv

\* No step sends more than its attempts may.
LEMMA NextSends ==
    ASSUME Inv, RunsInv, SendsInv, [Next]_vars
    PROVE  SendsInv'
<1>1. ASSUME NEW r \in Run, RunOf(r)
      PROVE  SendsInv'
  <2>1. CASE Gather(r)
    <3>1. exec' = exec /\ rayOn' = rayOn
      BY <2>1 DEF Gather
    <3> QED BY <3>1, SendsInvNext DEF SendsInv
  <2> QED BY <1>1, <2>1, BeginSends, BeginParallelSends DEF RunOf
<1>2. ASSUME NEW r \in Run, NEW i \in Step, StepOf(r, i) \/ TimesOut(r, i)
      PROVE  SendsInv'
  <2>1. CASE StartOne(r, i)
    BY <2>1, StartOneSends
  <2>2. CASE RayAnswers(r, i) \/ SendAnswers(r, i)
    <3>1. rayOn' = rayOn /\ exec[r][i].pc \in Pending
      BY <2>2 DEF RayAnswers, SendAnswers, Pending
    <3>2. PICK c : Succeeds(r, i, c)
      BY <2>2 DEF RayAnswers, SendAnswers
    <3> QED BY <3>1, <3>2, SucceedsSends
  <2>3. CASE GivesUp(r, i)
    BY <2>3, RaisesSends
  <2>4. CASE RayFails(r, i) \/ BacksOff(r, i) \/ Retries(r, i) \/ TimesOut(r, i)
    BY <2>4, AttemptSends
  <2> QED BY <1>2, <2>1, <2>2, <2>3, <2>4 DEF StepOf
<1>3. CASE UNCHANGED vars
  BY <1>3, SendsInvNext DEF vars, SendsInv
<1> QED BY <1>1, <1>2, <1>3, TickSends DEF Next

\* No execution ever makes more calls than its attempts account for.
THEOREM SendsAreCounted == Spec => []SendsInv
<1>1. Inv /\ RunsInv /\ SendsInv /\ [Next]_vars => SendsInv'
  BY NextSends
<1> QED BY InitSends, <1>1, Invariant, RunsTell, PTL DEF Spec

\* A prompt is sent at most once for every attempt, twice with Ray, by the
\* primary agent and by its fallback, in any mode and for any number of
\* retries (execute_with_retry, _do_execute).
THEOREM PromptsAreSentSoOften == Spec => []SendsBounded
<1>1. SendsInv => SendsBounded
  <2> SUFFICES ASSUME SendsInv, NEW r \in Run, NEW i \in Step
               PROVE  exec[r][i].sends <= (MaxRetries + 1) * (IF rayOn THEN 2 ELSE 1)
                                             * (IF exec[r][i].fell THEN 2 ELSE 1)
    BY DEF SendsBounded
  <2>1. PICK e : e = exec[r][i] /\ Frugal(e)
    BY DEF SendsInv
  <2>2. e.sends <= Before(e) + Calls(MaxRetries + 1)
    BY <2>1 DEF Frugal
  <2>3. MaxRetries \in Nat
    BY OrchestratorAssumption
  <2>4. e.sends <= (MaxRetries + 1) * (IF rayOn THEN 2 ELSE 1) * (IF e.fell THEN 2 ELSE 1)
    <3>1. CASE rayOn /\ e.fell
      BY <2>2, <2>3, <3>1 DEF Before, Calls
    <3>2. CASE rayOn /\ ~e.fell
      BY <2>2, <2>3, <3>2 DEF Before, Calls
    <3>3. CASE ~rayOn /\ e.fell
      BY <2>2, <2>3, <3>3 DEF Before, Calls
    <3>4. CASE ~rayOn /\ ~e.fell
      BY <2>2, <2>3, <3>4 DEF Before, Calls
    <3> QED BY <3>1, <3>2, <3>3, <3>4
  <2> QED BY <2>1, <2>4
<1> QED BY <1>1, SendsAreCounted, PTL

-----------------------------------------------------------------------------
(* The dead letter store                                                   *)

\* LastOf keeps the end of a sequence, at most MaxLetters of it.
LEMMA LastOfType ==
    ASSUME NEW S, NEW s \in Seq(S)
    PROVE  /\ LastOf(s) \in Seq(S) /\ Len(s) \in Nat
           /\ Len(LastOf(s)) = IF Len(s) <= MaxLetters THEN Len(s) ELSE MaxLetters
           /\ \A k \in 1 .. Len(LastOf(s)) :
                  LastOf(s)[k] = s[k + (Len(s) - Len(LastOf(s)))]
<1>1. Len(s) \in Nat /\ MaxLetters \in Nat /\ 1 <= MaxLetters
  BY LenProperties, OrchestratorAssumption
<1>2. CASE Len(s) <= MaxLetters
  BY <1>1, <1>2 DEF LastOf
<1>3. CASE ~(Len(s) <= MaxLetters)
  <2>1. PICK m \in Nat : m = Len(s) - MaxLetters
    BY <1>1, <1>3
  <2>2. m + 1 \in Int /\ Len(s) \in Int /\ \A i \in m + 1 .. Len(s) : s[i] \in S
    BY <1>1, <2>1
  <2>3. PICK t : t = SubSeq(s, m + 1, Len(s))
    OBVIOUS
  <2>4. /\ t \in Seq(S) /\ Len(t) = Len(s) - (m + 1) + 1
        /\ \A i \in 1 .. Len(s) - (m + 1) + 1 : t[i] = s[(m + 1) + i - 1]
    <3>1. m + 1 <= Len(s)
      BY <1>1, <2>1
    <3> QED BY <2>2, <2>3, <3>1, SubSeqProperties
  <2>5. Len(t) = MaxLetters /\ Len(s) - Len(t) = m
    BY <1>1, <2>1, <2>4
  <2>6. \A k \in 1 .. Len(t) : t[k] = s[k + (Len(s) - Len(t))]
    BY <1>1, <2>1, <2>4, <2>5
  <2>7. LastOf(s) = t
    BY <1>1, <1>3, <2>1, <2>3 DEF LastOf
  <2> QED BY <1>1, <1>3, <2>4, <2>5, <2>6, <2>7
<1> QED BY <1>2, <1>3

\* What was dropped once would be dropped later.
LEMMA LastOfAppended ==
    ASSUME NEW S, NEW s \in Seq(S), NEW t \in Seq(S)
    PROVE  LastOf(LastOf(s) \o t) = LastOf(s \o t)
<1>1. PICK l : l = LastOf(s)
  OBVIOUS
<1>2. PICK a, b : a = l \o t /\ b = s \o t
  OBVIOUS
<1>3. /\ l \in Seq(S) /\ Len(s) \in Nat /\ Len(t) \in Nat /\ Len(l) \in Nat
      /\ MaxLetters \in Nat
      /\ Len(l) = (IF Len(s) <= MaxLetters THEN Len(s) ELSE MaxLetters)
      /\ \A k \in 1 .. Len(l) : l[k] = s[k + (Len(s) - Len(l))]
  BY <1>1, LastOfType, LenProperties, OrchestratorAssumption
<1>4. /\ a \in Seq(S) /\ Len(a) = Len(l) + Len(t)
      /\ \A i \in 1 .. Len(l) + Len(t) : a[i] = IF i <= Len(l) THEN l[i] ELSE t[i - Len(l)]
  BY <1>2, <1>3, ConcatProperties
<1>5. /\ b \in Seq(S) /\ Len(b) = Len(s) + Len(t)
      /\ \A i \in 1 .. Len(s) + Len(t) : b[i] = IF i <= Len(s) THEN s[i] ELSE t[i - Len(s)]
  BY <1>2, ConcatProperties
<1>6. PICK x, y : x = LastOf(a) /\ y = LastOf(b)
  OBVIOUS
<1>7. /\ x \in Seq(S) /\ Len(x) = (IF Len(a) <= MaxLetters THEN Len(a) ELSE MaxLetters)
      /\ \A k \in 1 .. Len(x) : x[k] = a[k + (Len(a) - Len(x))]
  BY <1>4, <1>6, LastOfType
<1>8. /\ y \in Seq(S) /\ Len(y) = (IF Len(b) <= MaxLetters THEN Len(b) ELSE MaxLetters)
      /\ \A k \in 1 .. Len(y) : y[k] = b[k + (Len(b) - Len(y))]
  BY <1>5, <1>6, LastOfType
<1>9. Len(x) = Len(y) /\ Len(x) \in Nat /\ Len(x) <= Len(a) /\ Len(y) <= Len(b)
      /\ Len(a) \in Nat /\ Len(b) \in Nat
  BY <1>3, <1>4, <1>5, <1>7, <1>8
<1>10. ASSUME NEW k \in 1 .. Len(x)
       PROVE  x[k] = y[k]
  <2>1. PICK i, j : i = k + (Len(a) - Len(x)) /\ j = k + (Len(b) - Len(x))
    OBVIOUS
  <2>6. PICK ll \in Nat, ls \in Nat, lt \in Nat, lx \in Nat :
             ll = Len(l) /\ ls = Len(s) /\ lt = Len(t) /\ lx = Len(x)
    BY <1>3, <1>9
  <2>7. ll <= ls /\ lx <= ll + lt /\ k \in Nat /\ 1 <= k /\ k <= lx
        /\ i = k + ((ll + lt) - lx) /\ j = k + ((ls + lt) - lx)
    BY <1>3, <1>4, <1>5, <1>9, <2>1, <2>6
  <2>8. 1 <= i /\ i <= ll + lt /\ i \in Nat /\ 1 <= j /\ j <= ls + lt /\ j \in Nat
        /\ j = i + (ls - ll)
    BY <2>7
  <2>2. /\ i \in 1 .. Len(l) + Len(t) /\ j \in 1 .. Len(s) + Len(t)
        /\ j = i + (Len(s) - Len(l))
    BY <2>6, <2>8
  <2>3. x[k] = a[i] /\ y[k] = b[j]
    BY <1>7, <1>8, <1>9, <2>1
  <2>4. CASE i <= Len(l)
    <3>3. i \in 1 .. Len(l) /\ j <= Len(s)
      BY <2>6, <2>7, <2>8, <2>4
    <3>1. a[i] = l[i] /\ l[i] = s[j]
      BY <1>3, <1>4, <2>2, <2>4, <3>3
    <3>2. b[j] = s[j]
      BY <1>5, <2>2, <3>3
    <3> QED BY <2>3, <3>1, <3>2
  <2>5. CASE ~(i <= Len(l))
    <3>1. a[i] = t[i - Len(l)]
      BY <1>4, <2>2, <2>5
    <3>2. ~(j <= Len(s)) /\ j - Len(s) = i - Len(l)
      BY <1>3, <2>2, <2>5
    <3>3. b[j] = t[i - Len(l)]
      BY <1>5, <2>2, <3>2
    <3> QED BY <2>3, <3>1, <3>3
  <2> QED BY <2>4, <2>5
<1>11. x = y
  BY <1>7, <1>8, <1>9, <1>10, SeqEqual
<1> QED BY <1>1, <1>2, <1>6, <1>11

\* The steps of the failures of a run that is in phase ph with results res.
Missed(ph, res) ==
    {j \in 1 .. Len(res) : ~res[j].ok} \cup (IF ph = "raised" THEN {NoStep} ELSE {})

\* s is an ascending list of steps that may end with that of an exception.
InOrder(s) ==
    \A j, k \in 1 .. Len(s) : j < k => s[j] # NoStep /\ (s[k] = NoStep \/ s[j] < s[k])

\* In log the letters of a run are in the order of its failures.
LogInOrder(log) ==
    \A j, k \in 1 .. Len(log) : j < k /\ log[j][1] = log[k][1] =>
        log[j][2] # NoStep /\ (log[k][2] = NoStep \/ log[j][2] < log[k][2])

\* log holds one letter for every failure, those of a run in their order.
Logged(log, ph, res) ==
    /\ log \in Seq(Letter) /\ LogInOrder(log)
    /\ \A r \in Run : \A s : s \in Missed(ph[r], res[r]) <=>
                                 \E k \in 1 .. Len(log) : log[k] = <<r, s>>

\* The store is the end of such a log.
LettersInv == \E log : Logged(log, phase, results) /\ letters = LastOf(log)

\* The invariant after a step, unfolded.
LEMMA LettersInvNext ==
    ASSUME NEW log, Logged(log, phase', results'), letters' = LastOf(log)
    PROVE  LettersInv'
BY DEF LettersInv, Logged, LogInOrder, Missed, LastOf, Letter, NoStep

\* st holds, in their order, the failures that run r has met in a step.
Meets(r, st, ph, res) ==
    /\ st \in Seq(0 .. MaxSteps) /\ InOrder(st)
    /\ \A s : s \in Missed(ph, res) <=>
          s \in Missed(phase[r], results[r]) \/ \E k \in 1 .. Len(st) : st[k] = s
    /\ \A s \in Missed(phase[r], results[r]) :
           \A k \in 1 .. Len(st) : s # NoStep /\ (st[k] = NoStep \/ s < st[k])

\* A run that records the failures it has met keeps the log complete.
LEMMA MeetingRecords ==
    ASSUME LettersInv, RunsInv, NEW r \in Run, NEW st, NEW ph, NEW res,
           Meets(r, st, ph, res), letters' = Recorded(r, st),
           phase' = [phase EXCEPT ![r] = ph], results' = [results EXCEPT ![r] = res]
    PROVE  LettersInv'
<1>1. PICK log : Logged(log, phase, results) /\ letters = LastOf(log)
  BY DEF LettersInv
<1>2. PICK t : t = [k \in 1 .. Len(st) |-> <<r, st[k]>>]
  OBVIOUS
<1>3. /\ st \in Seq(0 .. MaxSteps) /\ Len(st) \in Nat /\ DOMAIN st = 1 .. Len(st)
      /\ \A k \in 1 .. Len(st) : st[k] \in 0 .. MaxSteps
  BY LenProperties DEF Meets
<1>4. /\ t \in Seq(Letter) /\ Len(t) = Len(st)
      /\ \A k \in 1 .. Len(st) : t[k] = <<r, st[k]>>
  <2>1. \A k \in 1 .. Len(st) : <<r, st[k]>> \in Letter
    BY <1>3 DEF Letter
  <2>2. t \in [1 .. Len(st) -> Letter]
    BY <1>2, <2>1
  <2> QED BY <1>2, <1>3, <2>2, FunctionIsSeq
<1>5. PICK new : new = log \o t
  OBVIOUS
<1>6. log \in Seq(Letter) /\ Len(log) \in Nat /\ LogInOrder(log)
  BY <1>1, LenProperties DEF Logged
<1>7. /\ new \in Seq(Letter) /\ Len(new) = Len(log) + Len(st)
      /\ \A i \in 1 .. Len(log) + Len(st) :
             new[i] = IF i <= Len(log) THEN log[i] ELSE t[i - Len(log)]
  <2>1. /\ new \in Seq(Letter) /\ Len(new) = Len(log) + Len(t)
        /\ \A i \in 1 .. Len(log) + Len(t) :
               new[i] = IF i <= Len(log) THEN log[i] ELSE t[i - Len(log)]
    <3>1. log \in Seq(Letter) /\ t \in Seq(Letter)
      BY <1>4, <1>6
    <3> QED BY <1>5, <3>1, ConcatProperties
  <2> QED BY <1>4, <2>1
<1>8. letters' = LastOf(new)
  <2>1. letters' = LastOf(LastOf(log) \o t)
    BY <1>1, <1>2, <1>3 DEF Recorded
  <2> QED BY <1>4, <1>5, <1>6, <2>1, LastOfAppended
<1>9. /\ phase'[r] = ph /\ results'[r] = res
      /\ \A q \in Run : q # r => phase'[q] = phase[q] /\ results'[q] = results[q]
  BY DEF RunsInv
<1>10. \A i \in 1 .. Len(log) : i \in 1 .. Len(new) /\ new[i] = log[i]
  BY <1>3, <1>6, <1>7
<1>11. \A k \in 1 .. Len(st) : Len(log) + k \in 1 .. Len(new)
                               /\ new[Len(log) + k] = <<r, st[k]>>
  <2> TAKE k \in 1 .. Len(st)
  <2>1. /\ Len(log) + k \in 1 .. Len(log) + Len(st) /\ ~(Len(log) + k <= Len(log))
        /\ Len(log) + k - Len(log) = k
    BY <1>3, <1>6
  <2> QED BY <1>4, <1>7, <2>1
<1>12. \A i \in 1 .. Len(new) :
           \/ i \in 1 .. Len(log)
           \/ i - Len(log) \in 1 .. Len(st) /\ i = Len(log) + (i - Len(log))
  BY <1>3, <1>6, <1>7
<1>13. ASSUME NEW q \in Run, NEW s
       PROVE  s \in Missed(phase'[q], results'[q])
                  <=> \E i \in 1 .. Len(new) : new[i] = <<q, s>>
  <2>1. s \in Missed(phase[q], results[q]) <=> \E i \in 1 .. Len(log) : log[i] = <<q, s>>
    BY <1>1 DEF Logged
  <2>2. (\E i \in 1 .. Len(new) : new[i] = <<q, s>>)
            <=> \/ \E i \in 1 .. Len(log) : log[i] = <<q, s>>
                \/ \E k \in 1 .. Len(st) : <<r, st[k]>> = <<q, s>>
    BY <1>10, <1>11, <1>12
  <2>3. CASE q # r
    BY <1>9, <2>1, <2>2, <2>3
  <2>4. CASE q = r
    <3>1. s \in Missed(ph, res) <=>
              s \in Missed(phase[r], results[r]) \/ \E k \in 1 .. Len(st) : st[k] = s
      BY DEF Meets
    <3> QED BY <1>9, <2>1, <2>2, <2>4, <3>1
  <2> QED BY <2>3, <2>4
<1>14. ASSUME NEW i \in 1 .. Len(new), NEW j \in 1 .. Len(new), i < j,
              new[i][1] = new[j][1]
       PROVE  new[i][2] # NoStep /\ (new[j][2] = NoStep \/ new[i][2] < new[j][2])
  <2>1. CASE j \in 1 .. Len(log)
    <3>1. i \in 1 .. Len(log)
      BY <1>6, <1>14, <2>1
    <3> QED BY <1>6, <1>10, <1>14, <2>1, <3>1 DEF LogInOrder
  <2>2. CASE j \notin 1 .. Len(log)
    <3>1. PICK k \in 1 .. Len(st) : j = Len(log) + k /\ new[j] = <<r, st[k]>>
      BY <1>11, <1>12, <2>2
    <3>2. CASE i \in 1 .. Len(log)
      <4>1. log[i] \in Letter /\ new[i] = log[i]
        BY <1>6, <1>10, <3>2
      <4>2. PICK q \in Run, s \in 0 .. MaxSteps : log[i] = <<q, s>>
        BY <4>1 DEF Letter
      <4>3. q = r
        BY <1>14, <3>1, <4>1, <4>2
      <4>4. s \in Missed(phase[r], results[r])
        BY <1>1, <3>2, <4>2, <4>3 DEF Logged
      <4>5. s # NoStep /\ (st[k] = NoStep \/ s < st[k])
        BY <4>4 DEF Meets
      <4> QED BY <3>1, <4>1, <4>2, <4>5
    <3>3. CASE i \notin 1 .. Len(log)
      <4>1. PICK h \in 1 .. Len(st) : i = Len(log) + h /\ new[i] = <<r, st[h]>>
        BY <1>11, <1>12, <3>3
      <4>2. h < k
        BY <1>3, <1>6, <1>14, <3>1, <4>1
      <4>3. st[h] # NoStep /\ (st[k] = NoStep \/ st[h] < st[k])
        BY <4>2 DEF Meets, InOrder
      <4> QED BY <3>1, <4>1, <4>3
    <3> QED BY <3>2, <3>3
  <2> QED BY <2>1, <2>2
<1>15. Logged(new, phase', results')
  BY <1>7, <1>13, <1>14 DEF Logged, LogInOrder
<1> QED BY <1>8, <1>15, LettersInvNext

\* res is old and what a step adds to it; failed are the steps it adds that
\* failed, at most one.
Adds(old, res, failed) ==
    /\ old \in Seq(Result) /\ res \in Seq(Result) /\ Len(old) <= Len(res)
    /\ failed \in Seq(Step) /\ Len(failed) <= 1
    /\ \A k \in 1 .. Len(failed) : failed[k] \in Len(old) + 1 .. Len(res)
    /\ \A s : s \in 1 .. Len(res) /\ ~res[s].ok <=>
                  \/ s \in 1 .. Len(old) /\ ~old[s].ok
                  \/ \E k \in 1 .. Len(failed) : failed[k] = s

\* The letters of the part of a run without an await are those of the failure
\* before it and of the steps that are turned down.
LEMMA TurnedDownMeets ==
    ASSUME NEW r \in Run, phase[r] # "raised", NEW res, NEW failed,
           Adds(results[r], res, failed), NEW cur \in 0 .. MaxSteps, NEW g \in Nat,
           NEW new, Listed(new, res, g, cur), NEW i, i = Len(res) + 1,
           NEW st, Numbered(st, failed, i, g), Len(res) + g <= MaxSteps
    PROVE  /\ \A ph : ph # "raised" => Meets(r, st, ph, new)
           /\ Meets(r, Append(st, NoStep), "raised", new)
<1>1. PICK old, f, m, n, ls : /\ old = results[r] /\ f = Len(failed) /\ m = Len(old)
                              /\ n = Len(res) /\ ls = Len(st)
  OBVIOUS
<1>2. /\ f \in Nat /\ m \in Nat /\ n \in Nat /\ MaxSteps \in Nat /\ m <= n /\ f <= 1
      /\ n + g <= MaxSteps /\ i = n + 1
      /\ new \in Seq(Result) /\ Len(new) = n + g
      /\ st \in Seq(0 .. MaxSteps) /\ ls = f + g /\ ls \in Nat
  BY <1>1, LenProperties, OrchestratorAssumption DEF Adds, Listed, Numbered
<1>3. /\ \A k \in 1 .. f : failed[k] \in m + 1 .. n /\ st[k] = failed[k]
      /\ \A k \in f + 1 .. f + g : st[k] = n + (k - f)
      /\ \A s : s \in 1 .. n /\ ~res[s].ok <=>
                    \/ s \in 1 .. m /\ ~old[s].ok
                    \/ \E k \in 1 .. f : failed[k] = s
  <2>1. /\ \A k \in 1 .. f : failed[k] \in m + 1 .. n
        /\ \A s : s \in 1 .. n /\ ~res[s].ok <=>
                      \/ s \in 1 .. m /\ ~old[s].ok
                      \/ \E k \in 1 .. f : failed[k] = s
    BY <1>1, Zenon DEF Adds
  <2>2. \A k \in 1 .. f : st[k] = failed[k]
    BY <1>1 DEF Numbered
  <2>3. ASSUME NEW k \in f + 1 .. f + g PROVE st[k] = n + (k - f)
    <3>1. st[k] = i + (k - f) - 1
      BY <1>1 DEF Numbered
    <3> QED BY <1>2, <3>1
  <2> QED BY <2>1, <2>2, <2>3
<1>4. /\ \A j \in 1 .. n : new[j] = res[j]
      /\ \A j \in n + 1 .. n + g : ~new[j].ok
  <2>1. \A j \in 1 .. n : new[j] = res[j]
    BY <1>1 DEF Listed
  <2>2. ASSUME NEW j \in n + 1 .. n + g PROVE ~new[j].ok
    <3>1. j \in Step
      BY <1>2 DEF Step
    <3>2. new[j] = Failed(j, cur)
      BY <1>1 DEF Listed
    <3> QED BY <3>1, <3>2, FailedIsResult
  <2> QED BY <2>1, <2>2
<1>5. \A s : s \in Missed(phase[r], results[r]) <=> s \in 1 .. m /\ ~old[s].ok
  BY <1>1 DEF Missed
<1>6. ASSUME NEW s
      PROVE  (s \in 1 .. Len(new) /\ ~new[s].ok) <=>
                 \/ s \in Missed(phase[r], results[r])
                 \/ \E k \in 1 .. ls : st[k] = s
  <2>1. (s \in 1 .. Len(new) /\ ~new[s].ok) <=>
            \/ s \in 1 .. n /\ ~res[s].ok
            \/ s \in n + 1 .. n + g
    BY <1>2, <1>4
  <2>2. (\E k \in 1 .. ls : st[k] = s) <=>
            \/ \E k \in 1 .. f : failed[k] = s
            \/ s \in n + 1 .. n + g
    <3>1. \A k \in 1 .. ls : k \in 1 .. f \/ k \in f + 1 .. f + g
      BY <1>2
    <3>2. \A k \in 1 .. f : k \in 1 .. ls
      BY <1>2
    <3>3. s \in n + 1 .. n + g => s - n + f \in f + 1 .. f + g /\ s - n + f \in 1 .. ls
                                  /\ n + ((s - n + f) - f) = s
      BY <1>2
    <3>4. \A k \in f + 1 .. f + g : n + (k - f) \in n + 1 .. n + g
      BY <1>2
    <3> QED BY <1>3, <3>1, <3>2, <3>3, <3>4
  <2> QED BY <1>3, <1>5, <2>1, <2>2
<1>7. \A k \in 1 .. ls : st[k] \in m + 1 .. n + g
  <2> TAKE k \in 1 .. ls
  <2>1. CASE k \in 1 .. f
    <3>1. st[k] = failed[k] /\ failed[k] \in m + 1 .. n
      BY <1>3, <2>1
    <3> QED BY <1>2, <3>1
  <2>2. CASE k \notin 1 .. f
    <3>1. k \in f + 1 .. f + g
      BY <1>2, <2>2
    <3>2. st[k] = n + (k - f)
      BY <1>3, <3>1
    <3> QED BY <1>2, <3>1, <3>2
  <2> QED BY <2>1, <2>2
<1>8. \A j, k \in 1 .. ls : j < k => st[j] < st[k]
  <2> TAKE j, k \in 1 .. ls
  <2> HAVE j < k
  <2>1. k \in f + 1 .. f + g /\ st[k] = n + (k - f)
    BY <1>2, <1>3
  <2>2. CASE j \in 1 .. f
    <3>1. st[j] \in m + 1 .. n
      BY <1>3, <2>2
    <3>2. \A x \in m + 1 .. n : x < n + (k - f)
      BY <1>2, <2>1
    <3> QED BY <2>1, <3>1, <3>2
  <2>3. CASE j \notin 1 .. f
    <3>1. j \in f + 1 .. f + g
      BY <1>2, <2>3
    <3>2. st[j] = n + (j - f)
      BY <1>3, <3>1
    <3> QED BY <1>2, <2>1, <3>1, <3>2
  <2> QED BY <2>2, <2>3
<1>9. \A s \in Missed(phase[r], results[r]) : s \in Nat /\ s # NoStep /\ s <= m
  BY <1>2, <1>5 DEF NoStep
<1>10. ASSUME NEW ph, ph # "raised" PROVE Meets(r, st, ph, new)
  <2>1. \A s : s \in Missed(ph, new) <=> s \in 1 .. Len(new) /\ ~new[s].ok
    BY <1>10 DEF Missed
  <2>2. InOrder(st)
    <3>1. \A k \in 1 .. ls : st[k] # NoStep
      <4>1. \A x \in m + 1 .. n + g : x # NoStep
        BY <1>2 DEF NoStep
      <4> QED BY <1>7, <4>1
    <3> QED BY <1>1, <1>8, <3>1 DEF InOrder
  <2>3. ASSUME NEW s \in Missed(phase[r], results[r]), NEW k \in 1 .. ls
        PROVE  s # NoStep /\ s < st[k]
    <3>1. s \in Nat /\ s # NoStep /\ s <= m /\ st[k] \in m + 1 .. n + g
      BY <1>7, <1>9
    <3> QED BY <1>2, <3>1
  <2> QED BY <1>1, <1>2, <1>6, <2>1, <2>2, <2>3 DEF Meets
<1>11. Meets(r, Append(st, NoStep), "raised", new)
  <2>1. PICK sn : sn = Append(st, NoStep)
    OBVIOUS
  <2>2. NoStep \in 0 .. MaxSteps
    BY <1>2 DEF NoStep
  <2>3. /\ sn \in Seq(0 .. MaxSteps) /\ Len(sn) = ls + 1 /\ sn[ls + 1] = NoStep
        /\ \A k \in 1 .. ls : sn[k] = st[k]
    <3>1. st \in Seq(0 .. MaxSteps)
      BY <1>2
    <3> QED BY <1>1, <2>1, <2>2, <3>1, AppendProperties
  <2>4. \A k \in 1 .. ls + 1 : k \in 1 .. ls \/ k = ls + 1
    BY <1>2
  <2>5. \A s : s \in Missed("raised", new) <=>
                   (s \in 1 .. Len(new) /\ ~new[s].ok) \/ s = NoStep
    BY DEF Missed
  <2>6. ASSUME NEW s
        PROVE  (\E k \in 1 .. ls + 1 : sn[k] = s) <=>
                   (\E k \in 1 .. ls : st[k] = s) \/ s = NoStep
    <3>1. ls + 1 \in 1 .. ls + 1 /\ \A k \in 1 .. ls : k \in 1 .. ls + 1
      BY <1>2
    <3> QED BY <2>3, <2>4, <3>1
  <2>7. ASSUME NEW j \in 1 .. ls + 1, NEW k \in 1 .. ls + 1, j < k
        PROVE  sn[j] # NoStep /\ (sn[k] = NoStep \/ sn[j] < sn[k])
    <3>1. j \in 1 .. ls
      BY <1>2, <2>7
    <3>2. sn[j] = st[j] /\ st[j] \in m + 1 .. n + g
      BY <1>7, <2>3, <3>1
    <3>3. sn[j] # NoStep
      BY <1>2, <3>2 DEF NoStep
    <3>4. k \in 1 .. ls => sn[j] < sn[k]
      BY <1>8, <2>3, <2>7, <3>1
    <3> QED BY <2>3, <2>4, <3>3, <3>4
  <2>8. ASSUME NEW s \in Missed(phase[r], results[r]), NEW k \in 1 .. ls + 1
        PROVE  s # NoStep /\ (sn[k] = NoStep \/ s < sn[k])
    <3>1. CASE k \in 1 .. ls
      <4>1. s \in Nat /\ s # NoStep /\ s <= m /\ st[k] \in m + 1 .. n + g
        BY <1>7, <1>9, <3>1
      <4> QED BY <1>2, <2>3, <3>1, <4>1
    <3>2. CASE k = ls + 1
      BY <1>9, <2>3, <3>2
    <3> QED BY <2>4, <3>1, <3>2
  <2>9. InOrder(sn)
    BY <2>3, <2>7 DEF InOrder
  <2>10. Meets(r, sn, "raised", new)
    BY <1>6, <2>3, <2>5, <2>6, <2>8, <2>9 DEF Meets
  <2> QED BY <2>1, <2>10
<1> QED BY <1>10, <1>11

\* So the part of a run without an await keeps the log complete.
LEMMA ProceedLetters ==
    ASSUME Inv, RunsInv, LettersInv, NEW r \in Run, phase[r] # "raised",
           NEW res, NEW cur \in 0 .. MaxSteps, NEW failed,
           Adds(results[r], res, failed), Len(res) <= Len(plan[r].agents),
           NEW i, i = Len(res) + 1, NEW bs, NEW rs, NEW ex,
           Proceed(r, i, bs, rs, ex, res, cur, failed)
    PROVE  LettersInv'
<1>1. res \in Seq(Result) /\ failed \in Seq(Step)
  BY DEF Adds
<1>2. PICK g \in Nat : \E new, st : GoesOn(r, i, ex, res, cur, failed, g, new, st)
  BY <1>1, ProceedTells
<1>3. PICK new, st : GoesOn(r, i, ex, res, cur, failed, g, new, st)
  BY <1>2
<1>4. /\ Listed(new, res, g, cur) /\ Numbered(st, failed, i, g)
      /\ Len(res) + g <= Len(plan[r].agents)
      /\ results' = [results EXCEPT ![r] = new]
      /\ \/ /\ phase' = [phase EXCEPT ![r] = "raised"]
            /\ letters' = Recorded(r, Append(st, NoStep))
         \/ /\ phase' = [phase EXCEPT ![r] = "running"]
            /\ letters' = Recorded(r, st)
         \/ /\ phase' = [phase EXCEPT ![r] = "returned"]
            /\ letters' = Recorded(r, st)
  BY <1>3 DEF GoesOn
<1>5. Len(res) + g <= MaxSteps
  BY <1>1, <1>4, PlanSize, LenProperties
<1>6. /\ \A ph : ph # "raised" => Meets(r, st, ph, new)
      /\ Meets(r, Append(st, NoStep), "raised", new)
  BY <1>4, <1>5, TurnedDownMeets
<1>7. Meets(r, st, "running", new) /\ Meets(r, st, "returned", new)
  BY <1>6
<1> QED BY <1>4, <1>6, <1>7, MeetingRecords

\* q lists m members of s, ascending.
Lists(q, m, s) ==
    q \in [1 .. m -> s] /\ \A j, k \in 1 .. m : j < k => q[j] < q[k]

\* The members of a set of steps can be listed.
LEMMA ListExists ==
    ASSUME NEW n \in Nat, NEW s \in SUBSET (1 .. n)
    PROVE  IsFiniteSet(s) /\ \E q : Lists(q, Cardinality(s), s)
<1> DEFINE Listable == {m \in Nat : \A t \in SUBSET (1 .. m) :
                            IsFiniteSet(t) /\ \E q : Lists(q, Cardinality(t), t)}
<1>1. 0 \in Listable
  <2>1. \A t \in SUBSET (1 .. 0) : t = {}
    OBVIOUS
  <2>2. IsFiniteSet({}) /\ Cardinality({}) = 0
    BY FS_EmptySet
  <2>3. Lists([k \in 1 .. 0 |-> k], 0, {})
    BY DEF Lists
  <2> QED BY <2>1, <2>2, <2>3
<1>2. ASSUME NEW m \in Nat, m \in Listable PROVE m + 1 \in Listable
  <2>1. ASSUME NEW t \in SUBSET (1 .. m + 1)
        PROVE  IsFiniteSet(t) /\ \E q : Lists(q, Cardinality(t), t)
    <3>1. PICK u : u = t \ {m + 1}
      OBVIOUS
    <3>2. u \in SUBSET (1 .. m)
      BY <3>1
    <3>3. IsFiniteSet(u) /\ \E q : Lists(q, Cardinality(u), u)
      BY <1>2, <3>2
    <3>4. PICK q : Lists(q, Cardinality(u), u)
      BY <3>3
    <3>5. CASE m + 1 \notin t
      BY <3>1, <3>3, <3>5
    <3>6. CASE m + 1 \in t
      <4>1. t = u \cup {m + 1} /\ m + 1 \notin u
        BY <3>1, <3>6
      <4>2. /\ IsFiniteSet(t) /\ Cardinality(t) = Cardinality(u) + 1
            /\ Cardinality(u) \in Nat
        BY <3>3, <4>1, FS_AddElement, FS_CardinalityType
      <4>3. PICK c \in Nat : c = Cardinality(u)
        BY <4>2
      <4>4. q \in [1 .. c -> u] /\ \A j, k \in 1 .. c : j < k => q[j] < q[k]
        BY <3>4, <4>3 DEF Lists
      <4>5. PICK p : p = [k \in 1 .. c + 1 |-> IF k = c + 1 THEN m + 1 ELSE q[k]]
        OBVIOUS
      <4>6. \A k \in 1 .. c + 1 : k = c + 1 \/ k \in 1 .. c
        OBVIOUS
      <4>7. /\ \A k \in 1 .. c : p[k] = q[k] /\ q[k] \in u
            /\ p[c + 1] = m + 1
        BY <4>4, <4>5
      <4>8. p \in [1 .. c + 1 -> t]
        BY <4>1, <4>4, <4>5, <4>6
      <4>9. ASSUME NEW j \in 1 .. c + 1, NEW k \in 1 .. c + 1, j < k
            PROVE  p[j] < p[k]
        <5>1. j \in 1 .. c
          BY <4>9
        <5>2. p[j] = q[j] /\ q[j] \in 1 .. m
          BY <3>2, <4>7, <5>1
        <5>3. CASE k = c + 1
          BY <4>7, <5>2, <5>3
        <5>4. CASE k \in 1 .. c
          BY <4>4, <4>7, <4>9, <5>1, <5>4
        <5> QED BY <4>6, <5>3, <5>4
      <4>10. Lists(p, c + 1, t)
        BY <4>8, <4>9 DEF Lists
      <4> QED BY <4>2, <4>3, <4>10
    <3> QED BY <3>5, <3>6
  <2> QED BY <2>1
<1> HIDE DEF Listable
<1>3. Nat \subseteq Listable
  BY <1>1, <1>2, Induct
<1> QED BY <1>3 DEF Listable

\* Ascending does that, and leaves none out.
LEMMA AscendingLists ==
    ASSUME NEW n \in Nat, NEW s \in SUBSET (1 .. n)
    PROVE  /\ Ascending(s) \in Seq(s)
           /\ \A j, k \in 1 .. Len(Ascending(s)) :
                  j < k => Ascending(s)[j] < Ascending(s)[k]
           /\ \A x : x \in s <=> \E k \in 1 .. Len(Ascending(s)) : Ascending(s)[k] = x
<1>1. IsFiniteSet(s) /\ \E q : Lists(q, Cardinality(s), s)
  BY ListExists
<1>2. PICK m \in Nat : m = Cardinality(s)
  BY <1>1, FS_CardinalityType
<1>3. \E q \in [1 .. m -> s] : \A j, k \in 1 .. m : j < k => q[j] < q[k]
  BY <1>1, <1>2 DEF Lists
<1>4. PICK q : q = Ascending(s)
  OBVIOUS
<1>5. q \in [1 .. m -> s] /\ \A j, k \in 1 .. m : j < k => q[j] < q[k]
  <2>1. q = CHOOSE f \in [1 .. m -> s] : \A j, k \in 1 .. m : j < k => f[j] < f[k]
    BY <1>2, <1>4 DEF Ascending
  <2> QED BY <1>3, <2>1
<1>6. q \in Seq(s) /\ Len(q) = m
  BY <1>5, FunctionIsSeq
<1>7. q \in Injection(1 .. m, s)
  <2>1. ASSUME NEW j \in 1 .. m, NEW k \in 1 .. m, q[j] = q[k] PROVE j = k
    <3>1. q[j] \in 1 .. n
      BY <1>5
    <3>2. ~(q[j] < q[k]) /\ ~(q[k] < q[j])
      BY <2>1, <3>1
    <3>3. ~(j < k) /\ ~(k < j)
      BY <1>5, <3>2
    <3> QED BY <3>3
  <2> QED BY <1>5, <2>1 DEF Injection, IsInjective
<1>8. Cardinality(1 .. m) = m
  BY FS_Interval
<1>9. q \in Surjection(1 .. m, s)
  BY <1>1, <1>2, <1>7, <1>8, FS_Injection
<1>10. \A x \in s : \E k \in 1 .. m : q[k] = x
  BY <1>9 DEF Surjection
<1> QED BY <1>4, <1>5, <1>6, <1>10

\* A step in which no run meets a failure leaves the store alone.
LEMMA NoFailureMet ==
    ASSUME LettersInv, letters' = letters,
           \A q \in Run : Missed(phase'[q], results'[q]) = Missed(phase[q], results[q])
    PROVE  LettersInv'
<1>1. PICK log : Logged(log, phase, results) /\ letters = LastOf(log)
  BY DEF LettersInv
<1>2. Logged(log, phase', results')
  BY <1>1 DEF Logged
<1> QED BY <1>1, <1>2, LettersInvNext

\* A run begins.
LEMMA BeginLetters ==
    ASSUME Inv, RunsInv, LettersInv, NEW r \in Run, Begin(r)
    PROVE  LettersInv'
<1>1. /\ plan[r].mode # "parallel" /\ phase[r] = "new"
      /\ Proceed(r, 1, breaker, ray, exec, <<>>, 0, <<>>)
  BY DEF Begin
<1>2. results[r] = <<>>
  BY <1>1 DEF RunsInv, Shape, Stepwise
<1>3. PICK res, cur, i, failed : res = <<>> /\ cur = 0 /\ i = 1 /\ failed = <<>>
  OBVIOUS
<1>4. Len(res) = 0 /\ res \in Seq(Result) /\ Len(failed) = 0 /\ failed \in Seq(Step)
      /\ results[r] = res
  BY <1>2, <1>3
<1>5. Adds(results[r], res, failed)
  BY <1>4 DEF Adds
<1>6. Proceed(r, i, breaker, ray, exec, res, cur, failed)
  BY <1>1, <1>3
<1>7. i = Len(res) + 1 /\ cur \in 0 .. MaxSteps /\ Len(res) <= Len(plan[r].agents)
  BY <1>3, <1>4, PlanSize, OrchestratorAssumption
<1>8. phase[r] # "raised"
  BY <1>1
<1> QED BY <1>5, <1>6, <1>7, <1>8, ProceedLetters

\* gather waits for its tasks: no failure yet.
LEMMA BeginParallelLetters ==
    ASSUME Inv, RunsInv, LettersInv, NEW r \in Run, BeginParallel(r)
    PROVE  LettersInv'
<1>1. /\ phase[r] = "new" /\ phase' = [phase EXCEPT ![r] = "running"]
      /\ results' = results /\ letters' = letters
  BY DEF BeginParallel
<1>2. ASSUME NEW q \in Run
      PROVE  Missed(phase'[q], results'[q]) = Missed(phase[q], results[q])
  <2>1. phase'[q] = phase[q] \/ (phase[q] = "new" /\ phase'[q] = "running")
    BY <1>1 DEF RunsInv
  <2> QED BY <1>1, <2>1 DEF Missed
<1> QED BY <1>1, <1>2, NoFailureMet

\* It records those of its tasks that failed.
LEMMA GatherLetters ==
    ASSUME Inv, RunsInv, LettersInv, NEW r \in Run, Gather(r)
    PROVE  LettersInv'
<1> DEFINE lost == {i \in Steps(r) : exec[r][i].pc = "failed"}
<1>1. PICK res, st : res = Outcomes(r) /\ st = Ascending(lost)
  OBVIOUS
<1>2. /\ plan[r].mode = "parallel" /\ phase[r] = "running"
      /\ phase' = [phase EXCEPT ![r] = "returned"]
      /\ results' = [results EXCEPT ![r] = res] /\ letters' = Recorded(r, st)
      /\ \A i \in Steps(r) : exec[r][i].pc \in {"ok", "failed"}
  BY <1>1, Zenon DEF Gather, Leave, Ended
<1>3. PICK n \in Nat : n = Len(plan[r].agents) /\ Steps(r) = 1 .. n /\ n <= MaxSteps
  BY PlanSize
<1>4. results[r] = <<>>
  BY <1>2 DEF RunsInv, Shape, Together
<1>5. Missed(phase[r], results[r]) = {}
  <2>1. Len(<<>>) = 0
    OBVIOUS
  <2> QED BY <1>2, <1>4, <2>1 DEF Missed
<1>6. Len(res) = n /\ \A i \in 1 .. n : res[i].ok <=> exec[r][i].pc = "ok"
  <2>1. \A i \in 1 .. n : res[i] = [step |-> i, ok |-> exec[r][i].pc = "ok", input |-> 0]
    BY <1>1, <1>3 DEF Outcomes
  <2>2. DOMAIN res = 1 .. n
    BY <1>1, <1>3 DEF Outcomes
  <2>3. res = [i \in 1 .. n |-> res[i]]
    BY <1>1, <1>3 DEF Outcomes
  <2>4. PICK S : S = {res[i] : i \in 1 .. n}
    OBVIOUS
  <2>5. res \in [1 .. n -> S]
    BY <2>2, <2>3, <2>4
  <2>6. Len(res) = n
    BY <2>5, FunctionIsSeq
  <2>7. ASSUME NEW i \in 1 .. n PROVE res[i].ok <=> exec[r][i].pc = "ok"
    <3>1. CASE exec[r][i].pc = "ok"
      <4>1. res[i] = [step |-> i, ok |-> TRUE, input |-> 0]
        BY <2>1, <3>1
      <4> QED BY <3>1, <4>1
    <3>2. CASE exec[r][i].pc # "ok"
      <4>1. res[i] = [step |-> i, ok |-> FALSE, input |-> 0]
        BY <2>1, <3>2
      <4> QED BY <3>2, <4>1
    <3> QED BY <3>1, <3>2
  <2> QED BY <2>6, <2>7
<1>7. \A s : s \in Missed("returned", res) <=> s \in lost
  BY <1>2, <1>3, <1>6 DEF Missed
<1>8. lost \in SUBSET (1 .. n)
  BY <1>3
<1> HIDE DEF lost
<1>9. /\ st \in Seq(lost)
      /\ \A j, k \in 1 .. Len(st) : j < k => st[j] < st[k]
      /\ \A s : s \in lost <=> \E k \in 1 .. Len(st) : st[k] = s
  BY <1>1, <1>8, AscendingLists
<1>10. st \in Seq(0 .. MaxSteps)
  <2>1. lost \subseteq 0 .. MaxSteps
    BY <1>3, <1>8, OrchestratorAssumption
  <2> QED BY <1>9, <2>1, SeqMonotonic
<1>11. InOrder(st)
  <2>1. \A k \in 1 .. Len(st) : st[k] # NoStep
    BY <1>8, <1>9 DEF NoStep
  <2> QED BY <1>9, <2>1 DEF InOrder
<1>12. Meets(r, st, "returned", res)
  BY <1>5, <1>7, <1>9, <1>10, <1>11 DEF Meets
<1> QED BY <1>2, <1>12, MeetingRecords

\* The result of a step adds it, and its failure if it is one.
LEMMA EndAdds ==
    ASSUME Inv, RunsInv, NEW r \in Run, NEW i \in Step,
           exec[r][i].pc \in Pending, plan[r].mode # "parallel",
           NEW ok \in BOOLEAN, NEW res,
           res = Append(results[r], [step |-> i, ok |-> ok, input |-> current[r]]),
           NEW failed, ok => failed = <<>>, ~ok => failed = <<i>>
    PROVE  /\ phase[r] # "raised" /\ Adds(results[r], res, failed)
           /\ i + 1 = Len(res) + 1 /\ Len(res) <= Len(plan[r].agents)
<1>1. PICK old : old = results[r]
  OBVIOUS
<1>2. phase[r] = "running" /\ i = Len(old) + 1 /\ i <= Len(plan[r].agents)
  BY <1>1, UnderWay
<1>3. old \in Seq(Result) /\ Len(old) \in Nat /\ current[r] \in 0 .. MaxSteps
  BY <1>1, LenProperties DEF RunsInv
<1>4. Extended(res, old, i, ok, current[r])
  BY <1>1, <1>2, <1>3, ExtendedBy
<1>5. /\ res \in Seq(Result) /\ Len(res) = i /\ res[i].ok = ok
      /\ \A k \in 1 .. Len(old) : res[k] = old[k]
  BY <1>4 DEF Extended
<1>6. /\ failed \in Seq(Step) /\ Len(failed) <= 1
      /\ \A k \in 1 .. Len(failed) : ~ok /\ failed[k] = i
      /\ ~ok => \E k \in 1 .. Len(failed) : failed[k] = i
  <2>1. CASE ok
    <3>1. failed = <<>>
      BY <2>1
    <3> QED BY <2>1, <3>1
  <2>2. CASE ~ok
    <3>1. failed = <<i>>
      BY <2>2
    <3>2. Len(failed) = 1 /\ failed[1] = i /\ failed \in Seq(Step)
      BY <3>1
    <3> QED BY <2>2, <3>2
  <2> QED BY <2>1, <2>2
<1>7. \A s : s \in 1 .. Len(res) <=> s \in 1 .. Len(old) \/ s = i
  BY <1>2, <1>3, <1>5
<1>8. i \notin 1 .. Len(old) /\ i \in Len(old) + 1 .. Len(res) /\ Len(old) <= Len(res)
  BY <1>2, <1>3, <1>5
<1>9. Adds(old, res, failed)
  BY <1>3, <1>5, <1>6, <1>7, <1>8 DEF Adds
<1> QED BY <1>1, <1>2, <1>5, <1>9

\* The execution of a step returns.
LEMMA SucceedsLetters ==
    ASSUME Inv, RunsInv, LettersInv, NEW r \in Run, NEW i \in Step,
           exec[r][i].pc \in Pending, NEW c, Succeeds(r, i, c)
    PROVE  LettersInv'
<1>1. PICK bs, rs, ex : /\ bs = [breaker EXCEPT ![exec[r][i].agent] =
                                    AfterSuccess(breaker[exec[r][i].agent])]
                        /\ rs = [ray EXCEPT ![exec[r][i].agent] = c]
                        /\ ex = [exec EXCEPT ![r][i].pc = "ok"]
  OBVIOUS
<1>2. CASE UNCHANGED <<phase, results, letters>>
  BY <1>2, NoFailureMet
<1>3. CASE /\ plan[r].mode # "parallel"
           /\ Proceed(r, i + 1, bs, rs, ex,
                      Append(results[r], [step |-> i, ok |-> TRUE, input |-> current[r]]),
                      Output(r, i), <<>>)
  <2>1. PICK res, cur, ok, failed, j :
             /\ res = Append(results[r], [step |-> i, ok |-> ok, input |-> current[r]])
             /\ cur = Output(r, i) /\ ok = TRUE /\ failed = <<>> /\ j = i + 1
    OBVIOUS
  <2>2. Proceed(r, j, bs, rs, ex, res, cur, failed)
    BY <1>3, <2>1
  <2>3. /\ phase[r] # "raised" /\ Adds(results[r], res, failed)
        /\ i + 1 = Len(res) + 1 /\ Len(res) <= Len(plan[r].agents)
    <3>1. ok \in BOOLEAN /\ (ok => failed = <<>>) /\ (~ok => failed = <<i>>)
      BY <2>1
    <3> QED BY <1>3, <2>1, <3>1, EndAdds
  <2>4. cur \in 0 .. MaxSteps
    <3>1. current[r] \in 0 .. MaxSteps /\ i \in 0 .. MaxSteps
      BY OrchestratorAssumption DEF RunsInv, Step
    <3> QED BY <2>1, <3>1 DEF Output
  <2>5. j = Len(res) + 1
    BY <2>1, <2>3
  <2> QED BY <2>2, <2>3, <2>4, <2>5, ProceedLetters
<1> QED BY <1>1, <1>2, <1>3, Zenon DEF Succeeds

\* It raises.
LEMMA RaisesLetters ==
    ASSUME Inv, RunsInv, LettersInv, NEW r \in Run, NEW i \in Step,
           exec[r][i].pc \in Pending, Raises(r, i)
    PROVE  LettersInv'
<1>1. PICK bs, ex, res, ok, cur, failed, j :
             /\ bs = [breaker EXCEPT ![exec[r][i].agent] =
                         AfterFailure(breaker[exec[r][i].agent])]
             /\ ex = [exec EXCEPT ![r][i].pc = "failed"] /\ ok = FALSE
             /\ cur = current[r] /\ failed = LettersOf(r, i) /\ j = i + 1
             /\ res = Append(results[r], Failed(i, current[r]))
  OBVIOUS
<1>2. CASE UNCHANGED <<phase, results, letters>>
  BY <1>2, NoFailureMet
<1>3. ASSUME plan[r].mode # "parallel"
      PROVE  /\ phase[r] # "raised" /\ Adds(results[r], res, failed)
             /\ j = Len(res) + 1 /\ Len(res) <= Len(plan[r].agents)
             /\ res \in Seq(Result) /\ failed = <<i>>
  <2>1. ok \in BOOLEAN /\ (ok => failed = <<>>) /\ (~ok => failed = <<i>>)
        /\ failed = <<i>>
    BY <1>1 DEF LettersOf
  <2>2. res = Append(results[r], [step |-> i, ok |-> ok, input |-> current[r]])
    BY <1>1 DEF Failed
  <2>3. /\ phase[r] # "raised" /\ Adds(results[r], res, failed)
        /\ i + 1 = Len(res) + 1 /\ Len(res) <= Len(plan[r].agents)
    BY <1>3, <2>1, <2>2, EndAdds
  <2> QED BY <1>1, <2>1, <2>3 DEF Adds
<1>4. cur \in 0 .. MaxSteps
  BY <1>1 DEF RunsInv
<1>5. CASE /\ plan[r].mode # "parallel"
           /\ Proceed(r, j, bs, ray, ex, res, cur, failed)
  BY <1>3, <1>4, <1>5, ProceedLetters
<1>6. CASE /\ plan[r].mode # "parallel"
           /\ phase' = [phase EXCEPT ![r] = "returned"]
           /\ results' = [results EXCEPT ![r] = res]
           /\ letters' = Recorded(r, failed)
  <2>1. PICK g \in Nat, new \in {res}, st \in {failed} : g = 0 /\ new = res /\ st = failed
    OBVIOUS
  <2>2. Listed(new, res, g, cur)
    BY <1>3, <1>6, <2>1, LenProperties DEF Listed
  <2>3. Numbered(st, failed, j, g)
    <3>1. failed \in Seq(0 .. MaxSteps) /\ Len(failed) = 1
      <4>1. i \in 0 .. MaxSteps /\ failed = <<i>>
        BY <1>3, <1>6, OrchestratorAssumption DEF Step
      <4> QED BY <4>1
    <3>2. \A k \in Len(failed) + 1 .. Len(failed) + g : FALSE
      BY <2>1, <3>1
    <3> QED BY <2>1, <3>1, <3>2 DEF Numbered
  <2>4. Len(res) + g <= MaxSteps
    BY <1>3, <1>6, <2>1, PlanSize, LenProperties
  <2>5. \A ph : ph # "raised" => Meets(r, st, ph, new)
    BY <1>3, <1>4, <1>6, <2>2, <2>3, <2>4, TurnedDownMeets
  <2>6. Meets(r, failed, "returned", res)
    BY <2>1, <2>5
  <2> QED BY <1>6, <2>6, MeetingRecords
<1> QED BY <1>1, <1>2, <1>5, <1>6, Zenon DEF Raises, Leave
\* Every step keeps the log complete.
LEMMA NextLetters ==
    ASSUME Inv, RunsInv, LettersInv, [Next]_vars
    PROVE  LettersInv'
<1>1. ASSUME NEW r \in Run, RunOf(r)
      PROVE  LettersInv'
  BY <1>1, BeginLetters, BeginParallelLetters, GatherLetters DEF RunOf
<1>2. ASSUME NEW r \in Run, NEW i \in Step, StepOf(r, i) \/ TimesOut(r, i)
      PROVE  LettersInv'
  <2>1. CASE StartOne(r, i)
    <3>1. UNCHANGED <<phase, results, letters>>
      BY <2>1 DEF StartOne
    <3> QED BY <3>1, NoFailureMet
  <2>2. CASE RayAnswers(r, i) \/ SendAnswers(r, i)
    <3>1. exec[r][i].pc \in Pending
      BY <2>2 DEF RayAnswers, SendAnswers, Pending
    <3>2. PICK c : Succeeds(r, i, c)
      BY <2>2 DEF RayAnswers, SendAnswers
    <3> QED BY <3>1, <3>2, SucceedsLetters
  <2>3. CASE GivesUp(r, i)
    <3>1. exec[r][i].pc \in Pending
      BY <2>3 DEF GivesUp, Pending
    <3> QED BY <2>3, <3>1, RaisesLetters DEF GivesUp
  <2>4. CASE RayFails(r, i) \/ BacksOff(r, i) \/ Retries(r, i) \/ TimesOut(r, i)
    <3>1. UNCHANGED <<phase, results, letters>>
      BY <2>4 DEF RayFails, BacksOff, Retries, TimesOut
    <3> QED BY <3>1, NoFailureMet
  <2> QED BY <1>2, <2>1, <2>2, <2>3, <2>4 DEF StepOf
<1>3. CASE UNCHANGED <<phase, results, letters>>
  BY <1>3, NoFailureMet
<1>4. Tick \/ UNCHANGED vars => UNCHANGED <<phase, results, letters>>
  BY DEF Tick, vars
<1> QED BY <1>1, <1>2, <1>3, <1>4 DEF Next

\* At first nothing has failed, and the log is empty.
LEMMA InitLetters == Init => LettersInv
<1> SUFFICES ASSUME Init PROVE LettersInv
  OBVIOUS
<1>1. PICK log : log = <<>>
  OBVIOUS
<1>2. Len(log) = 0 /\ log \in Seq(Letter)
  BY <1>1
<1>3. letters = LastOf(log)
  BY <1>1, <1>2, OrchestratorAssumption DEF Init, LastOf
<1>4. ASSUME NEW r \in Run PROVE Missed(phase[r], results[r]) = {}
  <2>1. phase[r] = "new" /\ results[r] = log
    BY <1>1 DEF Init
  <2> QED BY <1>2, <2>1 DEF Missed
<1>5. Logged(log, phase, results)
  BY <1>2, <1>4 DEF Logged, LogInOrder
<1> QED BY <1>3, <1>5 DEF LettersInv

\* The dead letter store is the end of a log of all failures, always.
THEOREM LettersAreLogged == Spec => []LettersInv
<1>1. Inv /\ RunsInv /\ LettersInv /\ [Next]_vars => LettersInv'
  BY NextLetters
<1> QED BY InitLetters, <1>1, Invariant, RunsTell, PTL DEF Spec

\* The steps of the results of a run are their places.
LEMMA ResultsNumbered ==
    ASSUME RunsInv, NEW r \in Run, NEW k \in 1 .. Len(results[r])
    PROVE  results[r][k].step = k /\ results[r] \in Seq(Result)
<1>1. PICK p, ph, res, cur, x : /\ p = plan[r] /\ ph = phase[r] /\ res = results[r]
                                /\ cur = current[r] /\ x = exec[r]
  OBVIOUS
<1>2. Shape(p, ph, res, cur, x) /\ res \in Seq(Result) /\ k \in 1 .. Len(res)
  BY <1>1 DEF RunsInv
<1>3. CASE p.mode = "parallel"
  <2>1. ph # "returned" => FALSE
    <3>1. ph # "returned" => res = <<>>
      BY <1>2, <1>3 DEF Shape, Together
    <3>2. Len(<<>>) = 0
      OBVIOUS
    <3> QED BY <1>2, <3>1, <3>2
  <2> QED BY <1>1, <1>2, <1>3, <2>1 DEF Shape, Together, Gathered
<1>4. CASE p.mode # "parallel"
  BY <1>1, <1>2, <1>4 DEF Shape, Stepwise, Told
<1> QED BY <1>3, <1>4

\* The failures of a run are told by their steps.
LEMMA FailuresAre ==
    ASSUME RunsInv, NEW r \in Run, NEW y
    PROVE  y \in Failures(r) <=> \E s \in Missed(phase[r], results[r]) : y = <<r, s>>
<1>1. PICK res : res = results[r]
  OBVIOUS
<1>2. res \in Seq(Result) /\ DOMAIN res = 1 .. Len(res)
  <2>1. res \in Seq(Result)
    BY <1>1 DEF RunsInv
  <2> QED BY <2>1
<1>3. \A k \in 1 .. Len(res) : res[k].step = k
  BY <1>1, ResultsNumbered
<1>4. PICK bad : bad = {j \in 1 .. Len(res) : ~res[j].ok}
  OBVIOUS
<1>5. {<<r, x.step>> : x \in {res[k] : k \in bad}} = {<<r, j>> : j \in bad}
  <2>1. \A j \in bad : res[j].step = j
    BY <1>3, <1>4
  <2> QED BY <2>1
<1>6. PICK raised : raised = IF phase[r] = "raised" THEN {NoStep} ELSE {}
  OBVIOUS
<1>7. Failures(r) = {<<r, j>> : j \in bad} \cup {<<r, j>> : j \in raised}
  <2>1. Failures(r) = {<<r, x.step>> : x \in {res[k] : k \in bad}}
                          \cup (IF phase[r] = "raised" THEN {<<r, NoStep>>} ELSE {})
    BY <1>1, <1>2, <1>4, Zenon DEF Failures
  <2>2. (IF phase[r] = "raised" THEN {<<r, NoStep>>} ELSE {}) = {<<r, j>> : j \in raised}
    BY <1>6
  <2> QED BY <1>5, <2>1, <2>2
<1>8. Missed(phase[r], results[r]) = bad \cup raised
  BY <1>1, <1>4, <1>6, Zenon DEF Missed
<1> QED BY <1>7, <1>8

\* The log holds every failure, and each of them once.
LEMMA LogIsExact ==
    ASSUME RunsInv, NEW log, Logged(log, phase, results)
    PROVE  /\ log \in Bijection(1 .. Len(log), UNION {Failures(r) : r \in Run})
           /\ Len(log) \in Nat
<1>1. PICK all : all = UNION {Failures(r) : r \in Run}
  OBVIOUS
<1>2. /\ log \in Seq(Letter) /\ Len(log) \in Nat /\ LogInOrder(log)
      /\ \A k \in 1 .. Len(log) : log[k] \in Letter
  BY LenProperties DEF Logged
<1>3. ASSUME NEW k \in 1 .. Len(log) PROVE log[k] \in all
  <2>1. PICK r \in Run, s \in 0 .. MaxSteps : log[k] = <<r, s>>
    BY <1>2 DEF Letter
  <2>2. s \in Missed(phase[r], results[r])
    BY <2>1 DEF Logged
  <2>3. log[k] \in Failures(r)
    BY <2>1, <2>2, FailuresAre
  <2> QED BY <1>1, <2>3
<1>4. ASSUME NEW y \in all PROVE \E k \in 1 .. Len(log) : log[k] = y
  <2>1. PICK r \in Run : y \in Failures(r)
    BY <1>1
  <2>2. PICK s \in Missed(phase[r], results[r]) : y = <<r, s>>
    BY <2>1, FailuresAre
  <2> QED BY <2>2 DEF Logged
<1>5. ASSUME NEW j \in 1 .. Len(log), NEW k \in 1 .. Len(log), log[j] = log[k]
      PROVE  j = k
  <2>1. ASSUME NEW a \in 1 .. Len(log), NEW b \in 1 .. Len(log), a < b
        PROVE  log[a] # log[b]
    <3>1. PICK r \in Run, s \in 0 .. MaxSteps : log[a] = <<r, s>>
      BY <1>2 DEF Letter
    <3>2. log[a] = log[b] => s # NoStep /\ (s = NoStep \/ s < s)
      BY <1>2, <2>1, <3>1 DEF LogInOrder
    <3> QED BY <3>2
  <2> QED BY <1>2, <1>5, <2>1
<1>6. log \in [1 .. Len(log) -> all]
  <2>1. log = [k \in 1 .. Len(log) |-> log[k]]
    BY <1>2
  <2> QED BY <1>3, <2>1
<1>7. log \in Bijection(1 .. Len(log), all)
  BY <1>4, <1>5, <1>6 DEF Bijection, Injection, Surjection, IsInjective
<1> QED BY <1>1, <1>2, <1>7

\* The dead letter store holds one letter for every failure of every run, in
\* the order in which the run met them, up to its size, and keeps the last of
\* each run, whatever the modes, the fallbacks and the interleaving of the runs
\* (DeadLetterStore, run_sequential, run_parallel, run_pipeline).
THEOREM LettersTellFailures == Spec => []LettersMatchErrors
<1>1. ASSUME RunsInv, LettersInv
      PROVE  LettersMatchErrors
  <2>1. PICK log : Logged(log, phase, results) /\ letters = LastOf(log)
    BY <1>1 DEF LettersInv
  <2>2. PICK all : all = UNION {Failures(r) : r \in Run}
    OBVIOUS
  <2>3. log \in Bijection(1 .. Len(log), all) /\ Len(log) \in Nat
    BY <1>1, <2>1, <2>2, LogIsExact
  <2>4. Cardinality(all) = Len(log)
    <3>1. ExistsBijection(1 .. Len(log), all)
      BY <2>3 DEF ExistsBijection
    <3> QED BY <2>3, <3>1, FS_CountingElements
  <2>5. log \in Seq(Letter) /\ LogInOrder(log)
    BY <2>1 DEF Logged
  <2>6. PICK d : d = Len(log) - Len(letters)
    OBVIOUS
  <2>7. /\ Len(letters) = IF Len(log) <= MaxLetters THEN Len(log) ELSE MaxLetters
        /\ \A k \in 1 .. Len(letters) : letters[k] = log[k + d]
        /\ letters \in Seq(Letter)
    BY <2>1, <2>5, <2>6, LastOfType
  <2>8. /\ MaxLetters \in Nat /\ DOMAIN letters = 1 .. Len(letters)
        /\ Len(letters) \in Nat /\ d \in Nat
        /\ \A k \in 1 .. Len(letters) : k + d \in 1 .. Len(log)
    <3>1. MaxLetters \in Nat /\ DOMAIN letters = 1 .. Len(letters)
      BY <2>7, OrchestratorAssumption
    <3>2. Len(letters) \in Nat /\ d \in Nat /\ Len(letters) + d = Len(log)
      BY <2>3, <2>6, <2>7, <3>1
    <3> QED BY <2>3, <3>1, <3>2
  <2>9. \A k \in DOMAIN letters : letters[k] \in all
    <3>1. \A k \in 1 .. Len(log) : log[k] \in all
      BY <2>3 DEF Bijection, Injection
    <3> QED BY <2>7, <2>8, <3>1
  <2>10. Len(letters) = IF Cardinality(all) < MaxLetters THEN Cardinality(all)
                                                         ELSE MaxLetters
    BY <2>3, <2>4, <2>7, <2>8
  <2>11. ASSUME NEW j \in DOMAIN letters, NEW k \in DOMAIN letters,
                j < k, letters[j][1] = letters[k][1]
         PROVE  letters[k][2] = NoStep \/ letters[j][2] < letters[k][2]
    <3>1. /\ j + d \in 1 .. Len(log) /\ k + d \in 1 .. Len(log) /\ j + d < k + d
          /\ letters[j] = log[j + d] /\ letters[k] = log[k + d]
      <4>1. j \in 1 .. Len(letters) /\ k \in 1 .. Len(letters)
        BY <2>8
      <4>2. letters[j] = log[j + d] /\ letters[k] = log[k + d]
        BY <2>7, <4>1
      <4>3. j \in Nat /\ k \in Nat /\ j + d < k + d
        BY <2>8, <2>11, <4>1
      <4> QED BY <2>8, <4>1, <4>2, <4>3
    <3> QED BY <2>5, <2>11, <3>1 DEF LogInOrder
  <2>12. ASSUME NEW k \in DOMAIN letters, NEW f \in all, Precedes(letters[k], f)
         PROVE  \E j \in DOMAIN letters : letters[j] = f
    <3>1. PICK i \in 1 .. Len(log) : log[i] = f
      BY <2>3 DEF Bijection, Surjection
    <3>2. k \in 1 .. Len(letters) /\ letters[k] = log[k + d] /\ k + d \in 1 .. Len(log)
      BY <2>7, <2>8
    <3>3. f[1] \in Run /\ f[2] \in Nat /\ log[k + d][2] \in Nat
      BY <2>5, <3>1, <3>2, OrchestratorAssumption DEF Letter
    <3>4. i # k + d
      BY <2>12, <3>1, <3>2, <3>3 DEF Precedes, NoStep
    <3>5. ~(i < k + d)
      BY <2>5, <2>12, <3>1, <3>2, <3>3 DEF LogInOrder, Precedes, NoStep
    <3>6. PICK j : j = i - d
      OBVIOUS
    <3>7. j \in 1 .. Len(letters) /\ j + d = i
      BY <2>3, <2>6, <2>8, <3>1, <3>2, <3>4, <3>5, <3>6
    <3> QED BY <2>7, <2>8, <3>1, <3>7
  <2> QED BY <2>2, <2>9, <2>10, <2>11, <2>12 DEF LettersMatchErrors
<1> QED BY <1>1, RunsTell, LettersAreLogged, PTL

\* Every variable keeps its type, for any agents, runs, plans and limits: no
\* run has more results than steps, and the store never more than
\* max_entries letters (DeadLetterStore, a deque of that length).
THEOREM TypeCorrect == Spec => []TypeOK
<1>1. ASSUME Inv, RunsInv, SendsInv, LettersInv
      PROVE  TypeOK
  <2>1. plan \in [Run -> Plan] /\ rayOn \in BOOLEAN
    BY <1>1 DEF Inv, SendsInv
  <2>2. /\ phase \in [Run -> {"new", "running", "returned", "raised"}]
        /\ results \in [Run -> Seq(Result)] /\ current \in [Run -> 0 .. MaxSteps]
    BY <1>1 DEF RunsInv, Phase
  <2>3. exec \in [Run -> [Step -> Exec]]
    BY <1>1 DEF Inv, Execs, GoodExec
  <2>4. letters \in Seq(Letter) /\ Len(letters) <= MaxLetters
    <3>1. PICK log : Logged(log, phase, results) /\ letters = LastOf(log)
      BY <1>1 DEF LettersInv
    <3>2. log \in Seq(Letter)
      BY <3>1 DEF Logged
    <3>3. letters \in Seq(Letter) /\ Len(log) \in Nat
          /\ Len(letters) = IF Len(log) <= MaxLetters THEN Len(log) ELSE MaxLetters
      BY <3>1, <3>2, LastOfType
    <3> QED BY <3>3, OrchestratorAssumption
  <2>5. breaker \in [Agent -> AgentCircuit] /\ ray \in [Agent -> RayCircuit]
    BY <1>1 DEF Inv, GoodBreaker, GoodRay
  <2> QED BY <2>1, <2>2, <2>3, <2>4, <2>5 DEF TypeOK
<1> QED BY <1>1, Invariant, RunsTell, SendsAreCounted, LettersAreLogged, PTL
=============================================================================
