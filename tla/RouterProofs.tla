---------------------------- MODULE RouterProofs ----------------------------
(***************************************************************************)
(* Theorems about the router, for every set of providers, tasks and        *)
(* requests and every setting of the breaker: what each operation of the   *)
(* breaker preserves, the invariant of the router and what follows from    *)
(* it, the gate that the breaker implements, and what the router keeps     *)
(* count of.                                                               *)
(***************************************************************************)
EXTENDS Router, FiniteSetTheorems, FunctionTheorems, SequenceTheorems, TLAPS

-----------------------------------------------------------------------------
(* The breaker                                                             *)

\* A circuit whose parts agree: a closed one has fewer recent failures than
\* the threshold, an open one knows when it failed, only a half-open one holds
\* probe slots, at least one and at most half_open_max_calls.
GoodCircuit(c) ==
    /\ c \in Circuit
    /\ IsFiniteSet(c.failures)
    /\ c.state = "closed" => Cardinality(Recent(c)) < Threshold
    /\ c.state = "open" => c.last # Never
    /\ c.state = "half_open" => c.calls >= 1
    /\ c.state # "half_open" => c.calls = 0
    /\ c.calls <= HalfOpenMax

\* A provider's first circuit is good.
LEMMA FreshGood == GoodCircuit(FreshCircuit)
<1>1. Recent(FreshCircuit) = {}
  BY DEF Recent, FreshCircuit
<1>2. Cardinality({}) = 0 /\ IsFiniteSet({})
  BY FS_EmptySet
<1>3. QED
  BY <1>1, <1>2, BreakerAssumption
     DEF GoodCircuit, FreshCircuit, Circuit, CircuitState, Never

\* Cleaning leaves the recent failures, which are finitely many if all were.
LEMMA CleanedFailures ==
  ASSUME NEW c \in Circuit, IsFiniteSet(c.failures)
  PROVE  /\ CleanOldFailures(c) \in Circuit
         /\ IsFiniteSet(CleanOldFailures(c).failures)
         /\ CleanOldFailures(c).failures = Recent(c)
         /\ Recent(CleanOldFailures(c)) = Recent(c)
         /\ CleanOldFailures(c).state = c.state
         /\ CleanOldFailures(c).calls = c.calls
         /\ CleanOldFailures(c).last = c.last
         /\ Cardinality(Recent(c)) \in Nat
<1>1. Recent(c) \in SUBSET c.failures
  BY DEF Recent
<1>2. IsFiniteSet(Recent(c)) /\ Cardinality(Recent(c)) \in Nat
  BY <1>1, FS_Subset, FS_CardinalityType
<1>3. QED
  BY <1>1, <1>2 DEF CleanOldFailures, Recent, Circuit

\* The three transitions, field by field.
LEMMA Transitions ==
  ASSUME NEW c \in Circuit
  PROVE  /\ ToOpen(c) = [state |-> "open", failures |-> c.failures,
                         last |-> c.last, calls |-> 0]
         /\ ToHalfOpen(c) = [state |-> "half_open", failures |-> c.failures,
                             last |-> c.last, calls |-> 0]
         /\ ToClosed(c) = [state |-> "closed", failures |-> {},
                           last |-> c.last, calls |-> 0]
<1> DEFINE opened == [c EXCEPT !.state = "open"]
           halved == [c EXCEPT !.state = "half_open"]
           closed == [c EXCEPT !.state = "closed"]
           emptied == [closed EXCEPT !.failures = {}]
<1>1. opened = [state |-> "open", failures |-> c.failures,
                last |-> c.last, calls |-> c.calls]
  BY DEF Circuit
<1>2. halved = [state |-> "half_open", failures |-> c.failures,
                last |-> c.last, calls |-> c.calls]
  BY DEF Circuit
<1>3. closed = [state |-> "closed", failures |-> c.failures,
                last |-> c.last, calls |-> c.calls]
  BY DEF Circuit
<1>4. ToOpen(c) = [opened EXCEPT !.calls = 0]
  BY DEF ToOpen
<1>5. ToHalfOpen(c) = [halved EXCEPT !.calls = 0]
  BY DEF ToHalfOpen
<1>6. ToClosed(c) = [emptied EXCEPT !.calls = 0]
  BY DEF ToClosed
<1> HIDE DEF opened, halved, closed
<1>7. emptied = [state |-> "closed", failures |-> {},
                 last |-> c.last, calls |-> c.calls]
  BY <1>3
<1> HIDE DEF emptied
<1>8. QED
  BY <1>1, <1>2, <1>4, <1>5, <1>6, <1>7

\* can_execute's True answer keeps the circuit good.
LEMMA AdmittedGood ==
  ASSUME NEW c, GoodCircuit(c), CanExecute(c)
  PROVE  GoodCircuit(Admitted(c))
<1>1. CASE c.state = "closed"
  BY <1>1 DEF Admitted
<1>2. CASE c.state = "open"
  <2>1. Admitted(c) = [ToHalfOpen(c) EXCEPT !.calls = 1]
    BY <1>2 DEF Admitted
  <2>2. ToHalfOpen(c) = [state |-> "half_open", failures |-> c.failures,
                         last |-> c.last, calls |-> 0]
    BY Transitions DEF GoodCircuit
  <2>3. Admitted(c) = [state |-> "half_open", failures |-> c.failures,
                       last |-> c.last, calls |-> 1]
    BY <2>1, <2>2
  <2>4. QED
    BY <2>3, BreakerAssumption DEF GoodCircuit, Circuit, CircuitState
<1>3. CASE c.state = "half_open"
  BY <1>3, BreakerAssumption
     DEF Admitted, CanExecute, GoodCircuit, Circuit, CircuitState
<1>4. QED
  BY <1>1, <1>2, <1>3 DEF GoodCircuit, Circuit, CircuitState

\* record_success keeps the circuit good.
LEMMA AfterSuccessGood ==
  ASSUME NEW c, GoodCircuit(c)
  PROVE  GoodCircuit(AfterSuccess(c))
<1>1. CASE c.state = "closed"
  <2>1. AfterSuccess(c) = CleanOldFailures(c)
    BY <1>1 DEF AfterSuccess
  <2>2. QED
    BY <1>1, <2>1, CleanedFailures DEF GoodCircuit
<1>2. CASE c.state = "open"
  BY <1>2 DEF AfterSuccess
<1>3. CASE c.state = "half_open"
  <2>1. Recent(ToClosed(c)) = {}
    BY DEF Recent, ToClosed, GoodCircuit, Circuit
  <2>2. Cardinality({}) = 0 /\ IsFiniteSet({})
    BY FS_EmptySet
  <2>3. AfterSuccess(c) = ToClosed(c)
    BY <1>3 DEF AfterSuccess
  <2>4. ToClosed(c) = [state |-> "closed", failures |-> {},
                       last |-> c.last, calls |-> 0]
    BY Transitions DEF GoodCircuit
  <2>5. QED
    BY <2>1, <2>2, <2>3, <2>4, BreakerAssumption
       DEF GoodCircuit, Circuit, CircuitState
<1>4. QED
  BY <1>1, <1>2, <1>3 DEF GoodCircuit, Circuit, CircuitState

\* One more failure: the circuit remembers it and when it happened.
LEMMA WithFailureType ==
  ASSUME NEW c \in Circuit, IsFiniteSet(c.failures)
  PROVE  /\ WithFailure(c) \in Circuit
         /\ IsFiniteSet(WithFailure(c).failures)
         /\ WithFailure(c).last = 0
         /\ WithFailure(c).state = c.state
         /\ WithFailure(c).calls = c.calls
<1> DEFINE now == {f \in c.failures : f[1] = 0}
           k   == Cardinality(now)
<1>1. k \in Nat
  <2>1. now \in SUBSET c.failures
    OBVIOUS
  <2>2. QED
    BY <2>1, FS_Subset, FS_CardinalityType
<1>2. IsFiniteSet(c.failures \cup {<<0, k>>})
  BY FS_AddElement
<1>3. <<0, k>> \in FailureEntry
  BY <1>1, BreakerAssumption DEF FailureEntry
<1> HIDE DEF k
<1>4. WithFailure(c) = [c EXCEPT !.failures = c.failures \cup {<<0, k>>},
                                 !.last = 0]
  BY Zenon DEF WithFailure, k
<1> DEFINE more == c.failures \cup {<<0, k>>}
<1>5. WithFailure(c) = [state |-> c.state, failures |-> more,
                        last |-> 0, calls |-> c.calls]
  BY <1>4 DEF Circuit
<1>6. more \in SUBSET FailureEntry
  BY <1>3 DEF Circuit
<1>7. IsFiniteSet(more)
  BY <1>2
<1> HIDE DEF more
<1>8. QED
  BY <1>5, <1>6, <1>7, BreakerAssumption DEF Circuit, Never

\* record_failure keeps the circuit good and never leaves it half-open; an
\* open one it leaves has to rest for the whole recovery_timeout again.
LEMMA AfterFailureGood ==
  ASSUME NEW c, GoodCircuit(c)
  PROVE  /\ GoodCircuit(AfterFailure(c))
         /\ AfterFailure(c).state \in {"closed", "open"}
         /\ AfterFailure(c).state = "open" => AfterFailure(c).last = 0
         /\ c.state # "closed" => AfterFailure(c).state = "open"
<1> DEFINE failed == WithFailure(c)
           cleaned == CleanOldFailures(failed)
<1>1. /\ failed \in Circuit /\ IsFiniteSet(failed.failures)
      /\ failed.last = 0 /\ failed.state = c.state /\ failed.calls = c.calls
  BY WithFailureType DEF GoodCircuit
<1>2. /\ cleaned \in Circuit /\ IsFiniteSet(cleaned.failures)
      /\ cleaned.failures = Recent(failed)
      /\ Recent(cleaned) = Recent(failed)
      /\ cleaned.state = c.state /\ cleaned.calls = c.calls /\ cleaned.last = 0
      /\ Cardinality(Recent(failed)) \in Nat
  BY <1>1, CleanedFailures
<1> HIDE DEF failed, cleaned
<1>3. CASE c.state = "closed" /\ Cardinality(cleaned.failures) >= Threshold
  <2>1. AfterFailure(c) = ToOpen(cleaned)
    BY <1>3 DEF AfterFailure, failed, cleaned
  <2>2. ToOpen(cleaned) = [state |-> "open", failures |-> cleaned.failures,
                           last |-> 0, calls |-> 0]
    BY <1>2, Transitions
  <2>3. QED
    BY <1>2, <1>3, <2>1, <2>2, BreakerAssumption
       DEF GoodCircuit, Circuit, CircuitState, Never
<1>4. CASE c.state = "closed" /\ ~(Cardinality(cleaned.failures) >= Threshold)
  <2>1. AfterFailure(c) = cleaned
    BY <1>4 DEF AfterFailure, failed, cleaned
  <2>2. QED
    BY <1>2, <1>4, <2>1, BreakerAssumption DEF GoodCircuit
<1>5. CASE c.state = "half_open"
  <2>1. AfterFailure(c) = ToOpen(failed)
    BY <1>5 DEF AfterFailure, failed
  <2>2. ToOpen(failed) = [state |-> "open", failures |-> failed.failures,
                          last |-> 0, calls |-> 0]
    BY <1>1, Transitions
  <2>3. QED
    BY <1>1, <1>5, <2>1, <2>2, BreakerAssumption
       DEF GoodCircuit, Circuit, CircuitState, Never
<1>6. CASE c.state = "open"
  <2>1. AfterFailure(c) = failed
    BY <1>6 DEF AfterFailure, failed
  <2>2. QED
    BY <1>1, <1>6, <2>1, BreakerAssumption DEF GoodCircuit, Never
<1>7. QED
  BY <1>3, <1>4, <1>5, <1>6 DEF GoodCircuit, Circuit, CircuitState

\* Growing older adds no recent failure.
LEMMA AgedRecent ==
  ASSUME NEW c \in Circuit, IsFiniteSet(c.failures)
  PROVE  /\ IsFiniteSet(Aged(c).failures)
         /\ Cardinality(Recent(Aged(c))) <= Cardinality(Recent(c))
<1> DEFINE Older2(f) == <<Older(f[1], Window), f[2]>>
           all  == [f \in c.failures |-> Older2(f)]
           aged == {Older2(f) : f \in c.failures}
           kept == {f \in Recent(c) : Older2(f)[1] < Window}
           part == [f \in kept |-> Older2(f)]
<1>0. Aged(c).failures = aged
  BY DEF Aged, Circuit
<1>1. all \in Surjection(c.failures, aged)
  BY DEF Surjection
<1>2. IsFiniteSet(aged)
  BY <1>1, FS_Surjection
<1>3. Recent(Aged(c)) = {g \in aged : g[1] < Window}
  BY <1>0 DEF Recent
<1>4. part \in Surjection(kept, Recent(Aged(c)))
  <2>1. \A f \in c.failures : f[1] \in 0..Window /\ f[1] \in Int
    BY BreakerAssumption DEF Circuit, FailureEntry
  <2>2. \A f \in kept : Older2(f) \in Recent(Aged(c))
    BY <1>3 DEF Recent
  <2>3. \A g \in Recent(Aged(c)) : \E f \in kept : g = Older2(f)
    <3> SUFFICES ASSUME NEW g \in Recent(Aged(c))
                 PROVE  \E f \in kept : g = Older2(f)
      OBVIOUS
    <3>1. PICK f \in c.failures : g = Older2(f)
      BY <1>3
    <3>2. Older(f[1], Window) < Window
      BY <1>3, <3>1
    <3>3. f[1] < Window
      BY <2>1, <3>2, BreakerAssumption DEF Older
    <3>4. QED
      BY <3>1, <3>2, <3>3 DEF Recent
  <2>4. QED
    BY <2>2, <2>3 DEF Surjection
<1>5. kept \in SUBSET c.failures /\ kept \in SUBSET Recent(c)
  BY DEF Recent
<1>6. IsFiniteSet(Recent(c)) /\ IsFiniteSet(kept)
  <2>1. Recent(c) \in SUBSET c.failures
    BY DEF Recent
  <2>2. QED
    BY <1>5, <2>1, FS_Subset
<1>7. /\ Cardinality(Recent(Aged(c))) <= Cardinality(kept)
      /\ IsFiniteSet(Recent(Aged(c)))
  BY <1>4, <1>6, FS_Surjection
<1>8. Cardinality(kept) <= Cardinality(Recent(c))
  BY <1>5, <1>6, FS_Subset
<1>9. /\ Cardinality(kept) \in Nat
      /\ Cardinality(Recent(c)) \in Nat
      /\ Cardinality(Recent(Aged(c))) \in Nat
  BY <1>6, <1>7, FS_CardinalityType
<1> HIDE DEF kept, aged
<1>10. QED
  BY <1>0, <1>2, <1>7, <1>8, <1>9

\* A tick keeps the circuit good and changes neither its state nor its slots.
LEMMA AgedGood ==
  ASSUME NEW c, GoodCircuit(c)
  PROVE  /\ GoodCircuit(Aged(c))
         /\ Aged(c).state = c.state /\ Aged(c).calls = c.calls
<1>1. c \in Circuit /\ IsFiniteSet(c.failures)
  BY DEF GoodCircuit
<1>2. /\ IsFiniteSet(Aged(c).failures)
      /\ Cardinality(Recent(Aged(c))) <= Cardinality(Recent(c))
  BY <1>1, AgedRecent
<1>3. /\ Aged(c).state = c.state /\ Aged(c).calls = c.calls
      /\ Aged(c).last = IF c.last = Never THEN Never
                        ELSE Older(c.last, RecoveryTimeout)
      /\ Aged(c).failures = {<<Older(f[1], Window), f[2]>> : f \in c.failures}
  BY <1>1 DEF Aged, Circuit
<1>4. Aged(c).failures \in SUBSET FailureEntry
  <2>1. \A f \in c.failures : <<Older(f[1], Window), f[2]>> \in FailureEntry
    BY <1>1, BreakerAssumption DEF Older, FailureEntry, Circuit
  <2>2. QED
    BY <1>3, <2>1
<1>5. /\ Aged(c).last \in {Never} \cup 0..RecoveryTimeout
      /\ c.last # Never => Aged(c).last # Never
  BY <1>1, <1>3, BreakerAssumption DEF Older, Never, Circuit
<1>6. Aged(c) \in Circuit
  BY <1>1, <1>4, <1>5 DEF Aged, Circuit
<1>7. Cardinality(Recent(c)) \in Nat /\ Cardinality(Recent(Aged(c))) \in Nat
  <2>1. Recent(c) \in SUBSET c.failures
        /\ Recent(Aged(c)) \in SUBSET Aged(c).failures
    BY DEF Recent
  <2>2. QED
    BY <1>1, <1>2, <2>1, FS_Subset, FS_CardinalityType
<1>8. QED
  BY <1>2, <1>3, <1>5, <1>6, <1>7, BreakerAssumption DEF GoodCircuit

-----------------------------------------------------------------------------
(* The invariant of the router                                             *)

\* The inductive invariant: types, circuits whose parts agree, and a provider
\* for every call under way.
CircuitsGood == \A p \in Provider : GoodCircuit(cb[p])

CallsNamed == \A r \in Request : pc[r] \in Calling => at[r] \in Provider

Inv == TypeOK /\ CircuitsGood /\ CallsNamed

-----------------------------------------------------------------------------
(* Data                                                                    *)

\* The selection returns registered providers only.
LEMMA PicksProviders ==
  ASSUME NEW a \in Attempt, NEW d \in Domain \cup {NoDomain}, NEW circuits
  PROVE  Picks(a, d, circuits) \subseteq Provider
<1>1. InScope(d) \subseteq Provider
  BY DEF InScope
<1>2. Candidates(a.strategy, a.provider, d, circuits) \subseteq Provider
  <2>1. CASE a.strategy = "specific"
    BY <2>1 DEF Candidates
  <2>2. CASE a.strategy = "cheapest"
    BY <1>1, <2>2 DEF Candidates
  <2>3. CASE a.strategy = "domain"
    BY <1>1, <2>3 DEF Candidates, BestOf
  <2>4. CASE a.strategy = "fastest"
    BY <1>1, <2>4 DEF Candidates, FastestOf
  <2>5. CASE a.strategy = "best"
    <3>1. HealthyOrAll(InScope(d), circuits) \subseteq Provider
      BY <1>1 DEF HealthyOrAll, NotOpen
    <3>2. d # NoDomain => Benchmarked[d] \subseteq Provider
      BY RouterAssumption
    <3>3. QED
      BY <2>5, <3>1, <3>2 DEF Candidates, BestOf
  <2>6. QED
    BY <2>1, <2>2, <2>3, <2>4, <2>5 DEF Attempt, Strategy
<1>3. QED
  BY <1>2 DEF Picks, LongestUnused

\* The providers of a finite set can be listed.
LEMMA ListType ==
  ASSUME NEW S \in SUBSET Provider
  PROVE  SetToSeq(S) \in Seq(S)
<1>1. IsFiniteSet(S)
  BY FS_Subset, RouterAssumption
<1>2. Cardinality(S) \in Nat /\ ExistsBijection(1..Cardinality(S), S)
  BY <1>1, FS_CardinalityType
<1>3. \E f \in [1..Cardinality(S) -> S] : IsInjective(f)
  BY <1>2 DEF ExistsBijection, Bijection, Injection
<1>4. SetToSeq(S) \in [1..Cardinality(S) -> S]
  BY <1>3 DEF SetToSeq
<1>5. QED
  BY <1>2, <1>4

\* A fallback sequence is a sequence of attempts.
LEMMA SequenceType ==
  ASSUME NEW s \in Strategy, NEW p \in Provider \cup {NoProvider}
  PROVE  BuildSequence[s][p] \in Seq(Attempt)
<1> DEFINE Plain(fs) == [strategy |-> fs, provider |-> NoProvider]
           others == IF s = "specific" THEN FallbackStrategies
                     ELSE RemoveAt(FallbackStrategies,
                            CHOOSE i \in 1..4 : FallbackStrategies[i] = s)
           named  == SetToSeq(Provider \ {p})
           first  == <<[strategy |-> s, provider |-> p]>>
           plain  == [i \in DOMAIN others |-> Plain(others[i])]
           pinned == [i \in DOMAIN named |->
                         [strategy |-> s, provider |-> named[i]]]
           full   == first \o plain \o pinned
           n      == IF Len(full) < MaxAttempts THEN Len(full) ELSE MaxAttempts
<1>1. first \in Seq(Attempt)
  BY DEF Attempt
<1>2. FallbackStrategies \in Seq(Strategy) /\ Len(FallbackStrategies) = 4
  BY DEF FallbackStrategies, Strategy
<1>3. others \in Seq(Strategy)
  <2>1. CASE s = "specific"
    BY <1>2, <2>1
  <2>2. CASE s # "specific"
    <3>1. \E i \in 1..4 : FallbackStrategies[i] = s
      BY <2>2 DEF FallbackStrategies, Strategy
    <3>2. PICK i \in 1..4 : others = RemoveAt(FallbackStrategies, i)
      BY <2>2, <3>1
    <3>3. SubSeq(FallbackStrategies, 1, i - 1) \in Seq(Strategy)
      <4>1. \A j \in 1..(i - 1) : FallbackStrategies[j] \in Strategy
        BY DEF FallbackStrategies, Strategy
      <4>2. QED
        BY <4>1, SubSeqProperties
    <3>4. SubSeq(FallbackStrategies, i + 1, 4) \in Seq(Strategy)
      <4>1. \A j \in (i + 1)..4 : FallbackStrategies[j] \in Strategy
        BY DEF FallbackStrategies, Strategy
      <4>2. QED
        BY <4>1, SubSeqProperties
    <3>5. RemoveAt(FallbackStrategies, i) =
             SubSeq(FallbackStrategies, 1, i - 1)
               \o SubSeq(FallbackStrategies, i + 1, 4)
      BY <1>2 DEF RemoveAt
    <3>6. RemoveAt(FallbackStrategies, i) \in Seq(Strategy)
      BY <3>3, <3>4, <3>5, ConcatProperties, Zenon
    <3>7. QED
      BY <3>2, <3>6, Zenon
  <2>3. QED
    BY <2>1, <2>2
<1>4. plain \in Seq(Attempt)
  <2> HIDE DEF others
  <2>1. DOMAIN others = 1..Len(others) /\ Len(others) \in Nat
    BY <1>3
  <2>2. \A i \in 1..Len(others) : Plain(others[i]) \in Attempt
    BY <1>3 DEF Attempt
  <2>3. QED
    BY <2>1, <2>2
<1>5. pinned \in Seq(Attempt)
  <2>1. named \in Seq(Provider \ {p})
    BY ListType
  <2> HIDE DEF named
  <2>2. DOMAIN named = 1..Len(named) /\ Len(named) \in Nat
    BY <2>1
  <2>3. \A i \in 1..Len(named) :
           [strategy |-> s, provider |-> named[i]] \in Attempt
    BY <2>1 DEF Attempt
  <2>4. QED
    BY <2>2, <2>3
<1> HIDE DEF first, plain, pinned
<1>6. full \in Seq(Attempt)
  BY <1>1, <1>4, <1>5
<1> HIDE DEF full
<1>7. n \in Nat /\ n <= Len(full)
  BY <1>6, RouterAssumption
<1>8. SubSeq(full, 1, n) \in Seq(Attempt)
  <2> HIDE DEF n
  <2>1. QED
    BY <1>6, <1>7
<1>9. CASE s = "specific" /\ p # NoProvider
  BY <1>1, <1>9 DEF BuildSequence, first
<1>10. CASE ~(s = "specific" /\ p # NoProvider)
  <2>1. BuildSequence[s][p] = SubSeq(full, 1, n)
    BY <1>10, Zenon DEF BuildSequence, full, first, plain, pinned
  <2>2. QED
    BY <1>8, <2>1
<1>11. QED
  BY <1>9, <1>10

-----------------------------------------------------------------------------
(* Parts of steps                                                          *)

\* The variables that belong to the tasks have their types.
TasksOK ==
    /\ pc \in [Request -> Place]
    /\ req \in [Request -> RequestSpec]
    /\ todo \in [Request -> Seq(Attempt)]
    /\ at \in [Request -> Provider \cup {NoProvider}]

GoodMap(circuits) ==
    circuits \in [Provider -> Circuit] /\ \A p \in Provider : GoodCircuit(circuits[p])

\* A task that leaves serves no request.
LEMMA LeaveKeeps ==
  ASSUME Inv, NEW r \in Request, Leave(r)
  PROVE  TasksOK' /\ CallsNamed'
<1>1. NoRequest \in RequestSpec
  BY DEF NoRequest, RequestSpec, Mode, Strategy
<1>2. <<>> \in Seq(Attempt)
  OBVIOUS
<1>3. TasksOK'
  BY <1>1, <1>2 DEF Inv, TypeOK, Leave, TasksOK, Place
<1>4. CallsNamed'
  BY DEF Inv, TypeOK, Leave, CallsNamed, Calling, Admittance
<1>5. QED
  BY <1>3, <1>4

\* Ranks of last use stay ranks.
LEMMA MostRecentType ==
  ASSUME Inv, NEW p \in Provider
  PROVE  MostRecent(p) \in [Provider -> 1..Cardinality(Provider)]
<1>1. Cardinality(Provider) \in Nat /\ Cardinality(Provider) # 0
  BY RouterAssumption, FS_CardinalityType, FS_EmptySet
<1>2. recency \in [Provider -> 1..Cardinality(Provider)]
  BY DEF Inv, TypeOK
<1>3. QED
  BY <1>1, <1>2 DEF MostRecent

\* The loop over the sequence ends the request, or starts a call the breaker
\* admits.
LEMMA TryNextCases ==
  ASSUME Inv, NEW r \in Request, NEW seq \in Seq(Attempt), NEW circuits,
         NEW l, TryNext(r, seq, circuits, l)
  PROVE  \/ cb' = circuits /\ load' = l /\ recency' = recency /\ Leave(r)
         \/ \E p \in Provider, i \in 1..Len(seq) :
               /\ CanExecute(circuits[p])
               /\ StartCall(r, p, SubSeq(seq, i + 1, Len(seq)), circuits, l)
<1>1. req[r].domain \in Domain \cup {NoDomain}
  BY DEF Inv, TypeOK, RequestSpec
<1>2. \A i \in 1..Len(seq) : seq[i] \in Attempt
  OBVIOUS
<1>3. \A i \in 1..Len(seq) :
         Picks(seq[i], req[r].domain, circuits) \subseteq Provider
  BY <1>1, <1>2, PicksProviders
<1>4. Len(seq) \in Nat
  OBVIOUS
<1>5. \A i \in 1..(Len(seq) + 1) : i <= Len(seq) => i \in 1..Len(seq)
  BY <1>4
<1>6. QED
  BY <1>3, <1>5 DEF TryNext

\* What is left of a sequence is a sequence.
LEMMA RestType ==
  ASSUME NEW seq \in Seq(Attempt), NEW i \in 1..Len(seq)
  PROVE  SubSeq(seq, i + 1, Len(seq)) \in Seq(Attempt)
<1>1. \A j \in (i + 1)..Len(seq) : seq[j] \in Attempt
  OBVIOUS
<1>2. QED
  BY <1>1, SubSeqProperties

\* A call that starts keeps the invariant.
LEMMA StartKeeps ==
  ASSUME Inv, NEW r \in Request, NEW p \in Provider, NEW rest \in Seq(Attempt),
         NEW circuits, GoodMap(circuits), NEW l \in [Provider -> Nat],
         CanExecute(circuits[p]), StartCall(r, p, rest, circuits, l)
  PROVE  Inv'
<1>1. GoodCircuit(Admitted(circuits[p]))
  BY AdmittedGood DEF GoodMap
<1>2. cb' \in [Provider -> Circuit] /\ CircuitsGood'
  BY <1>1 DEF StartCall, GoodMap, GoodCircuit, CircuitsGood
<1>3. load' \in [Provider -> Nat]
  BY DEF StartCall, Started
<1>4. recency' \in [Provider -> 1..Cardinality(Provider)]
  BY MostRecentType DEF StartCall
<1>5. TasksOK' /\ CallsNamed'
  BY DEF Inv, TypeOK, StartCall, TasksOK, Place, CallsNamed
<1>6. QED
  BY <1>2, <1>3, <1>4, <1>5 DEF Inv, TypeOK, TasksOK

\* The loop keeps the invariant.
LEMMA TryNextKeeps ==
  ASSUME Inv, NEW r \in Request, NEW seq \in Seq(Attempt), NEW circuits,
         GoodMap(circuits), NEW l \in [Provider -> Nat],
         TryNext(r, seq, circuits, l)
  PROVE  Inv'
<1>1. CASE cb' = circuits /\ load' = l /\ recency' = recency /\ Leave(r)
  BY <1>1, LeaveKeeps DEF Inv, TypeOK, TasksOK, GoodMap, CircuitsGood
<1>2. CASE \E p \in Provider, i \in 1..Len(seq) :
             /\ CanExecute(circuits[p])
             /\ StartCall(r, p, SubSeq(seq, i + 1, Len(seq)), circuits, l)
  BY <1>2, RestType, StartKeeps
<1>3. QED
  BY <1>1, <1>2, TryNextCases

\* A failed call leaves good circuits and natural loads behind.
LEMMA FailedGood ==
  ASSUME Inv, NEW r \in Request, pc[r] \in Calling
  PROVE  /\ GoodMap(Failed(r))
         /\ Completed(load, at[r]) \in [Provider -> Nat]
         /\ GoodMap([cb EXCEPT ![at[r]] = AfterSuccess(cb[at[r]])])
<1>1. /\ at[r] \in Provider /\ GoodCircuit(cb[at[r]])
      /\ cb \in [Provider -> Circuit] /\ load \in [Provider -> Nat]
  BY DEF Inv, TypeOK, CallsNamed, CircuitsGood
<1>2. GoodCircuit(AfterFailure(cb[at[r]])) /\ GoodCircuit(AfterSuccess(cb[at[r]]))
  BY <1>1, AfterFailureGood, AfterSuccessGood
<1>3. GoodMap(cb)
  BY DEF Inv, TypeOK, CircuitsGood, GoodMap
<1>4. QED
  BY <1>1, <1>2, <1>3 DEF Failed, Completed, GoodMap, GoodCircuit

-----------------------------------------------------------------------------
(* The invariant                                                           *)

\* The invariant holds initially.
LEMMA InvInit == ASSUME Init PROVE Inv
<1>1. NoRequest \in RequestSpec
  BY DEF NoRequest, RequestSpec, Mode, Strategy
<1>2. cb \in [Provider -> Circuit] /\ CircuitsGood
  BY FreshGood DEF Init, CircuitsGood, GoodCircuit
<1>3. recency \in [Provider -> 1..Cardinality(Provider)]
  BY DEF Init, Ranking
<1>4. <<>> \in Seq(Attempt)
  OBVIOUS
<1>5. load \in [Provider -> Nat]
  BY DEF Init
<1>6. TasksOK /\ CallsNamed
  BY <1>1, <1>4 DEF Init, TasksOK, Place, CallsNamed, Calling, Admittance
<1>7. QED
  BY <1>2, <1>3, <1>5, <1>6 DEF Inv, TypeOK, TasksOK

\* Every step keeps it.
LEMMA InvNext == ASSUME Inv, [Next]_vars PROVE Inv'
<1>1. ASSUME NEW r \in Request, Arrive(r) PROVE Inv'
  BY <1>1, RouterAssumption
     DEF Inv, TypeOK, Arrive, CircuitsGood, CallsNamed, Place, Calling, Admittance
<1>2. ASSUME NEW r \in Request, ArriveFim(r) PROVE Inv'
  <2>1. PICK q \in Traffic :
          /\ q.mode = "fim" /\ q.provider \in Provider
          /\ req' = [req EXCEPT ![r] = q]
          /\ load' = Started(load, q.provider)
          /\ recency' = MostRecent(q.provider)
          /\ at' = [at EXCEPT ![r] = q.provider]
    BY <1>2 DEF ArriveFim
  <2>2. recency' \in [Provider -> 1..Cardinality(Provider)]
    BY <2>1, MostRecentType
  <2>3. load' \in [Provider -> Nat]
    BY <2>1 DEF Inv, TypeOK, Started
  <2>4. pc' = [pc EXCEPT ![r] = "fim"] /\ UNCHANGED <<cb, todo>>
    BY <1>2 DEF ArriveFim
  <2>5. TasksOK' /\ CallsNamed'
    BY <2>1, <2>4, RouterAssumption
       DEF Inv, TypeOK, TasksOK, CallsNamed, Place, Calling, Admittance
  <2>6. QED
    BY <2>2, <2>3, <2>4, <2>5 DEF Inv, TypeOK, TasksOK, CircuitsGood
<1>3. ASSUME NEW r \in Request,
             FimAnswered(r) \/ CacheHit(r) \/ RemoteAnswered(r) \/ Stored(r)
      PROVE  Inv'
  <2>1. Leave(r) /\ UNCHANGED <<cb, recency>>
    BY <1>3 DEF FimAnswered, CacheHit, RemoteAnswered, Stored
  <2>2. load' = load \/ (pc[r] \in Calling /\ load' = Completed(load, at[r]))
    BY <1>3 DEF FimAnswered, CacheHit, RemoteAnswered, Stored, Calling, Admittance
  <2>3. load' \in [Provider -> Nat]
    BY <2>2, FailedGood DEF Inv, TypeOK
  <2>4. QED
    BY <2>1, <2>3, LeaveKeeps DEF Inv, TypeOK, TasksOK, CircuitsGood
<1>4. ASSUME NEW r \in Request, CacheMiss(r) PROVE Inv'
  <2>1. BuildSequence[req[r].strategy][req[r].provider] \in Seq(Attempt)
    BY SequenceType DEF Inv, TypeOK, RequestSpec
  <2>2. GoodMap(cb) /\ load \in [Provider -> Nat]
    BY DEF Inv, TypeOK, CircuitsGood, GoodMap
  <2>3. QED
    BY <1>4, <2>1, <2>2, TryNextKeeps DEF CacheMiss
<1>5. ASSUME NEW r \in Request, RemoteDeclined(r) \/ FirstToken(r) PROVE Inv'
  BY <1>5 DEF Inv, TypeOK, CircuitsGood, CallsNamed, RemoteDeclined, FirstToken,
              Place, Calling, Admittance
<1>6. ASSUME NEW r \in Request, CallSucceeds(r) PROVE Inv'
  <2>1. pc[r] \in Calling
    BY <1>6 DEF CallSucceeds, Calling, Admittance
  <2>2. cb' \in [Provider -> Circuit] /\ CircuitsGood' /\ load' \in [Provider -> Nat]
    BY <1>6, <2>1, FailedGood DEF CallSucceeds, GoodMap, CircuitsGood
  <2>3. <<>> \in Seq(Attempt)
    OBVIOUS
  <2>4. TasksOK' /\ CallsNamed'
    <3>1. CASE Leave(r)
      BY <3>1, LeaveKeeps
    <3>2. CASE ~Leave(r)
      <4>1. /\ pc' = [pc EXCEPT ![r] = "store"]
            /\ todo' = [todo EXCEPT ![r] = <<>>]
            /\ at' = [at EXCEPT ![r] = NoProvider]
            /\ UNCHANGED req
        BY <1>6, <3>2 DEF CallSucceeds
      <4>2. QED
        BY <2>3, <4>1
           DEF Inv, TypeOK, TasksOK, CallsNamed, Place, Calling, Admittance
    <3>3. QED
      BY <3>1, <3>2
  <2>5. recency' = recency
    BY <1>6 DEF CallSucceeds
  <2>6. QED
    BY <2>2, <2>4, <2>5 DEF Inv, TypeOK, TasksOK
<1>7. ASSUME NEW r \in Request, CallFails(r) PROVE Inv'
  <2>1. pc[r] \in Calling
    BY <1>7 DEF CallFails, Calling, Admittance
  <2>2. todo[r] \in Seq(Attempt)
    BY DEF Inv, TypeOK
  <2>3. QED
    BY <1>7, <2>1, <2>2, FailedGood, TryNextKeeps DEF CallFails
<1>8. ASSUME NEW r \in Request, StreamBreaks(r) PROVE Inv'
  <2>1. pc[r] \in Calling
    BY <1>8 DEF StreamBreaks, Calling, Admittance
  <2>2. QED
    BY <1>8, <2>1, FailedGood, LeaveKeeps
       DEF StreamBreaks, Inv, TypeOK, TasksOK, CircuitsGood, GoodMap
<1>9. ASSUME NEW r \in Request, Cancel(r) PROVE Inv'
  BY <1>9, LeaveKeeps DEF Cancel, Inv, TypeOK, TasksOK, CircuitsGood
<1>10. CASE ResetLoadStats
  BY <1>10 DEF ResetLoadStats, Inv, TypeOK, CircuitsGood, CallsNamed
<1>11. CASE ResetMetrics
  BY <1>11, FreshGood
     DEF ResetMetrics, Inv, TypeOK, CircuitsGood, CallsNamed, GoodCircuit
<1>12. CASE Tick
  <2>1. cb' \in [Provider -> Circuit] /\ CircuitsGood'
    BY <1>12, AgedGood DEF Tick, Inv, CircuitsGood, GoodCircuit
  <2>2. QED
    BY <1>12, <2>1 DEF Tick, Inv, TypeOK, CallsNamed
<1>13. CASE UNCHANGED vars
  BY <1>13 DEF vars, Inv, TypeOK, CircuitsGood, CallsNamed
<1>14. QED
  BY <1>1, <1>2, <1>3, <1>4, <1>5, <1>6, <1>7, <1>8, <1>9, <1>10, <1>11, <1>12,
     <1>13 DEF Next, Progress

\* The invariant holds in every reachable state.
LEMMA Invariant == Spec => []Inv
<1>1. Init => Inv
  BY InvInit
<1>2. Inv /\ [Next]_vars => Inv'
  BY InvNext
<1>3. QED
  BY <1>1, <1>2, PTL DEF Spec

\* Every variable keeps its type, whatever the providers, tasks and requests.
THEOREM TypeCorrect == Spec => []TypeOK
<1>1. Inv => TypeOK
  BY DEF Inv
<1>2. QED
  BY <1>1, Invariant, PTL

\* No interleaving of failures, resets and ticks leaves a closed circuit with
\* failure_threshold recent failures.
THEOREM ClosedIsBelowThreshold == Spec => []ClosedBelowThreshold
<1>1. Inv => ClosedBelowThreshold
  BY DEF Inv, CircuitsGood, GoodCircuit, ClosedBelowThreshold
<1>2. QED
  BY <1>1, Invariant, PTL

\* A half-open circuit gives out at most half_open_max_calls slots, an open one
\* can recover, the others hold no slot: even with cancelled calls and resets.
THEOREM CircuitsKeepShape == Spec => []CircuitShape
<1>1. Inv => CircuitShape
  BY DEF Inv, CircuitsGood, GoodCircuit, CircuitShape
<1>2. QED
  BY <1>1, Invariant, PTL

-----------------------------------------------------------------------------
(* The breaker implements the gate.                                        *)

\* What one step of a task does to one circuit: nothing, or one call on the
\* breaker.
Move(c, d) ==
    \/ d = c
    \/ d = AfterSuccess(c)
    \/ d = AfterFailure(c)
    \/ CanExecute(c) /\ d = Admitted(c)

Rest(c) == IF c.state = "open" THEN c.last ELSE 0

\* The same as a step of a gate.
GateMove(c, d) ==
    \/ d.state = c.state /\ Rest(d) = Rest(c) /\ d.calls = c.calls
    \/ d.state = "open" /\ Rest(d) = 0 /\ d.calls = 0
    \/ /\ d.state = "half_open"
       /\ Rest(d) = 0
       /\ \/ c.state = "open" /\ Rest(c) = RecoveryTimeout /\ d.calls = 1
          \/ /\ c.state = "half_open"
             /\ c.calls < HalfOpenMax
             /\ d.calls = c.calls + 1
    \/ /\ c.state = "half_open"
       /\ d.state = "closed" /\ Rest(d) = 0 /\ d.calls = 0

\* Every call on the breaker is a step of the gate.
LEMMA MoveIsGateMove ==
  ASSUME NEW c, NEW d, GoodCircuit(c), Move(c, d)
  PROVE  GateMove(c, d)
<1>0. c \in Circuit /\ c.state \in CircuitState
  BY DEF GoodCircuit, Circuit
<1>1. CASE d = c
  BY <1>1 DEF GateMove
<1>2. CASE d = AfterSuccess(c)
  <2>1. CASE c.state = "closed"
    BY <1>0, <1>2, <2>1, CleanedFailures
       DEF AfterSuccess, GateMove, Rest, GoodCircuit
  <2>2. CASE c.state = "open"
    BY <1>2, <2>2 DEF AfterSuccess, GateMove
  <2>3. CASE c.state = "half_open"
    <3>1. d = [state |-> "closed", failures |-> {}, last |-> c.last, calls |-> 0]
      BY <1>0, <1>2, <2>3, Transitions DEF AfterSuccess
    <3>2. QED
      BY <2>3, <3>1 DEF GateMove, Rest
  <2>4. QED
    BY <1>0, <2>1, <2>2, <2>3 DEF CircuitState
<1>3. CASE d = AfterFailure(c)
  <2>1. /\ GoodCircuit(d) /\ d.state \in {"closed", "open"}
        /\ d.state = "open" => d.last = 0
        /\ c.state # "closed" => d.state = "open"
    BY <1>3, AfterFailureGood
  <2>2. d.calls = 0
    BY <2>1 DEF GoodCircuit
  <2>3. c.state = "closed" => c.calls = 0
    BY DEF GoodCircuit
  <2>4. QED
    BY <1>0, <2>1, <2>2, <2>3 DEF GateMove, Rest, CircuitState
<1>4. CASE CanExecute(c) /\ d = Admitted(c)
  <2>1. CASE c.state = "closed"
    BY <1>4, <2>1 DEF Admitted, GateMove
  <2>2. CASE c.state = "open"
    <3>1. d = [ToHalfOpen(c) EXCEPT !.calls = 1]
      BY <1>4, <2>2 DEF Admitted
    <3>2. d = [state |-> "half_open", failures |-> c.failures,
               last |-> c.last, calls |-> 1]
      BY <1>0, <3>1, Transitions
    <3>3. c.last = RecoveryTimeout
      BY <1>0, <1>4, <2>2, BreakerAssumption DEF CanExecute, Circuit, Never
    <3>4. QED
      BY <2>2, <3>2, <3>3 DEF GateMove, Rest
  <2>3. CASE c.state = "half_open"
    BY <1>0, <1>4, <2>3 DEF Admitted, CanExecute, GateMove, Rest, Circuit
  <2>4. QED
    BY <1>0, <2>1, <2>2, <2>3 DEF CircuitState
<1>5. QED
  BY <1>1, <1>2, <1>3, <1>4 DEF Move

\* A circuit that has just failed admits a call only if it is still closed, so
\* a failure and the next attempt are together at most one move.
LEMMA FailThenAdmit ==
  ASSUME NEW c, GoodCircuit(c), CanExecute(AfterFailure(c))
  PROVE  Admitted(AfterFailure(c)) = AfterFailure(c)
<1>1. /\ AfterFailure(c).state \in {"closed", "open"}
      /\ AfterFailure(c).state = "open" => AfterFailure(c).last = 0
  BY AfterFailureGood
<1>2. AfterFailure(c).state = "closed"
  BY <1>1, BreakerAssumption DEF CanExecute
<1>3. QED
  BY <1>2 DEF Admitted

\* The loop, entered with the circuits as they were or after one failure.
LEMMA TryNextMoves ==
  ASSUME Inv, NEW r \in Request, NEW seq \in Seq(Attempt), NEW circuits, NEW l,
         TryNext(r, seq, circuits, l),
         \/ circuits = cb
         \/ at[r] \in Provider /\ circuits = Failed(r)
  PROVE  \A p \in Provider : Move(cb[p], cb'[p])
<1> SUFFICES ASSUME NEW p \in Provider
             PROVE  Move(cb[p], cb'[p])
  OBVIOUS
<1>1. GoodCircuit(cb[p]) /\ cb \in [Provider -> Circuit]
  BY DEF Inv, TypeOK, CircuitsGood
<1>2. \/ circuits[p] = cb[p]
      \/ circuits[p] = AfterFailure(cb[p])
  BY <1>1 DEF Failed
<1>3. CASE cb' = circuits
  BY <1>2, <1>3 DEF Move
<1>4. CASE cb' # circuits
  <2>1. PICK q \in Provider : /\ CanExecute(circuits[q])
                              /\ cb' = [circuits EXCEPT ![q] = Admitted(circuits[q])]
    BY <1>4, TryNextCases DEF StartCall
  <2>2. DOMAIN circuits = Provider
    BY <1>1 DEF Failed
  <2>3. CASE q # p
    BY <1>2, <2>1, <2>2, <2>3 DEF Move
  <2>4. CASE q = p
    <3>1. cb'[p] = Admitted(circuits[p]) /\ CanExecute(circuits[p])
      BY <2>1, <2>2, <2>4
    <3>2. CASE circuits[p] = cb[p]
      BY <3>1, <3>2 DEF Move
    <3>3. CASE circuits[p] = AfterFailure(cb[p])
      BY <1>1, <3>1, <3>3, FailThenAdmit DEF Move
    <3>4. QED
      BY <1>2, <3>2, <3>3
  <2>5. QED
    BY <2>3, <2>4
<1>5. QED
  BY <1>3, <1>4

\* Every step is one move of each circuit, a tick, or a reset of all.
LEMMA StepMoves ==
  ASSUME Inv, [Next]_vars
  PROVE  \/ \A p \in Provider : Move(cb[p], cb'[p])
         \/ Tick
         \/ ResetMetrics
<1>1. ASSUME UNCHANGED cb PROVE \A p \in Provider : Move(cb[p], cb'[p])
  BY <1>1 DEF Move
<1>2. ASSUME NEW r \in Request, CacheMiss(r)
      PROVE  \A p \in Provider : Move(cb[p], cb'[p])
  <2>1. BuildSequence[req[r].strategy][req[r].provider] \in Seq(Attempt)
    BY SequenceType DEF Inv, TypeOK, RequestSpec
  <2>2. QED
    BY <1>2, <2>1, TryNextMoves DEF CacheMiss
<1>3. ASSUME NEW r \in Request, CallFails(r)
      PROVE  \A p \in Provider : Move(cb[p], cb'[p])
  <2>1. at[r] \in Provider /\ todo[r] \in Seq(Attempt)
    BY <1>3 DEF Inv, TypeOK, CallsNamed, CallFails, Calling, Admittance
  <2>2. QED
    BY <1>3, <2>1, TryNextMoves DEF CallFails
<1>4. ASSUME NEW r \in Request, CallSucceeds(r) \/ StreamBreaks(r)
      PROVE  \A p \in Provider : Move(cb[p], cb'[p])
  <2>1. cb \in [Provider -> Circuit]
    BY DEF Inv, TypeOK
  <2>2. \/ cb' = [cb EXCEPT ![at[r]] = AfterSuccess(cb[at[r]])]
        \/ cb' = [cb EXCEPT ![at[r]] = AfterFailure(cb[at[r]])]
    BY <1>4 DEF CallSucceeds, StreamBreaks, Failed
  <2>3. QED
    BY <2>1, <2>2 DEF Move
<1>5. QED
  BY <1>1, <1>2, <1>3, <1>4
     DEF Next, Progress, Arrive, ArriveFim, FimAnswered, CacheHit,
         RemoteAnswered, RemoteDeclined, FirstToken, Stored, Cancel,
         ResetLoadStats, vars

\* The initial circuits are closed gates.
LEMMA GateInitially == ASSUME Init PROVE Gate!GateInit
  BY DEF Init, FreshCircuit, Gate!GateInit

\* The type of the gate.
LEMMA GateTyped == ASSUME Inv PROVE Gate!GateType
<1>1. \A p \in Provider :
         /\ cb[p].state \in {"closed", "open", "half_open"}
         /\ cb[p].state = "open" => cb[p].last \in 0..RecoveryTimeout
         /\ cb[p].calls \in 0..HalfOpenMax
  BY BreakerAssumption
     DEF Inv, CircuitsGood, GoodCircuit, Circuit, CircuitState, Never
<1>2. 0 \in 0..RecoveryTimeout
  BY BreakerAssumption
<1>3. QED
  BY <1>1, <1>2 DEF Gate!GateType

\* Every step of the router is a step of the gates, or leaves them alone.
LEMMA GateSimulates ==
  ASSUME Inv, Inv', [Next]_vars
  PROVE  [Gate!GateNext]_(Gate!gateVars)
<1>1. CASE \A p \in Provider : Move(cb[p], cb'[p])
  <2>1. \A p \in Provider : GateMove(cb[p], cb'[p])
    BY <1>1, MoveIsGateMove DEF Inv, CircuitsGood
  <2>2. Gate!GateType'
    BY GateTyped, Inv', PTL
  <2>3. \A p \in Provider :
           Gate!Stay(p) \/ Gate!Trip(p) \/ Gate!Probe(p) \/ Gate!Close(p)
    BY <2>1 DEF GateMove, Rest, Gate!Stay, Gate!Trip, Gate!Probe, Gate!Close
  <2>4. QED
    BY <2>2, <2>3 DEF Gate!GateNext, Gate!GateStep
<1>2. CASE Tick
  <2>1. \A p \in Provider :
           /\ cb'[p] = Aged(cb[p])
           /\ cb'[p].state = cb[p].state /\ cb'[p].calls = cb[p].calls
    BY <1>2, AgedGood DEF Tick, Inv, CircuitsGood
  <2>2. \A p \in Provider : cb[p].state = "open" =>
           /\ cb'[p].last = Older(cb[p].last, RecoveryTimeout)
    BY <2>1 DEF Aged, Inv, CircuitsGood, GoodCircuit, Circuit
  <2>3. Gate!GateTick
    BY <2>1, <2>2 DEF Gate!GateTick, Older
  <2>4. QED
    BY <2>3 DEF Gate!GateNext
<1>3. CASE ResetMetrics
  <2>1. Gate!GateReset
    BY <1>3 DEF ResetMetrics, FreshCircuit, Gate!GateReset
  <2>2. QED
    BY <2>1 DEF Gate!GateNext
<1>4. QED
  BY <1>1, <1>2, <1>3, StepMoves

\* The router's breaker implements the gate, with cancellation, worker detours
\* and resets: a tripped provider is left alone for recovery_timeout, then
\* probed by at most half_open_max_calls calls, and reopened to traffic only by
\* the outcome of a call.
THEOREM BreakerImplementsGate == Spec => GateSpec
<1>1. Init => Gate!GateInit
  BY GateInitially
<1>2. Inv /\ Inv' /\ [Next]_vars => [Gate!GateNext]_(Gate!gateVars)
  BY GateSimulates
<1>3. QED
  BY <1>1, <1>2, Invariant, PTL DEF Spec, GateSpec, Gate!GateSpec

-----------------------------------------------------------------------------
(* The accounts: the load of each provider and the probe slots of a        *)
(* half-open circuit                                                       *)

\* The calls under way on a provider are finitely many.
LEMMA CallsFinite ==
  ASSUME NEW p \in Provider
  PROVE  IsFiniteSet(InFlight(p)) /\ IsFiniteSet(BreakerCalls(p))
<1>1. InFlight(p) \in SUBSET Request /\ BreakerCalls(p) \in SUBSET Request
  BY DEF InFlight, BreakerCalls
<1>2. QED
  BY <1>1, RouterAssumption, FS_Subset

-----------------------------------------------------------------------------
(* The load                                                                *)

\* Task r stops counting where it was counted and is counted where it goes.
Recounted(r) ==
    \A p \in Provider :
        /\ InFlight(p)' \ {r} = InFlight(p) \ {r}
        /\ load'[p] = (IF r \in InFlight(p)
                       THEN IF load[p] > 0 THEN load[p] - 1 ELSE 0
                       ELSE load[p])
                      + (IF r \in InFlight(p)' THEN 1 ELSE 0)

SameCount == load' = load /\ \A p \in Provider : InFlight(p)' = InFlight(p)

\* A cancelled call stays in the load.
Abandoned(r) ==
    load' = load /\ \A p \in Provider : InFlight(p)' = InFlight(p) \ {r}

\* The loop, entered by a task that has not started, or whose call has just
\* been subtracted.
LEMMA TryNextRecounts ==
  ASSUME Inv, NEW r \in Request, NEW seq \in Seq(Attempt), NEW circuits, NEW l,
         TryNext(r, seq, circuits, l),
         \/ pc[r] \notin Calling /\ l = load
         \/ pc[r] \in Calling /\ l = Completed(load, at[r])
  PROVE  Recounted(r)
<1> SUFFICES ASSUME NEW p \in Provider
             PROVE  /\ InFlight(p)' \ {r} = InFlight(p) \ {r}
                    /\ load'[p] = (IF r \in InFlight(p)
                                   THEN IF load[p] > 0 THEN load[p] - 1 ELSE 0
                                   ELSE load[p])
                                  + (IF r \in InFlight(p)' THEN 1 ELSE 0)
  BY DEF Recounted
<1>1. /\ load \in [Provider -> Nat] /\ pc \in [Request -> Place]
      /\ at \in [Request -> Provider \cup {NoProvider}]
      /\ pc[r] \in Calling => at[r] \in Provider
  BY DEF Inv, TypeOK, CallsNamed
<1>2. /\ l \in [Provider -> Nat]
      /\ l[p] = IF r \in InFlight(p)
                THEN IF load[p] > 0 THEN load[p] - 1 ELSE 0 ELSE load[p]
  BY <1>1 DEF Completed, InFlight
<1>3. CASE load' = l /\ Leave(r)
  <2>1. r \notin InFlight(p)'
    BY <1>1, <1>3 DEF Leave, InFlight, Calling, Admittance
  <2>2. InFlight(p)' \ {r} = InFlight(p) \ {r}
    BY <1>1, <1>3 DEF Leave, InFlight
  <2>3. QED
    BY <1>2, <1>3, <2>1, <2>2
<1>4. CASE \E q \in Provider, i \in 1..Len(seq) :
             StartCall(r, q, SubSeq(seq, i + 1, Len(seq)), circuits, l)
  <2>1. PICK q \in Provider :
           /\ load' = Started(l, q)
           /\ \/ pc' = [pc EXCEPT ![r] = "remote"]
              \/ pc' = [pc EXCEPT ![r] = "local"]
           /\ at' = [at EXCEPT ![r] = q]
    BY <1>4 DEF StartCall
  <2>2. InFlight(p)' \ {r} = InFlight(p) \ {r}
    BY <1>1, <2>1 DEF InFlight
  <2>3. r \in InFlight(p)' <=> p = q
    BY <1>1, <2>1 DEF InFlight, Calling, Admittance
  <2>4. load'[p] = l[p] + (IF p = q THEN 1 ELSE 0)
    BY <1>2, <2>1 DEF Started
  <2>5. QED
    BY <1>2, <2>2, <2>3, <2>4
<1>5. QED
  BY <1>3, <1>4, TryNextCases

\* A task that leaves after its call was subtracted.
LEMMA LeaveRecounts ==
  ASSUME Inv, NEW r \in Request, pc[r] \in Calling,
         load' = Completed(load, at[r]),
         \/ Leave(r)
         \/ /\ pc' = [pc EXCEPT ![r] = "store"]
            /\ at' = [at EXCEPT ![r] = NoProvider]
  PROVE  Recounted(r)
<1>1. /\ load \in [Provider -> Nat] /\ pc \in [Request -> Place]
      /\ at \in [Request -> Provider \cup {NoProvider}]
      /\ at[r] \in Provider
  BY DEF Inv, TypeOK, CallsNamed
<1>2. pc'[r] \notin Calling /\ at' = [at EXCEPT ![r] = NoProvider]
      /\ \A s \in Request : s # r => pc'[s] = pc[s]
  BY <1>1 DEF Leave, Calling, Admittance
<1>3. \A p \in Provider : /\ InFlight(p)' \ {r} = InFlight(p) \ {r}
                          /\ r \notin InFlight(p)'
                          /\ r \in InFlight(p) <=> p = at[r]
  BY <1>1, <1>2 DEF InFlight
<1>4. QED
  BY <1>1, <1>3 DEF Recounted, Completed

\* Every step counts a call where it starts and once more where it ends,
\* except a cancellation.
LEMMA StepCounts ==
  ASSUME Inv, [Next]_vars, ~AdminReset
  PROVE  \/ SameCount
         \/ \E r \in Request : Recounted(r)
         \/ Cancellation /\ \E r \in Request : Abandoned(r)
<1>0. /\ load \in [Provider -> Nat] /\ pc \in [Request -> Place]
      /\ at \in [Request -> Provider \cup {NoProvider}]
  BY DEF Inv, TypeOK
<1>1. ASSUME NEW r \in Request, Arrive(r) PROVE SameCount
  BY <1>0, <1>1 DEF Arrive, SameCount, InFlight, Calling, Admittance
<1>2. ASSUME NEW r \in Request, ArriveFim(r) PROVE Recounted(r)
  <2>1. PICK q \in Provider : /\ load' = Started(load, q)
                              /\ at' = [at EXCEPT ![r] = q]
    BY <1>2 DEF ArriveFim
  <2>2. pc[r] = "idle" /\ pc' = [pc EXCEPT ![r] = "fim"]
    BY <1>2 DEF ArriveFim
  <2>3. \A p \in Provider : /\ InFlight(p)' \ {r} = InFlight(p) \ {r}
                            /\ r \notin InFlight(p)
                            /\ r \in InFlight(p)' <=> p = q
    BY <1>0, <2>1, <2>2 DEF InFlight, Calling, Admittance
  <2>4. QED
    BY <1>0, <2>1, <2>3 DEF Recounted, Started
<1>3. ASSUME NEW r \in Request, FimAnswered(r) \/ RemoteAnswered(r)
      PROVE  Recounted(r)
  BY <1>3, LeaveRecounts DEF FimAnswered, RemoteAnswered, Calling, Admittance
<1>4. ASSUME NEW r \in Request, CacheHit(r) \/ Stored(r) PROVE SameCount
  BY <1>0, <1>4
     DEF CacheHit, Stored, Leave, SameCount, InFlight, Calling, Admittance
<1>5. ASSUME NEW r \in Request, CacheMiss(r) PROVE Recounted(r)
  <2>1. BuildSequence[req[r].strategy][req[r].provider] \in Seq(Attempt)
    BY SequenceType DEF Inv, TypeOK, RequestSpec
  <2>2. pc[r] \notin Calling
    BY <1>5 DEF CacheMiss, Calling, Admittance
  <2>3. QED
    BY <1>5, <2>1, <2>2, TryNextRecounts DEF CacheMiss
<1>6. ASSUME NEW r \in Request, RemoteDeclined(r) \/ FirstToken(r)
      PROVE  SameCount
  BY <1>0, <1>6
     DEF RemoteDeclined, FirstToken, SameCount, InFlight, Calling, Admittance
<1>7. ASSUME NEW r \in Request, CallSucceeds(r) PROVE Recounted(r)
  BY <1>7, LeaveRecounts DEF CallSucceeds, Calling, Admittance
<1>8. ASSUME NEW r \in Request, CallFails(r) PROVE Recounted(r)
  <2>1. pc[r] \in Calling /\ todo[r] \in Seq(Attempt)
    BY <1>8 DEF CallFails, Calling, Admittance, Inv, TypeOK
  <2>2. QED
    BY <1>8, <2>1, TryNextRecounts DEF CallFails
<1>9. ASSUME NEW r \in Request, StreamBreaks(r) PROVE Recounted(r)
  BY <1>9, LeaveRecounts DEF StreamBreaks, Calling, Admittance
<1>10. ASSUME NEW r \in Request, Cancel(r) PROVE Cancellation /\ Abandoned(r)
  BY <1>0, <1>10 DEF Cancel, Leave, Abandoned, InFlight, Calling, Admittance
<1>11. CASE ResetLoadStats \/ ResetMetrics
  BY <1>11 DEF ResetLoadStats, ResetMetrics
<1>12. CASE Tick \/ UNCHANGED vars
  BY <1>12 DEF Tick, vars, SameCount, InFlight
<1>13. QED
  BY <1>1, <1>2, <1>3, <1>4, <1>5, <1>6, <1>7, <1>8, <1>9, <1>10, <1>11, <1>12
     DEF Next, Progress

\* How a recount changes the number of calls.
LEMMA RecountedCardinality ==
  ASSUME NEW S, NEW T, NEW r, IsFiniteSet(S), IsFiniteSet(T),
         T \ {r} = S \ {r}
  PROVE  /\ Cardinality(S) \in Nat /\ Cardinality(T) \in Nat
         /\ r \in S => Cardinality(S) > 0
         /\ Cardinality(T) = (IF r \in S THEN Cardinality(S) - 1
                              ELSE Cardinality(S))
                             + (IF r \in T THEN 1 ELSE 0)
<1>1. Cardinality(S) \in Nat /\ Cardinality(T) \in Nat
  BY FS_CardinalityType
<1>2. /\ Cardinality(S \ {r}) = IF r \in S THEN Cardinality(S) - 1
                                ELSE Cardinality(S)
      /\ Cardinality(T \ {r}) = IF r \in T THEN Cardinality(T) - 1
                                ELSE Cardinality(T)
  BY FS_RemoveElement
<1>3. r \in S => Cardinality(S) # 0
  BY FS_EmptySet
<1>4. Cardinality(T \ {r}) = Cardinality(S \ {r})
  OBVIOUS
<1>5. Cardinality(T) = Cardinality(T \ {r}) + (IF r \in T THEN 1 ELSE 0)
  BY <1>1, <1>2
<1>6. QED
  BY <1>1, <1>2, <1>3, <1>4, <1>5

\* Without cancellations and resets, the balancer's load of a provider is the
\* number of calls under way on it, for any number of concurrent tasks.
THEOREM LoadAccounted ==
  ASSUME ~Cancellation, ~AdminReset
  PROVE  Spec => []LoadIsInFlight
<1>1. Init => LoadIsInFlight
  <2>1. Init => \A p \in Provider : InFlight(p) = {}
    BY DEF Init, InFlight, Calling, Admittance
  <2>2. QED
    BY <2>1, FS_EmptySet DEF Init, LoadIsInFlight
<1>2. ASSUME Inv, Inv', LoadIsInFlight, [Next]_vars PROVE LoadIsInFlight'
  <2>1. CASE SameCount
    BY <1>2, <2>1 DEF SameCount, LoadIsInFlight
  <2>2. ASSUME NEW r \in Request, Recounted(r) PROVE LoadIsInFlight'
    <3> SUFFICES ASSUME NEW p \in Provider
                 PROVE  load'[p] = Cardinality(InFlight(p)')
      BY DEF LoadIsInFlight
    <3>1. IsFiniteSet(InFlight(p)) /\ IsFiniteSet(InFlight(p)')
      BY CallsFinite, RouterAssumption, FS_Subset DEF InFlight
    <3>2. InFlight(p)' \ {r} = InFlight(p) \ {r}
      BY <2>2 DEF Recounted
    <3>3. load[p] = Cardinality(InFlight(p))
      BY <1>2 DEF LoadIsInFlight
    <3>4. QED
      BY <2>2, <3>1, <3>2, <3>3, RecountedCardinality DEF Recounted
  <2>3. QED
    BY <1>2, <2>1, <2>2, StepCounts
<1>3. QED
  BY <1>1, <1>2, Invariant, PTL DEF Spec

\* Cancelled calls only make a provider look busier than it is.
THEOREM LoadCovers ==
  ASSUME ~AdminReset
  PROVE  Spec => []LoadCoversInFlight
<1>1. Init => LoadCoversInFlight
  <2>1. Init => \A p \in Provider : InFlight(p) = {}
    BY DEF Init, InFlight, Calling, Admittance
  <2>2. Cardinality({}) = 0
    BY FS_EmptySet
  <2>3. Init => \A p \in Provider : load[p] = 0
    BY DEF Init
  <2>4. QED
    BY <2>1, <2>2, <2>3 DEF LoadCoversInFlight
<1>2. ASSUME Inv, Inv', LoadCoversInFlight, [Next]_vars
      PROVE  LoadCoversInFlight'
  <2>0. \A p \in Provider : IsFiniteSet(InFlight(p)) /\ IsFiniteSet(InFlight(p)')
    <3>1. \A p \in Provider : /\ InFlight(p) \in SUBSET Request
                              /\ InFlight(p)' \in SUBSET Request
      BY DEF InFlight
    <3>2. QED
      BY <3>1, RouterAssumption, FS_Subset
  <2>1. CASE SameCount
    BY <1>2, <2>1 DEF SameCount, LoadCoversInFlight
  <2>2. ASSUME NEW r \in Request, Recounted(r) PROVE LoadCoversInFlight'
    <3> SUFFICES ASSUME NEW p \in Provider
                 PROVE  load'[p] >= Cardinality(InFlight(p)')
      BY DEF LoadCoversInFlight
    <3>2. InFlight(p)' \ {r} = InFlight(p) \ {r}
      BY <2>2 DEF Recounted
    <3>3. load[p] >= Cardinality(InFlight(p)) /\ load[p] \in Nat
      BY <1>2 DEF LoadCoversInFlight, Inv, TypeOK
    <3>4. QED
      BY <2>0, <2>2, <3>2, <3>3, RecountedCardinality DEF Recounted
  <2>3. ASSUME NEW r \in Request, Abandoned(r) PROVE LoadCoversInFlight'
    <3> SUFFICES ASSUME NEW p \in Provider
                 PROVE  load'[p] >= Cardinality(InFlight(p)')
      BY DEF LoadCoversInFlight
    <3>1. InFlight(p)' \in SUBSET InFlight(p) /\ load'[p] = load[p]
      BY <2>3 DEF Abandoned
    <3>2. Cardinality(InFlight(p)') <= Cardinality(InFlight(p))
      BY <2>0, <3>1, FS_Subset
    <3>3. Cardinality(InFlight(p)') \in Nat /\ Cardinality(InFlight(p)) \in Nat
      BY <2>0, FS_CardinalityType
    <3>4. load[p] >= Cardinality(InFlight(p)) /\ load[p] \in Nat
      BY <1>2 DEF LoadCoversInFlight, Inv, TypeOK
    <3>5. QED
      BY <3>1, <3>2, <3>3, <3>4
  <2>4. QED
    BY <1>2, <2>1, <2>2, <2>3, StepCounts
<1>3. QED
  BY <1>1, <1>2, Invariant, PTL DEF Spec

-----------------------------------------------------------------------------
(* The probe slots                                                         *)

\* Without scheduler no task awaits a worker.
NoRemote == \A r \in Request : pc[r] # "remote"

\* What a step does to the slots of a circuit and to the calls that hold them.
SlotStep(p) ==
    \/ cb'[p].state # "half_open"
    \/ /\ cb'[p].state = cb[p].state /\ cb'[p].calls = cb[p].calls
       /\ BreakerCalls(p) \subseteq BreakerCalls(p)'
    \/ /\ CanExecute(cb[p]) /\ cb'[p] = Admitted(cb[p])
       /\ \E r \in Request : /\ r \notin BreakerCalls(p)
                             /\ BreakerCalls(p)' = BreakerCalls(p) \cup {r}

\* The loop takes a slot only together with a call that holds it, and gives a
\* call up only after its circuit has left the half-open phase.
LEMMA TryNextSlots ==
  ASSUME Inv, NEW r \in Request, NEW seq \in Seq(Attempt), NEW circuits, NEW l,
         TryNext(r, seq, circuits, l),
         \/ pc[r] \notin Admittance /\ circuits = cb
         \/ at[r] \in Provider /\ circuits = Failed(r)
  PROVE  \A p \in Provider : SlotStep(p)
<1> SUFFICES ASSUME NEW p \in Provider PROVE SlotStep(p)
  OBVIOUS
<1>1. /\ cb \in [Provider -> Circuit] /\ pc \in [Request -> Place]
      /\ at \in [Request -> Provider \cup {NoProvider}]
      /\ GoodCircuit(cb[p]) /\ DOMAIN circuits = Provider
  BY DEF Inv, TypeOK, CircuitsGood, Failed
<1>2. \/ cb'[p] = circuits[p]
      \/ CanExecute(circuits[p]) /\ cb'[p] = Admitted(circuits[p])
  <2>1. CASE cb' = circuits
    BY <2>1
  <2>2. CASE cb' # circuits
    <3>1. PICK q \in Provider :
             /\ CanExecute(circuits[q])
             /\ cb' = [circuits EXCEPT ![q] = Admitted(circuits[q])]
      BY <2>2, TryNextCases DEF StartCall
    <3>2. QED
      BY <1>1, <3>1
  <2>3. QED
    BY <2>1, <2>2
<1>3. CASE r \in BreakerCalls(p)
  <2>1. pc[r] \in Admittance /\ at[r] = p
    BY <1>3 DEF BreakerCalls
  <2>2. circuits[p] = AfterFailure(cb[p])
    BY <1>1, <2>1 DEF Failed
  <2>3. cb'[p] = AfterFailure(cb[p])
    BY <1>1, <1>2, <2>2, FailThenAdmit
  <2>4. QED
    BY <1>1, <2>3, AfterFailureGood DEF SlotStep
<1>4. CASE r \notin BreakerCalls(p) /\ circuits[p] # cb[p]
  <2>1. circuits[p] = AfterFailure(cb[p])
    BY <1>1, <1>4 DEF Failed
  <2>2. cb'[p] = AfterFailure(cb[p])
    BY <1>1, <1>2, <2>1, FailThenAdmit
  <2>3. QED
    BY <1>1, <2>2, AfterFailureGood DEF SlotStep
<1>5. CASE r \notin BreakerCalls(p) /\ circuits[p] = cb[p]
  <2>1. CASE cb' = circuits /\ Leave(r)
    <3>1. BreakerCalls(p) \subseteq BreakerCalls(p)'
      BY <1>1, <1>5, <2>1 DEF Leave, BreakerCalls
    <3>2. QED
      BY <1>5, <2>1, <3>1 DEF SlotStep
  <2>2. CASE \E q \in Provider, i \in 1..Len(seq) :
               /\ CanExecute(circuits[q])
               /\ StartCall(r, q, SubSeq(seq, i + 1, Len(seq)), circuits, l)
    <3>1. PICK q \in Provider :
             /\ CanExecute(circuits[q])
             /\ cb' = [circuits EXCEPT ![q] = Admitted(circuits[q])]
             /\ \/ pc' = [pc EXCEPT ![r] = "remote"]
                \/ pc' = [pc EXCEPT ![r] = "local"]
             /\ at' = [at EXCEPT ![r] = q]
      BY <2>2 DEF StartCall
    <3>2. CASE q = p
      <4>1. BreakerCalls(p)' = BreakerCalls(p) \cup {r}
        BY <1>1, <1>5, <3>1, <3>2 DEF BreakerCalls, Admittance
      <4>2. CanExecute(cb[p]) /\ cb'[p] = Admitted(cb[p])
        BY <1>1, <1>5, <3>1, <3>2
      <4>3. QED
        BY <1>5, <4>1, <4>2 DEF SlotStep
    <3>3. CASE q # p
      <4>1. BreakerCalls(p)' = BreakerCalls(p)
        BY <1>1, <1>5, <3>1, <3>3 DEF BreakerCalls
      <4>2. cb'[p] = cb[p]
        BY <1>1, <1>5, <3>1, <3>3
      <4>3. QED
        BY <4>1, <4>2 DEF SlotStep
    <3>4. QED
      BY <3>2, <3>3
  <2>3. QED
    BY <2>1, <2>2, TryNextCases
<1>6. QED
  BY <1>3, <1>4, <1>5

\* The outcome of a call ends the half-open phase of its circuit.
LEMMA OutcomeSlots ==
  ASSUME Inv, NEW r \in Request, at[r] \in Provider,
         \/ cb' = [cb EXCEPT ![at[r]] = AfterSuccess(cb[at[r]])]
         \/ cb' = [cb EXCEPT ![at[r]] = AfterFailure(cb[at[r]])],
         \A s \in Request \ {r} : pc'[s] = pc[s] /\ at'[s] = at[s]
  PROVE  \A p \in Provider : SlotStep(p)
<1> SUFFICES ASSUME NEW p \in Provider PROVE SlotStep(p)
  OBVIOUS
<1>1. cb \in [Provider -> Circuit] /\ GoodCircuit(cb[p])
  BY DEF Inv, TypeOK, CircuitsGood
<1>2. CASE p = at[r]
  <2>1. CASE cb'[p] = AfterFailure(cb[p])
    BY <1>1, <2>1, AfterFailureGood DEF SlotStep
  <2>2. CASE cb'[p] = AfterSuccess(cb[p])
    <3>1. AfterSuccess(cb[p]).state # "half_open"
      <4>1. cb[p] \in Circuit /\ cb[p].state \in CircuitState
        BY <1>1 DEF Circuit
      <4>2. /\ CleanOldFailures(cb[p]).state = cb[p].state
            /\ ToClosed(cb[p]).state = "closed"
        BY <1>1, <4>1, CleanedFailures, Transitions DEF GoodCircuit
      <4>3. QED
        BY <4>1, <4>2 DEF AfterSuccess, CircuitState
    <3>2. QED
      BY <2>2, <3>1 DEF SlotStep
  <2>3. QED
    BY <1>1, <1>2, <2>1, <2>2
<1>3. CASE p # at[r]
  <2>1. cb'[p] = cb[p]
    BY <1>1, <1>3
  <2>2. BreakerCalls(p) \subseteq BreakerCalls(p)'
    BY <1>3 DEF BreakerCalls
  <2>3. QED
    BY <2>1, <2>2 DEF SlotStep
<1>4. QED
  BY <1>2, <1>3

\* Every step, when no call is cancelled or answered by a worker.
LEMMA StepSlots ==
  ASSUME Inv, NoRemote, [Next]_vars, ~Cancellation
  PROVE  \A p \in Provider : SlotStep(p)
<1>0. /\ pc \in [Request -> Place] /\ cb \in [Provider -> Circuit]
      /\ at \in [Request -> Provider \cup {NoProvider}]
  BY DEF Inv, TypeOK
<1>1. ASSUME NEW r \in Request,
             Arrive(r) \/ ArriveFim(r) \/ FimAnswered(r) \/ CacheHit(r)
               \/ Stored(r) \/ FirstToken(r)
      PROVE  \A p \in Provider : SlotStep(p)
  <2>1. cb' = cb
    BY <1>1 DEF Arrive, ArriveFim, FimAnswered, CacheHit, Stored, FirstToken
  <2>2. \A p \in Provider : BreakerCalls(p) \subseteq BreakerCalls(p)'
    BY <1>0, <1>1 DEF Arrive, ArriveFim, FimAnswered, CacheHit, Stored,
                      FirstToken, Leave, BreakerCalls, Admittance
  <2>3. QED
    BY <2>1, <2>2 DEF SlotStep
<1>2. ASSUME NEW r \in Request, RemoteAnswered(r) \/ RemoteDeclined(r) PROVE FALSE
  BY <1>2 DEF RemoteAnswered, RemoteDeclined, NoRemote
<1>3. ASSUME NEW r \in Request, CacheMiss(r)
      PROVE  \A p \in Provider : SlotStep(p)
  <2>1. BuildSequence[req[r].strategy][req[r].provider] \in Seq(Attempt)
    BY SequenceType DEF Inv, TypeOK, RequestSpec
  <2>2. pc[r] \notin Admittance
    BY <1>3 DEF CacheMiss, Admittance
  <2>3. QED
    BY <1>3, <2>1, <2>2, TryNextSlots DEF CacheMiss
<1>4. ASSUME NEW r \in Request, CallFails(r)
      PROVE  \A p \in Provider : SlotStep(p)
  <2>1. at[r] \in Provider /\ todo[r] \in Seq(Attempt)
    BY <1>4 DEF Inv, TypeOK, CallsNamed, CallFails, Calling, Admittance
  <2>2. QED
    BY <1>4, <2>1, TryNextSlots DEF CallFails
<1>5. ASSUME NEW r \in Request, CallSucceeds(r) \/ StreamBreaks(r)
      PROVE  \A p \in Provider : SlotStep(p)
  <2>1. at[r] \in Provider
    BY <1>5 DEF Inv, CallsNamed, CallSucceeds, StreamBreaks, Calling, Admittance
  <2>2. \/ cb' = [cb EXCEPT ![at[r]] = AfterSuccess(cb[at[r]])]
        \/ cb' = [cb EXCEPT ![at[r]] = AfterFailure(cb[at[r]])]
    BY <1>5 DEF CallSucceeds, StreamBreaks, Failed
  <2>3. \A s \in Request \ {r} : pc'[s] = pc[s] /\ at'[s] = at[s]
    BY <1>0, <1>5 DEF CallSucceeds, StreamBreaks, Leave
  <2>4. QED
    BY <2>1, <2>2, <2>3, OutcomeSlots
<1>6. ASSUME NEW r \in Request, Cancel(r) PROVE FALSE
  BY <1>6 DEF Cancel
<1>7. CASE ResetLoadStats \/ UNCHANGED vars
  BY <1>7 DEF ResetLoadStats, vars, SlotStep, BreakerCalls
<1>8. CASE ResetMetrics
  BY <1>8 DEF ResetMetrics, FreshCircuit, SlotStep
<1>9. CASE Tick
  <2>1. \A p \in Provider : cb'[p].state = cb[p].state /\ cb'[p].calls = cb[p].calls
    BY <1>9, AgedGood DEF Tick, Inv, CircuitsGood
  <2>2. QED
    BY <1>9, <2>1 DEF Tick, SlotStep, BreakerCalls
<1>10. QED
  BY <1>1, <1>2, <1>3, <1>4, <1>5, <1>6, <1>7, <1>8, <1>9 DEF Next, Progress

\* Without scheduler no step goes to a worker.
LEMMA NoRemoteStep ==
  ASSUME Inv, NoRemote, [Next]_vars, Distributed = {}
  PROVE  NoRemote'
<1>0. pc \in [Request -> Place]
  BY DEF Inv, TypeOK
<1>1. ASSUME NEW r \in Request, NEW seq \in Seq(Attempt), NEW circuits, NEW l,
             TryNext(r, seq, circuits, l)
      PROVE  NoRemote'
  <2>1. pc' = [pc EXCEPT ![r] = "idle"] \/ pc' = [pc EXCEPT ![r] = "local"]
    BY <1>1, TryNextCases DEF StartCall, Leave
  <2>2. QED
    BY <1>0, <2>1 DEF NoRemote
<1>2. ASSUME NEW r \in Request, CacheMiss(r) PROVE NoRemote'
  <2>1. BuildSequence[req[r].strategy][req[r].provider] \in Seq(Attempt)
    BY SequenceType DEF Inv, TypeOK, RequestSpec
  <2>2. QED
    BY <1>1, <1>2, <2>1 DEF CacheMiss
<1>3. ASSUME NEW r \in Request, CallFails(r) PROVE NoRemote'
  <2>1. todo[r] \in Seq(Attempt)
    BY DEF Inv, TypeOK
  <2>2. QED
    BY <1>1, <1>3, <2>1 DEF CallFails
<1>4. ASSUME NEW r \in Request,
             Arrive(r) \/ ArriveFim(r) \/ FimAnswered(r) \/ CacheHit(r)
               \/ Stored(r) \/ FirstToken(r) \/ RemoteAnswered(r)
               \/ RemoteDeclined(r) \/ CallSucceeds(r) \/ StreamBreaks(r)
               \/ Cancel(r)
      PROVE  NoRemote'
  <2>1. \E place \in Place \ {"remote"} : pc' = [pc EXCEPT ![r] = place]
    BY <1>4 DEF Arrive, ArriveFim, FimAnswered, CacheHit, Stored, FirstToken,
       RemoteAnswered, RemoteDeclined, CallSucceeds, StreamBreaks, Cancel,
       Leave, Place
  <2>2. QED
    BY <1>0, <2>1 DEF NoRemote
<1>5. CASE ResetLoadStats \/ ResetMetrics \/ Tick \/ UNCHANGED vars
  BY <1>5 DEF ResetLoadStats, ResetMetrics, Tick, vars, NoRemote
<1>6. QED
  BY <1>2, <1>3, <1>4, <1>5 DEF Next, Progress

\* Without cancellations and workers every probe slot is held by a call under
\* way, even if operators reset the metrics at any moment: the half-open phase
\* always has somebody to end it.
THEOREM ProbeSlotsAccounted ==
  ASSUME ~Cancellation, Distributed = {}
  PROVE  Spec => []ProbeSlotsHeld
<1>1. Init => NoRemote /\ ProbeSlotsHeld
  BY DEF Init, NoRemote, ProbeSlotsHeld, FreshCircuit
<1>2. ASSUME Inv, Inv', NoRemote, ProbeSlotsHeld, [Next]_vars
      PROVE  NoRemote' /\ ProbeSlotsHeld'
  <2>1. ProbeSlotsHeld'
    <3> SUFFICES ASSUME NEW p \in Provider, cb'[p].state = "half_open"
                 PROVE  /\ cb'[p].calls >= 1
                        /\ cb'[p].calls <= Cardinality(BreakerCalls(p)')
      BY DEF ProbeSlotsHeld
    <3>1. cb'[p].calls >= 1
      BY <1>2 DEF Inv, CircuitsGood, GoodCircuit
    <3>2. IsFiniteSet(BreakerCalls(p)) /\ IsFiniteSet(BreakerCalls(p)')
      <4>1. BreakerCalls(p) \in SUBSET Request /\ BreakerCalls(p)' \in SUBSET Request
        BY DEF BreakerCalls
      <4>2. QED
        BY <4>1, RouterAssumption, FS_Subset
    <3>3. /\ Cardinality(BreakerCalls(p)) \in Nat
          /\ Cardinality(BreakerCalls(p)') \in Nat
      BY <3>2, FS_CardinalityType
    <3>4. /\ cb[p] \in Circuit /\ cb[p].calls \in Nat
          /\ cb[p].state \in CircuitState /\ GoodCircuit(cb[p])
      BY <1>2 DEF Inv, CircuitsGood, GoodCircuit, Circuit
    <3>5. CASE /\ cb'[p].state = cb[p].state /\ cb'[p].calls = cb[p].calls
               /\ BreakerCalls(p) \subseteq BreakerCalls(p)'
      <4>1. Cardinality(BreakerCalls(p)) <= Cardinality(BreakerCalls(p)')
        BY <3>2, <3>5, FS_Subset
      <4>2. cb[p].calls <= Cardinality(BreakerCalls(p))
        BY <1>2, <3>5 DEF ProbeSlotsHeld
      <4>3. QED
        BY <3>1, <3>3, <3>4, <3>5, <4>1, <4>2
    <3>6. CASE /\ CanExecute(cb[p]) /\ cb'[p] = Admitted(cb[p])
               /\ \E r \in Request : /\ r \notin BreakerCalls(p)
                                     /\ BreakerCalls(p)' = BreakerCalls(p) \cup {r}
      <4>1. Cardinality(BreakerCalls(p)') = Cardinality(BreakerCalls(p)) + 1
        BY <3>2, <3>6, FS_AddElement
      <4>2. CASE cb[p].state = "half_open"
        <5>1. cb'[p].calls = cb[p].calls + 1
          BY <3>4, <3>6, <4>2 DEF Admitted, Circuit
        <5>2. cb[p].calls <= Cardinality(BreakerCalls(p))
          BY <1>2, <4>2 DEF ProbeSlotsHeld
        <5>3. QED
          BY <3>1, <3>3, <3>4, <4>1, <5>1, <5>2
      <4>3. CASE cb[p].state = "open"
        <5>1. cb'[p] = [ToHalfOpen(cb[p]) EXCEPT !.calls = 1]
          BY <3>6, <4>3 DEF Admitted
        <5>2. cb'[p].calls = 1
          BY <3>4, <5>1, Transitions
        <5>3. QED
          BY <3>1, <3>3, <4>1, <5>2
      <4>4. CASE cb[p].state = "closed"
        BY <3>6, <4>4 DEF Admitted
      <4>5. QED
        BY <3>4, <4>2, <4>3, <4>4 DEF CircuitState
    <3>7. QED
      BY <1>2, <3>5, <3>6, StepSlots DEF SlotStep
  <2>2. QED
    BY <1>2, <2>1, NoRemoteStep
<1>3. QED
  BY <1>1, <1>2, Invariant, PTL DEF Spec
=============================================================================
