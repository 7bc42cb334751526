-------------------------------- MODULE Router --------------------------------
(***************************************************************************)
(* core/mascarade/router: Router.send, Router.stream and                   *)
(* Router.fill_in_middle, run by several asyncio tasks at once over one    *)
(* circuit breaker (router/circuit_breaker.py), one load balancer          *)
(* (load_balancer/balancer.py) and the fallback sequence                   *)
(* (router/fallback.py).                                                   *)
(*                                                                         *)
(* A task is interrupted only where it awaits: at cache.retrieve, at the   *)
(* call to a worker or a provider, at a yield of stream(), at cache.store. *)
(* Everything between two awaits is one action.  In particular the choice  *)
(* of a provider, the question to the breaker and request_started happen   *)
(* with no other task in between, and a failure is recorded in the same    *)
(* step that starts the next attempt of the sequence.                      *)
(***************************************************************************)
EXTENDS CircuitBreaker, SequencesExt

CONSTANTS
    Provider,      \* the names registered in Router._providers
    NoProvider,    \* None, as a provider name
    Request,       \* the asyncio tasks that run the router's methods
    Traffic,       \* the requests clients send, a set of RequestSpec records
    Domain,        \* the domains a request can name or be detected to have
    NoDomain,      \* None, as a domain
    HealthyIn,     \* HealthyIn[d]: provider names of the healthy models of d
    Benchmarked,   \* Benchmarked[d]: providers that lead d's benchmarks
    Quality,       \* quality_rank of each provider
    Slowness,      \* speed_rank of each provider
    Ollama,        \* the provider named "ollama", or NoProvider
    Distributed,   \* local providers whose calls the scheduler may take over
    MaxAttempts,   \* FallbackState.max_attempts
    Cancellation,  \* may a task be cancelled while it awaits?
    AdminReset,    \* may an operator call the reset endpoints?
    MaxLost        \* bound: load a provider may keep from cancelled calls

Strategy == {"best", "cheapest", "fastest", "domain", "specific"}

Mode == {"send", "stream", "fim"}

RequestSpec == [mode     : Mode,
                strategy : Strategy,
                provider : Provider \cup {NoProvider},
                domain   : Domain \cup {NoDomain}]

ASSUME RouterAssumption ==
    /\ IsFiniteSet(Provider) /\ Provider # {}
    /\ IsFiniteSet(Request)
    /\ NoProvider \notin Provider
    /\ NoDomain \notin Domain
    /\ Traffic \subseteq RequestSpec
    /\ Benchmarked \in [Domain -> SUBSET Provider]
    /\ Quality \in [Provider -> Nat]
    /\ Slowness \in [Provider -> Nat]
    /\ Ollama \in Provider \cup {NoProvider}
    /\ Distributed \subseteq Provider
    /\ MaxAttempts \in Nat \ {0}
    /\ Cancellation \in BOOLEAN
    /\ AdminReset \in BOOLEAN
    /\ MaxLost \in Nat

VARIABLES
    cb,       \* cb[p]: the circuit of p
    load,     \* load[p]: ProviderStats.current_load (= pending_requests)
    recency,  \* recency[p]: rank of last_used, 1 for the longest unused
    pc,       \* pc[r]: where the task awaits
    req,      \* req[r]: the request it serves
    todo,     \* todo[r]: what is left of its fallback sequence
    at        \* at[r]: the provider its current attempt started on

vars == <<cb, load, recency, pc, req, todo, at>>

NoRequest == [mode |-> "send", strategy |-> "best",
              provider |-> NoProvider, domain |-> NoDomain]

Attempt == [strategy : Strategy, provider : Provider \cup {NoProvider}]

Place == {"idle", "lookup", "remote", "local", "streaming", "fim", "store"}

\* The awaits of a call that the breaker admitted ...
Admittance == {"remote", "local", "streaming"}

\* ... and of a call that the load balancer counts.
Calling == Admittance \cup {"fim"}

BreakerCalls(p) == {r \in Request : pc[r] \in Admittance /\ at[r] = p}

InFlight(p) == {r \in Request : pc[r] \in Calling /\ at[r] = p}

-----------------------------------------------------------------------------
(* _select_candidates and _select_provider.  Picks is the set of providers *)
(* the selection may return; it is empty when the selection raises         *)
(* (ValueError for an unknown provider, min/max of an empty list).  Costs  *)
(* are measured while the system runs, so "cheapest" may be any provider   *)
(* in scope.                                                               *)

\* A domain without a healthy model filters nothing; otherwise only the
\* providers of its healthy models remain, even if none is registered.
InScope(d) ==
    IF d = NoDomain THEN Provider
    ELSE IF HealthyIn[d] = {} THEN Provider ELSE Provider \cap HealthyIn[d]

BestOf(S) == {p \in S : \A q \in S : Quality[q] <= Quality[p]}

FastestOf(S) == {p \in S : \A q \in S : Slowness[p] <= Slowness[q]}

NotOpen(S, circuits) == {p \in S : circuits[p].state # "open"}

HealthyOrAll(S, circuits) ==
    IF NotOpen(S, circuits) = {} THEN S ELSE NotOpen(S, circuits)

Candidates(s, p, d, circuits) ==
    LET scope == InScope(d)
    IN  CASE s = "specific" -> Provider \cap {p}
          [] s = "cheapest" -> scope
          [] s = "domain"   -> IF Ollama \in scope THEN {Ollama}
                               ELSE BestOf(scope)
          [] s = "fastest"  -> FastestOf(scope)
          [] s = "best"     ->
               IF d # NoDomain /\ Benchmarked[d] # {} THEN Benchmarked[d]
               ELSE BestOf(HealthyOrAll(scope, circuits))

LongestUnused(S) == {p \in S : \A q \in S : recency[p] <= recency[q]}

Picks(attempt, d, circuits) ==
    LET C == Candidates(attempt.strategy, attempt.provider, d, circuits)
    IN  IF attempt.strategy = "cheapest" THEN C ELSE LongestUnused(C)

-----------------------------------------------------------------------------
(* FallbackState.build_sequence                                            *)

FallbackStrategies == <<"best", "cheapest", "fastest", "domain">>

BuildSequence == [s \in Strategy |-> [p \in Provider \cup {NoProvider} |->
    IF s = "specific" /\ p # NoProvider
    THEN <<[strategy |-> s, provider |-> p]>>
    ELSE LET Plain(fs) == [strategy |-> fs, provider |-> NoProvider]
             others == IF s = "specific" THEN FallbackStrategies
                       ELSE RemoveAt(FallbackStrategies,
                              CHOOSE i \in 1..4 : FallbackStrategies[i] = s)
             named  == SetToSeq(Provider \ {p})
             full   == <<[strategy |-> s, provider |-> p]>>
                           \o [i \in DOMAIN others |-> Plain(others[i])]
                           \o [i \in DOMAIN named |->
                                 [strategy |-> s, provider |-> named[i]]]
         IN  SubSeq(full, 1, IF Len(full) < MaxAttempts THEN Len(full)
                             ELSE MaxAttempts)]]

Strict(r) == req[r].strategy = "specific" /\ req[r].provider # NoProvider

-----------------------------------------------------------------------------
(* LoadBalancer.request_started and request_completed                      *)

Started(l, p) == [l EXCEPT ![p] = l[p] + 1]

\* Fault: pending_requests and current_load share a counter, without a floor.
CompletedTwice(l, p) == [l EXCEPT ![p] = l[p] - 2]

Completed(l, p) == [l EXCEPT ![p] = IF l[p] > 0 THEN l[p] - 1 ELSE 0]

MostRecent(p) ==
    [q \in Provider |->
        CASE q = p                    -> Cardinality(Provider)
          [] recency[q] > recency[p]  -> recency[q] - 1
          [] OTHER                    -> recency[q]]

-----------------------------------------------------------------------------
(* The loop over the fallback sequence, up to its next await.              *)

\* The method returns or raises: the task takes no further part.
Leave(r) ==
    /\ pc' = [pc EXCEPT ![r] = "idle"]
    /\ req' = [req EXCEPT ![r] = NoRequest]
    /\ todo' = [todo EXCEPT ![r] = <<>>]
    /\ at' = [at EXCEPT ![r] = NoProvider]

\* can_execute said yes: count the call and await the worker or the provider.
StartCall(r, p, rest, circuits, l) ==
    /\ cb' = [circuits EXCEPT ![p] = Admitted(circuits[p])]
    /\ load' = Started(l, p)
    /\ recency' = MostRecent(p)
    /\ pc' = [pc EXCEPT ![r] = IF req[r].mode = "send" /\ p \in Distributed
                               THEN "remote" ELSE "local"]
    /\ todo' = [todo EXCEPT ![r] = rest]
    /\ at' = [at EXCEPT ![r] = p]
    /\ UNCHANGED req

\* A send or a stream goes on with the attempts in seq: those the breaker
\* refuses are skipped, the first one it admits is started.  When all are
\* refused, or the selection raises, the method raises.
TryNext(r, seq, circuits, l) ==
    \E i \in 1..(Len(seq) + 1) :
        /\ \A j \in 1..(i - 1) :
              \E p \in Picks(seq[j], req[r].domain, circuits) :
                  ~CanExecute(circuits[p])
        /\ \/ /\ \/ i = Len(seq) + 1
                 \/ i <= Len(seq) /\ Picks(seq[i], req[r].domain, circuits) = {}
              /\ cb' = circuits
              /\ load' = l
              /\ UNCHANGED recency
              /\ Leave(r)
           \/ /\ i <= Len(seq)
              /\ \E p \in Picks(seq[i], req[r].domain, circuits) :
                    /\ CanExecute(circuits[p])
                    /\ StartCall(r, p, SubSeq(seq, i + 1, Len(seq)), circuits, l)

-----------------------------------------------------------------------------
(* The steps of a task                                                     *)

\* A client calls send or stream, which awaits cache.retrieve.
Arrive(r) ==
    /\ pc[r] = "idle"
    /\ \E q \in Traffic :
          /\ q.mode # "fim"
          /\ req' = [req EXCEPT ![r] = q]
    /\ pc' = [pc EXCEPT ![r] = "lookup"]
    /\ UNCHANGED <<cb, load, recency, todo, at>>

\* A client calls fill_in_middle on a provider: no cache, no breaker.
ArriveFim(r) ==
    /\ pc[r] = "idle"
    /\ \E q \in Traffic :
          /\ q.mode = "fim" /\ q.provider \in Provider
          /\ req' = [req EXCEPT ![r] = q]
          /\ load' = Started(load, q.provider)
          /\ recency' = MostRecent(q.provider)
          /\ at' = [at EXCEPT ![r] = q.provider]
    /\ pc' = [pc EXCEPT ![r] = "fim"]
    /\ UNCHANGED <<cb, todo>>

\* fill_in_middle returns the content, or re-raises the provider's exception.
FimAnswered(r) ==
    /\ pc[r] = "fim"
    /\ load' = Completed(load, at[r])
    /\ Leave(r)
    /\ UNCHANGED <<cb, recency>>

\* A cached response answers the request.
CacheHit(r) ==
    /\ pc[r] = "lookup"
    /\ Leave(r)
    /\ UNCHANGED <<cb, load, recency>>

\* No cached response, or one of another provider than the strict one.
CacheMiss(r) ==
    /\ pc[r] = "lookup"
    /\ TryNext(r, BuildSequence[req[r].strategy][req[r].provider], cb, load)

\* Fault: the balancer is told twice.
RemoteAnsweredTwice(r) ==
    /\ pc[r] = "remote"
    /\ load' = Completed(Completed(load, at[r]), at[r])
    /\ Leave(r)
    /\ UNCHANGED <<cb, recency>>

\* _try_distributed_send returned a response: the balancer is told, the
\* breaker is not.
RemoteAnswered(r) ==
    /\ pc[r] = "remote"
    /\ load' = Completed(load, at[r])
    /\ Leave(r)
    /\ UNCHANGED <<cb, recency>>

\* No suitable worker, or the worker failed: the local provider is called.
RemoteDeclined(r) ==
    /\ pc[r] = "remote"
    /\ pc' = [pc EXCEPT ![r] = "local"]
    /\ UNCHANGED <<cb, load, recency, req, todo, at>>

\* The first token of a stream is handed to the consumer.
FirstToken(r) ==
    /\ pc[r] = "local"
    /\ req[r].mode = "stream"
    /\ pc' = [pc EXCEPT ![r] = "streaming"]
    /\ UNCHANGED <<cb, load, recency, req, todo, at>>

\* The provider answered, or its stream ended: _track_success.  A send that
\* is not strict goes on to await cache.store.
CallSucceeds(r) ==
    /\ pc[r] \in {"local", "streaming"}
    /\ cb' = [cb EXCEPT ![at[r]] = AfterSuccess(cb[at[r]])]
    /\ load' = Completed(load, at[r])
    /\ IF req[r].mode = "send" /\ ~Strict(r)
       THEN /\ pc' = [pc EXCEPT ![r] = "store"]
            /\ todo' = [todo EXCEPT ![r] = <<>>]
            /\ at' = [at EXCEPT ![r] = NoProvider]
            /\ UNCHANGED req
       ELSE Leave(r)
    /\ UNCHANGED recency

\* The response is stored and returned.
Stored(r) ==
    /\ pc[r] = "store"
    /\ Leave(r)
    /\ UNCHANGED <<cb, load, recency>>

Failed(r) == [cb EXCEPT ![at[r]] = AfterFailure(cb[at[r]])]

\* Fault: the sequence starts again after every failure.
CallFailsAndRestarts(r) ==
    /\ pc[r] = "local"
    /\ TryNext(r, BuildSequence[req[r].strategy][req[r].provider],
               Failed(r), Completed(load, at[r]))

\* The provider raised, or a strict request was answered by another provider:
\* _track_failure, then the next attempt.
CallFails(r) ==
    /\ pc[r] = "local"
    /\ TryNext(r, todo[r], Failed(r), Completed(load, at[r]))

\* Fault: the exception is re-raised before it is tracked.
StreamBreaksUntracked(r) ==
    /\ pc[r] = "streaming"
    /\ Leave(r)
    /\ UNCHANGED <<cb, load, recency>>

\* The provider raised after the first token: _track_failure, then raise.
StreamBreaks(r) ==
    /\ pc[r] = "streaming"
    /\ cb' = Failed(r)
    /\ load' = Completed(load, at[r])
    /\ Leave(r)
    /\ UNCHANGED recency

\* The task is cancelled, or the consumer closes the generator: neither
\* CancelledError nor GeneratorExit is an Exception, so nothing is tracked.
Cancel(r) ==
    /\ Cancellation
    /\ pc[r] # "idle"
    /\ pc[r] \in Calling => load[at[r]] - Cardinality(InFlight(at[r])) < MaxLost
    /\ Leave(r)
    /\ UNCHANGED <<cb, load, recency>>

\* POST /load-balancer/reset
ResetLoadStats ==
    /\ AdminReset
    /\ load' = [p \in Provider |-> 0]
    /\ UNCHANGED <<cb, recency, pc, req, todo, at>>

\* Faults: the slots are given back but the phase goes on; the circuits close
\* but keep their failures.
ResetMetricsHalf ==
    /\ AdminReset
    /\ load' = [p \in Provider |-> 0]
    /\ cb' = [p \in Provider |-> [cb[p] EXCEPT !.calls = 0]]
    /\ UNCHANGED <<recency, pc, req, todo, at>>

ResetMetricsKeepingFailures ==
    /\ AdminReset
    /\ load' = [p \in Provider |-> 0]
    /\ cb' = [p \in Provider |->
                 [cb[p] EXCEPT !.state = "closed", !.calls = 0]]
    /\ UNCHANGED <<recency, pc, req, todo, at>>

\* POST /router/metrics/reset, after its await of cache.clear
ResetMetrics ==
    /\ AdminReset
    /\ load' = [p \in Provider |-> 0]
    /\ cb' = [p \in Provider |-> FreshCircuit]
    /\ UNCHANGED <<recency, pc, req, todo, at>>

Tick ==
    /\ cb' = [p \in Provider |-> Aged(cb[p])]
    /\ UNCHANGED <<load, recency, pc, req, todo, at>>

-----------------------------------------------------------------------------

Ranking == {f \in [Provider -> 1..Cardinality(Provider)] :
               \A p, q \in Provider : p # q => f[p] # f[q]}

Init ==
    /\ cb = [p \in Provider |-> FreshCircuit]
    /\ load = [p \in Provider |-> 0]
    /\ recency \in Ranking
    /\ pc = [r \in Request |-> "idle"]
    /\ req = [r \in Request |-> NoRequest]
    /\ todo = [r \in Request |-> <<>>]
    /\ at = [r \in Request |-> NoProvider]

\* What an admitted or accepted request does once its await is answered.
Progress(r) ==
    \/ CacheMiss(r) \/ CacheHit(r)
    \/ RemoteAnswered(r) \/ RemoteDeclined(r)
    \/ FirstToken(r) \/ CallSucceeds(r) \/ CallFails(r) \/ StreamBreaks(r)
    \/ Stored(r) \/ FimAnswered(r)

Next ==
    \/ \E r \in Request : Arrive(r) \/ ArriveFim(r) \/ Progress(r) \/ Cancel(r)
    \/ ResetLoadStats \/ ResetMetrics \/ Tick

Spec == Init /\ [][Next]_vars

\* Every await is answered (the HTTP clients have timeouts), time passes.
FairSpec ==
    /\ Spec
    /\ \A r \in Request : WF_vars(Progress(r))
    /\ WF_vars(Tick)

\* As FairSpec, and clients keep asking: an idle task is given a request again
\* and again, and not all of its requests are answered by the cache.
PersistentSpec ==
    /\ FairSpec
    /\ \A r \in Request : WF_vars(Arrive(r)) /\ SF_vars(CacheMiss(r))

-----------------------------------------------------------------------------
(* Correctness                                                             *)

TypeOK ==
    /\ cb \in [Provider -> Circuit]
    /\ load \in [Provider -> Nat]
    /\ recency \in [Provider -> 1..Cardinality(Provider)]
    /\ pc \in [Request -> Place]
    /\ req \in [Request -> RequestSpec]
    /\ todo \in [Request -> Seq(Attempt)]
    /\ at \in [Request -> Provider \cup {NoProvider}]

\* A closed circuit never sits on enough recent failures to be open: whatever
\* failures of concurrent calls come in and grow old, the threshold is checked
\* at each of them.
ClosedBelowThreshold ==
    \A p \in Provider :
        cb[p].state = "closed" => Cardinality(Recent(cb[p])) < Threshold

\* Every probe slot that a half-open circuit has given out is held by a call
\* still under way, so some call is bound to report and end the phase.
ProbeSlotsHeld ==
    \A p \in Provider :
        cb[p].state = "half_open" =>
            /\ cb[p].calls >= 1
            /\ cb[p].calls <= Cardinality(BreakerCalls(p))

\* The balancer's load of a provider is the number of calls under way on it.
LoadIsInFlight == \A p \in Provider : load[p] = Cardinality(InFlight(p))

\* The balancer never takes a busy provider for a less busy one.
LoadCoversInFlight == \A p \in Provider : load[p] >= Cardinality(InFlight(p))

\* A half-open circuit gives out at most half_open_max_calls slots, an open
\* one knows when it failed (or it could never recover) and holds no slot.
CircuitShape ==
    \A p \in Provider :
        /\ cb[p].calls <= HalfOpenMax
        /\ cb[p].state = "open" => cb[p].last # Never
        /\ cb[p].state # "half_open" => cb[p].calls = 0

\* The breaker implements the gate.
Gate == INSTANCE BreakerGate WITH
    gate   <- [p \in Provider |-> cb[p].state],
    rested <- [p \in Provider |-> IF cb[p].state = "open" THEN cb[p].last ELSE 0],
    probes <- [p \in Provider |-> cb[p].calls]

GateSpec == Gate!GateSpec

\* Every request is answered or refused.
RequestsEnd == \A r \in Request : pc[r] # "idle" ~> pc[r] = "idle"

\* No circuit stays half-open for ever.
HalfOpenEnds ==
    \A p \in Provider : cb[p].state = "half_open" ~> cb[p].state # "half_open"
=============================================================================
