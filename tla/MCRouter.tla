------------------------------ MODULE MCRouter ------------------------------
(***************************************************************************)
(* Values of Router's constants for TLC: two providers, of which the       *)
(* better one is also the slower one, so that "best" and "fastest" differ. *)
(***************************************************************************)
EXTENDS Router, TLC

CONSTANTS p1, p2, d1

MCQuality == p1 :> 2 @@ p2 :> 1
MCSlowness == p1 :> 2 @@ p2 :> 1

Asked(m, s, p, d) == [mode |-> m, strategy |-> s, provider |-> p, domain |-> d]

\* A blocking call by quality, a stream by speed, and a request in a domain
\* whose leader in the benchmarks is p2 and whose only healthy model belongs
\* to a provider that is not registered: after its first attempt, selection
\* raises.
CoreTraffic == {Asked("send", "best", NoProvider, NoDomain),
                Asked("stream", "fastest", NoProvider, NoDomain),
                Asked("send", "best", NoProvider, d1)}

LiveTraffic == {Asked("stream", "fastest", NoProvider, NoDomain),
                Asked("send", "specific", p1, NoDomain)}

\* Calls that the scheduler or fill_in_middle carries past the breaker.
BypassTraffic == {Asked("send", "specific", p1, NoDomain),
                  Asked("send", "best", NoProvider, NoDomain),
                  Asked("fim", "specific", p1, NoDomain)}

PinnedTraffic == {Asked("send", "specific", p1, NoDomain)}

Unregistered == "unregistered"
OnlyUnregistered == [d \in Domain |-> {Unregistered}]
BenchmarksLead == [d \in Domain |-> {p2}]

Symmetry == Permutations(Request)
=============================================================================
