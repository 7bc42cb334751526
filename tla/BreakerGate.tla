----------------------------- MODULE BreakerGate -----------------------------
(***************************************************************************)
(* What the router's circuit breaker promises its providers, without the   *)
(* failure window, the requests or the load balancer: a closed gate lets   *)
(* every call through and may trip at any moment; a tripped gate stays     *)
(* shut until RecoveryTimeout ticks have passed since the last failure it  *)
(* was told of; it then lets at most HalfOpenMax probes through, and only  *)
(* the outcome of a call decides whether it closes or trips again.  No     *)
(* gate goes from open to closed without a half-open phase in between,     *)
(* unless every circuit is reset.                                          *)
(***************************************************************************)
EXTENDS Integers

CONSTANTS Provider, RecoveryTimeout, HalfOpenMax

VARIABLES gate,    \* gate[p]: "closed", "open" or "half_open"
          rested,  \* rested[p]: ticks since the last failure of an open gate
          probes   \* probes[p]: calls let through since the gate half-opened

gateVars == <<gate, rested, probes>>

GateType ==
    /\ gate \in [Provider -> {"closed", "open", "half_open"}]
    /\ rested \in [Provider -> 0..RecoveryTimeout]
    /\ probes \in [Provider -> 0..HalfOpenMax]

GateInit ==
    /\ gate = [p \in Provider |-> "closed"]
    /\ rested = [p \in Provider |-> 0]
    /\ probes = [p \in Provider |-> 0]

Stay(p) == gate'[p] = gate[p] /\ rested'[p] = rested[p] /\ probes'[p] = probes[p]

Trip(p) ==
    gate'[p] = "open" /\ rested'[p] = 0 /\ probes'[p] = 0

Probe(p) ==
    /\ gate'[p] = "half_open"
    /\ rested'[p] = 0
    /\ \/ gate[p] = "open" /\ rested[p] = RecoveryTimeout /\ probes'[p] = 1
       \/ /\ gate[p] = "half_open"
          /\ probes[p] < HalfOpenMax
          /\ probes'[p] = probes[p] + 1

Close(p) ==
    /\ gate[p] = "half_open"
    /\ gate'[p] = "closed" /\ rested'[p] = 0 /\ probes'[p] = 0

\* One step of the router can report the failure of one provider and admit
\* a call to another: the gates move independently.
GateStep ==
    /\ \A p \in Provider : Stay(p) \/ Trip(p) \/ Probe(p) \/ Close(p)
    /\ GateType'

GateTick ==
    /\ rested' = [p \in Provider |->
                     IF gate[p] = "open" /\ rested[p] < RecoveryTimeout
                     THEN rested[p] + 1 ELSE rested[p]]
    /\ UNCHANGED <<gate, probes>>

GateReset ==
    /\ gate' = [p \in Provider |-> "closed"]
    /\ rested' = [p \in Provider |-> 0]
    /\ probes' = [p \in Provider |-> 0]

GateNext == GateStep \/ GateTick \/ GateReset

GateSpec == GateInit /\ [][GateNext]_gateVars
=============================================================================
