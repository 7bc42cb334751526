---------------------------- MODULE AgentBreaker ----------------------------
(***************************************************************************)
(* core/mascarade/orchestrator/circuit_breaker.py: the circuit of one      *)
(* agent, as a record, and what each call on the breaker does to it.  It   *)
(* is not the router's breaker: it counts consecutive failures without a   *)
(* window, needs several successes to close, and admits every caller while *)
(* it is half open.                                                        *)
(*                                                                         *)
(* age is the time since last_failure_time, in ticks; it is only compared  *)
(* with the timeout and need not grow past it.                             *)
(***************************************************************************)
EXTENDS Integers

CONSTANTS
    FailureThreshold,  \* failure_threshold: failures in a row that open
    SuccessThreshold,  \* success_threshold: half-open successes that close
    Timeout            \* timeout, in ticks

ASSUME AgentBreakerAssumption ==
    /\ FailureThreshold \in Nat \ {0}
    /\ SuccessThreshold \in Nat \ {0}
    /\ Timeout \in Nat \ {0}

-----------------------------------------------------------------------------
\* age of a breaker that no failure was reported to.
Never == -1

AgentCircuit == [state     : {"closed", "open", "half_open"},
                 failures  : 0..FailureThreshold,
                 successes : 0..SuccessThreshold,
                 age       : {Never} \cup 0..Timeout]

FreshBreaker == [state |-> "closed", failures |-> 0, successes |-> 0, age |-> Never]

ToOpen(b) == [b EXCEPT !.state = "open", !.successes = 0]

ToHalfOpen(b) == [b EXCEPT !.state = "half_open", !.successes = 0, !.failures = 0]

ToClosed(b) == [b EXCEPT !.state = "closed", !.failures = 0, !.successes = 0]

-----------------------------------------------------------------------------
(* can_execute.  A True answer of an open circuit half-opens it; nothing   *)
(* counts the executions that are then let through.                        *)

Rested(b) == b.age # Never /\ b.age >= Timeout

CanExecute(b) == b.state \in {"closed", "half_open"} \/ Rested(b)

Admitted(b) == IF b.state = "open" THEN ToHalfOpen(b) ELSE b

-----------------------------------------------------------------------------
(* record_success and record_failure.  An open circuit ignores a success   *)
(* and starts its timeout again at a failure.                              *)

AfterSuccess(b) ==
    CASE b.state = "half_open" ->
           LET counted == [b EXCEPT !.successes = b.successes + 1]
           IN  IF counted.successes >= SuccessThreshold
               THEN ToClosed(counted) ELSE counted
      [] b.state = "closed" -> [b EXCEPT !.failures = 0]
      [] b.state = "open"   -> b

\* Fault: the failures of an open circuit are counted too.
AfterFailureCountingOn(b) ==
    LET failed == [b EXCEPT !.age = 0]
        counted == [failed EXCEPT !.failures = failed.failures + 1]
    IN  CASE b.state = "half_open" -> ToOpen(failed)
          [] b.state = "closed"    ->
               IF counted.failures >= FailureThreshold THEN ToOpen(counted) ELSE counted
          [] b.state = "open"      -> counted

AfterFailure(b) ==
    LET failed == [b EXCEPT !.age = 0]
    IN  CASE b.state = "half_open" -> ToOpen(failed)
          [] b.state = "closed"    ->
               LET counted == [failed EXCEPT !.failures = failed.failures + 1]
               IN  IF counted.failures >= FailureThreshold
                   THEN ToOpen(counted) ELSE counted
          [] b.state = "open"      -> failed

\* One tick of the clock that time.time() reads.
Aged(b) == [b EXCEPT !.age = IF b.age = Never \/ b.age = Timeout
                             THEN b.age ELSE b.age + 1]
=============================================================================
