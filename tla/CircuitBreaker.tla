--------------------------- MODULE CircuitBreaker ---------------------------
(***************************************************************************)
(* core/mascarade/router/circuit_breaker.py: the circuit of one provider,  *)
(* as a record, and what each call on the breaker does to it.  The router  *)
(* holds one such record per provider and calls these operators inside its *)
(* own steps; the breaker has no task of its own.                          *)
(*                                                                         *)
(* Time is counted in ticks and every instant the breaker stores is kept   *)
(* as an age: the code only ever compares an instant with time.time(), so  *)
(* an age that has passed the longest limit it is compared with need not   *)
(* grow any more.                                                          *)
(***************************************************************************)
EXTENDS Integers, FiniteSets

CONSTANTS
    Threshold,        \* failure_threshold: failures in the window that open
    RecoveryTimeout,  \* recovery_timeout, in ticks
    Window,           \* window_size, in ticks
    HalfOpenMax       \* half_open_max_calls

ASSUME BreakerAssumption ==
    /\ Threshold \in Nat \ {0}
    /\ RecoveryTimeout \in Nat \ {0}
    /\ Window \in Nat \ {0}
    /\ HalfOpenMax \in Nat \ {0}

-----------------------------------------------------------------------------
(* ProviderCircuitState. failures is the list failure_times: the entry     *)
(* <<a, k>> is the k-th failure recorded a ticks ago. last is the age of   *)
(* last_failure_time, Never when it is None.                               *)

CircuitState == {"closed", "open", "half_open"}

Never == -1

FailureEntry == (0..Window) \X Nat

Circuit == [state    : CircuitState,
            failures : SUBSET FailureEntry,
            last     : {Never} \cup 0..RecoveryTimeout,
            calls    : Nat]

\* A provider the breaker has not seen, and one that was reset.
FreshCircuit ==
    [state |-> "closed", failures |-> {}, last |-> Never, calls |-> 0]

\* The failures that _get_failure_count counts.
Recent(c) == {f \in c.failures : f[1] < Window}

CleanOldFailures(c) == [c EXCEPT !.failures = Recent(c)]

\* Fault: the slots of the half-open phase stay taken.
ToOpenKeepingCalls(c) == [c EXCEPT !.state = "open"]

ToOpen(c) == [c EXCEPT !.state = "open", !.calls = 0]

ToHalfOpen(c) == [c EXCEPT !.state = "half_open", !.calls = 0]

ToClosed(c) == [c EXCEPT !.state = "closed", !.failures = {}, !.calls = 0]

-----------------------------------------------------------------------------
(* can_execute: the answer, and what a True answer does to the circuit (a  *)
(* False answer changes nothing).                                          *)

\* Faults a change of can_execute could introduce.
CanExecuteWithoutTimeout(c) ==
    \/ c.state \in {"closed", "open"}
    \/ c.state = "half_open" /\ c.calls < HalfOpenMax

CanExecute(c) ==
    \/ c.state = "closed"
    \/ c.state = "open" /\ c.last # Never /\ c.last >= RecoveryTimeout
    \/ c.state = "half_open" /\ c.calls < HalfOpenMax

Admitted(c) ==
    CASE c.state = "closed"    -> c
      [] c.state = "open"      -> [ToHalfOpen(c) EXCEPT !.calls = 1]
      [] c.state = "half_open" -> [c EXCEPT !.calls = c.calls + 1]

-----------------------------------------------------------------------------
(* record_success and record_failure.  An open circuit ignores a success   *)
(* and starts its recovery_timeout again at a failure.                     *)

\* Faults a change of record_success and record_failure could introduce.
AfterSuccessClosesNothing(c) ==
    IF c.state = "closed" THEN CleanOldFailures(c) ELSE c

AfterSuccess(c) ==
    CASE c.state = "half_open" -> ToClosed(c)
      [] c.state = "closed"    -> CleanOldFailures(c)
      [] c.state = "open"      -> c

WithFailure(c) ==
    LET k == Cardinality({f \in c.failures : f[1] = 0})
    IN  [c EXCEPT !.failures = c.failures \cup {<<0, k>>}, !.last = 0]

AfterFailure(c) ==
    LET failed == WithFailure(c)
    IN  CASE c.state = "half_open" -> ToOpen(failed)
          [] c.state = "closed"    ->
               LET cleaned == CleanOldFailures(failed)
               IN  IF Cardinality(cleaned.failures) >= Threshold
                   THEN ToOpen(cleaned) ELSE cleaned
          [] c.state = "open"      -> failed

-----------------------------------------------------------------------------
(* One tick of the clock that time.time() reads.                           *)

Older(age, limit) == IF age < limit THEN age + 1 ELSE age

Aged(c) ==
    [c EXCEPT !.failures = {<<Older(f[1], Window), f[2]>> : f \in c.failures},
              !.last = IF c.last = Never THEN Never
                       ELSE Older(c.last, RecoveryTimeout)]
=============================================================================
