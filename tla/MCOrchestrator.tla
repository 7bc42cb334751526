--------------------------- MODULE MCOrchestrator ---------------------------
(***************************************************************************)
(* Two runs of the orchestrator at once, with plans that share agents: in  *)
(* parallel, one after the other, as a pipeline with a fallback, and with  *)
(* an agent that the registry does not hold.                               *)
(***************************************************************************)
EXTENDS Orchestrator

CONSTANTS alpha, beta, gone, r1, r2

NoFallback == [x \in Agent |-> NoAgent]

Parallel(s) == [mode |-> "parallel", agents |-> s, fallback |-> NoFallback, skip |-> FALSE]

InTurn(s, skip) ==
    [mode |-> "sequential", agents |-> s, fallback |-> NoFallback, skip |-> skip]

Piped(s, from, to, skip) ==
    [mode |-> "pipeline", agents |-> s, fallback |-> [NoFallback EXCEPT ![from] = to],
     skip |-> skip]

Twice == Parallel(<<alpha, alpha>>)

Both(x, y) == [r \in Run |-> IF r = r1 THEN x ELSE y]

RayMenu ==
    {Both(Twice, InTurn(<<alpha>>, FALSE)),
     Both(Piped(<<alpha>>, alpha, beta, FALSE), InTurn(<<alpha>>, FALSE))}

Menu ==
    {Both(Twice, x) : x \in {Twice, Parallel(<<alpha, gone>>), InTurn(<<alpha, alpha>>, TRUE),
                             InTurn(<<alpha, gone>>, FALSE), Piped(<<alpha, beta>>, alpha, beta, FALSE)}}
    \cup {Both(Piped(<<alpha, beta>>, alpha, beta, TRUE), Piped(<<beta, alpha>>, beta, alpha, FALSE)),
          Both(Piped(<<beta, beta, alpha>>, alpha, beta, TRUE), InTurn(<<beta>>, FALSE)),
          Both(Piped(<<alpha, beta, alpha>>, beta, gone, TRUE), InTurn(<<beta>>, FALSE))}
    \cup RayMenu
=============================================================================
