# Mascarade, modelled in TLA+

Mascarade (`src/core/mascarade`) is an asyncio service that routes LLM requests
to providers, orchestrates agents, and shares work with other nodes over a
peer-to-peer network. This project models the parts of it whose correctness
depends on the order of events: several tasks between their awaits, failures,
cancellations, timeouts, messages on several connections. Paths below are
relative to `src/core/mascarade` unless they start with `src/`.

## 1. Inventory

### Components and how they interact

| component | state | operations | talks to |
|---|---|---|---|
| Router (`router/router.py`) | providers, one breaker, one balancer, cache | `send`, `stream`, `fill_in_middle`, selection, resets | cache (await), breaker and balancer (plain calls), scheduler and providers (await) |
| Circuit breaker (`router/circuit_breaker.py`) | per provider: state, failure times, last failure, half-open calls | `can_execute`, `record_success`, `record_failure`, `reset` | called by the router |
| Load balancer (`load_balancer/balancer.py`) | per provider: load, pending, last used | `select_provider`, `request_started`, `request_completed`, `reset_stats` | called by the router |
| Fallback (`router/fallback.py`) | failure counters | `build_sequence` | called by the router |
| Response cache (`cache/`) | L1 LRU, L2 Redis, L3 semantic, tier availability | `retrieve`, `store`, `clear`, backfill | awaited by the router |
| Scheduler (`scheduler/`) | workers, load, heartbeats, scaling | worker selection, probing, scaling | called by the router for local providers |
| Orchestrator (`orchestrator/engine.py` and its breaker, retry, dead letters) | a breaker and a Ray circuit per agent, dead letters | sequential, parallel and pipeline runs | router, Ray, cluster (awaits) |
| Planner (`orchestrator/planner.py`) | a graph of tasks with statuses and retries | plan, execute, replan, synthesize | agents, router |
| State graph (`orchestrator/state_graph.py`) | state, current node, checkpoints | invoke, stream, resume | nodes given by the caller |
| Dispatch (`dispatch/`) | jobs in memory and in a file | add, update, remove, assign | machines |
| MCP sessions (`mcp/client.py`) | a child process and its pipes | `call_tool`, `describe_server`, `read_resource` | stdio tool servers (`mcp/server.py`) |
| P2P transport and gossip (`p2p/transport.py`, `p2p/pubsub.py`) | connections, read loops, seen nonces, relay tasks | publish, read, relay | other nodes |
| P2P tasks (`p2p/tasks.py`) | tasks, futures | submit, claim, run, answer, time out, prune | gossip, the cluster's task handler |
| P2P capabilities, relay, DHT, streams | peer tables, routes | advertise, prune, connect | transport |
| Cluster (`cluster.py`) | identities, P2P node | start, remote agents | everything above |

The whole Python core runs on one event loop per node. A task is interrupted
only where it awaits, so in all modules *one action is the code between two
awaits*, and the interleavings TLC explores are exactly those the loop can
produce.

### What is hard

* **Calls that outlive the state that admitted them.** A circuit may open, half
  open, close or be reset while a call that it admitted is awaited; the outcome
  is recorded against a different state.
* **Outcomes that are never reported.** A cancelled task and a call answered by
  a worker skip part of the accounting.
* **Fallback over strategies.** A sequence names strategies, not providers, and
  is fixed before the first attempt.
* **Gossip.** A message reaches a peer several times, by several paths, in an
  order that depends on handlers that run inside the read loop; and each copy,
  known or new, may change the connection on which its publisher is reached.
* **Timeouts racing answers**, and a second answer after the first.
* **Circuits shared by many runs**, read before a loop of retries and written
  after it; a second circuit (Ray) inside that loop.
* **Kills between a node and its checkpoint**, or in the middle of writing it, and
  two invocations that write the same checkpoint.
* **Child processes** that crash, stop reading, tear an answer or hold their pipes
  open, while their caller times out or is cancelled, in a `finally` too.
* **Partial failure of several writes** (cache tiers, job queue and its file).

`PROJECT.json` lists every such hazard at its line, with the properties that
watch it or the reason why none does.

### Properties that make each component correct

* Router: a request always ends; it should be refused only if nobody can take it.
* Breaker: opens at the threshold, recovers only through a half-open phase with
  a bounded number of probes, and every phase ends.
* Balancer: the load of a provider is the number of calls under way on it.
* Cache: a hit moves up; a failing tier is left out and nothing else; a clear
  leaves nothing behind (none of it is modelled).
* Planner: no task runs before what it depends on; every plan ends; a failure
  skips exactly what depends on it.
* Orchestrator: circuits stay consistent whatever runs interleave; an open circuit
  starts nothing; results, inputs and dead letters agree with what happened; every
  run ends.
* State graph: a kill costs at most one node; whatever was killed, resumed or run
  twice, a checkpoint is a position of one undisturbed execution; cycles end.
* MCP session: an answer belongs to its request; no process is left behind; every
  operation ends.
* Job queue: memory and file agree after each operation; no job is lost.
* Scheduler: load of a worker is what runs on it; a draining worker gets nothing
  new; scaling respects its bounds.
* P2P tasks: a peer runs a task at most once; the submitter's outcome is real
  and final; what is published reaches every peer, and a task is answered, as long
  as the connections stay up.

## 2. Modules

| module | models |
|---|---|
| `CircuitBreaker` | the circuit of one provider as a record, and each breaker method as an operator on it |
| `Router` | concurrent requests over circuits, balancer and fallback sequences; extends `CircuitBreaker` |
| `BreakerGate` | abstract specification: what the breaker promises a provider |
| `RouterProofs` | the breaker's operators, type correctness, breaker invariants, refinement of `BreakerGate`, the load and the probe slots against the calls under way |
| `TaskDistribution` | P2P tasks over gossip and read loops |
| `TaskDistributionProofs` | type correctness, real and final outcomes, a task runs once on a peer |
| `Planner` | one run of the plan-and-execute orchestrator, with its rounds of concurrent tasks |
| `PlannerProofs` | type correctness, exact validation, dependencies first, bounded retries, completed for good, what a failure takes with it |
| `AgentBreaker` | the breaker of one agent as a record, and each method as an operator on it |
| `Orchestrator` | concurrent runs over those breakers, the Ray circuits and the dead letters; extends `AgentBreaker` |
| `OrchestratorProofs` | consistent circuits, no execution of an agent that is shut |
| `OrchestratorRunProofs` | type correctness, results, inputs and sends of a run, the dead letter store |
| `StateGraph` | invocations of one graph under one run id, with a checkpoint file and kills |
| `StateGraphProofs` | type correctness, resumed runs stay on paths, what a kill costs |
| `McpSession` | one session with a stdio tool server, client and child process |
| `McpSessionProofs` | type correctness, answers are their requests' own, no process left |
| `Iteration` | induction and recursion over the natural numbers, as lemmas about sets and functions; no model of its own |
| `MCRouter`, `MCTaskDistribution`, `MCPlanner`, `MCOrchestrator`, `MCStateGraph`, `MCMcpSession` | values of the constants for TLC |

### Router, CircuitBreaker

`pc[r]` says at which await a task stands: `lookup` (cache.retrieve), `remote`
(a worker), `local` (a provider), `streaming` (a yield), `fim`
(fill_in_middle), `store` (cache.store). `todo[r]` is the rest of the fallback
sequence, `at[r]` the provider of the current attempt.

`TryNext` is the body of the loop over the sequence: select, ask the breaker,
skip or start. There is no await in it, so it is part of the action that ends
the previous await (`CacheMiss`, `CallFails`): a failure is recorded in the very
step that starts the next attempt. `Picks` is the set of providers the selection
may return; it is empty where the code raises (an unknown provider, `min` of an
empty list), and then the request leaves. Costs are measured at run time, so
`cheapest` may return any provider in scope.

Time is counted in ticks, and each instant the breaker keeps is stored as its
age, saturated at the limit it is compared with. Since saturation changes no
comparison, the clock needs no bound.

`BreakerGate` leaves out failures, requests and load: a closed gate may trip at
any time, a tripped gate rests `RecoveryTimeout`, then admits at most
`HalfOpenMax` probes, and only an outcome moves it on. `GateSpec` in `Router` is
its specification under the mapping circuit → gate.

What is external: the providers, the workers' answers and the cache's contents
are nondeterministic choices. Tracing and metrics are left out; nothing the
router decides reads them, except the measured latency behind `fastest`, which
is the constant `Slowness`.

### TaskDistribution

`queue[l]` holds what was sent on the connection `l`, in order; `loop[l]` is what
the read loop of the receiver awaits. The loop awaits the handler, so a
submission stays at the head of its queue (`window`, then `running`) until the
task has run, and nothing behind it is read. `relays[p]` are the relay tasks
created at the end of `_handle_publish`, which run whenever the event loop gets
to them; the connections they write to are those known when they were created.
A message stands for its nonce. `future[t]`, `status` and `claimant` are the
submitter's future and each peer's entry of the task; `ran` records what became of
each call of a handler and is not read by any action.

A peer sends to each *id* it knows: to those it has dialled (`Dials`) on its own
connection, to the others on the connection `inbound[p][q]` on which it last heard
from them (`Route`). It hears from an id what that id *published*: `_handle_inbound`
binds the sender of a message to the connection the message came on, before its
nonce is looked at (`transport.py:400-406`), and a relayed message keeps its
publisher as sender. A relay also goes back to the neighbour it came from, for only
the publisher is left out (`pubsub.py:115-117`). So a copy of a message may re-bind
an id to a neighbour that merely passed it on, and `Drop`, which reads such a
copy, changes `inbound`. Two ids may share a connection, and each gets its copy
(`Ways`, `Copies`). Only copies that would be dropped and bind nothing are left
out of the queues: the receiver has seen the message, or gets it earlier on the
same connection, and it dialled the connection itself, or knows the publisher by a
connection it dialled, or has no other inbound connection and the id bound to this
one. Each leaves every variable but the queue alone.

One run submits a task once (ids are fresh UUIDs unless the caller reuses one).
Connections are FIFO, stay up and lose nothing. In the first state everybody who
has dialled a peer has announced itself to it. Dialling, the end of connections,
signing, the expiry of seen nonces (300 s) and pruning are left out.

### Planner

`phase` is what `run` awaits (the router for a plan, `gather`, the router for the
synthesis) or how it ended; `coro[t]` is the `_run_task` of `t` in the current
`gather`: created, awaiting its agent, raised, or none. `again` tells whether
`_replan_failures` was called. What `execute` does between two rounds, the second
chance and the start of `synthesize` have no await, so they are one action,
`Continue`, taken when the plan is accepted or a round ends.

The router may answer with any graph and any agents (`Plans`); `_validate_plan`
is part of the model. The look-up of a task's agent is outside the `try`: when the
agent was removed meanwhile, `gather` raises at once (`RoundRaises`) and the other
tasks of the round go on in the phase `raised`. Prompts, inputs and results are
left out: what a task reads of its dependencies is there exactly when they are
completed. Duplicate ids and malformed JSON are refusals like any other.

### Orchestrator, AgentBreaker

`exec[r][i]` is the execution of step `i` of run `r`: what it awaits (`ray`: a
thread that calls Ray; `local`: the router; `backoff`: the sleep before a retry),
its agent, how many tries have failed, and how many calls it has made. `Executed`
is the start of `_execute_agent`: look the agent up, ask its breaker, then make the
first attempt, on Ray if Ray is there and its circuit allows, otherwise through the
router. A failed call on Ray is followed by the router within the same attempt; a
failed attempt is retried after a sleep; the breaker hears one outcome, at the end
of the last attempt. What run_sequential and run_pipeline do with it has no await,
so `Proceed` takes the run to its next await: it passes over steps that fail at
once (an agent that is gone or shut), writes their results and dead letters, and
starts the next step or the fallback. In a parallel run each step is a task of its
own, and `Gather` is what follows when all have ended.

The two circuits differ. An agent's breaker counts failures and successes of whole
executions and, half open, lets everybody through; the Ray circuit counts calls, has
no half-open phase, and forgets its count with the first call after the pause.
`ray[a].left` is what is left of the pause, and the pause runs from the moment the call *began*
(`now` is taken before the await), which is why a call on Ray has an age.

`_route_via_cluster` is one await with the router's; what is wrong with an
answer, traces and latencies are left out. Two agents' breakers never meet, but
runs do: `Plans` lists pairs of runs that share agents.

### StateGraph

`at[i]` is the position of invocation `i`: state, node and iteration; `file` is
the checkpoint its `run_id` names. One action is a node's return, the merge of
its answer, the choice of the next node, the checkpoint and the head of the loop,
for there is no await between them; only a condition that is a coroutine splits it
(`ConditionReturns`), and a stream waits for its consumer (`yield`). `open(path,
"w")` empties the file before `json.dump` fills it, so a kill, or a value that
cannot be written, may leave the file `Torn`; resuming from it raises.
`json.dump(default=str)` turns what JSON cannot hold into its text, hence `Text`:
a resumed run goes on with texts. Conditions compare texts
(`routers/graph.py:125`), and `GraphAssumption` says so: a condition that told a
value from its text could take another branch in a resumed run.

`alone` is a history variable: whether another invocation of the same id ran at
the same time, which `OneNodeLost` must exclude.

### McpSession

`pc` is what the client awaits: `sending` (drain), `waiting` (the answer, with a
timeout), `draining` (stderr after the end of stdout), then in the `finally`
`flushing` (wait_closed), `leaving` (three seconds for the process) and `killed`.
`inbox` and `outbox` are the child's pipes, `child` the process: `reading`, `stuck`,
`exiting` (stdout is closed), `gone`. `Script` lists what each operation sends. The
child handles one message after the other, with one answer for each request and
none for a notification; it may crash before or while it writes an answer, close its
stdout, or stop reading at any moment.

What a message is to the child depends on `framing`, for the client and the
repository's own server do not agree on it. `_write_message` (`mcp/protocol.py:71`)
writes a header, an empty line and a body that no newline ends. A server that reads
`frames`, as the one of `src/core/tests/test_mcp_client.py:22`, gets one message for
each (`Reply`). `run_stdio` (`mcp/server.py:540`) reads `lines` (`ReplyLine`): the
header line, behind the rest of the frame before, is a parse error whose id is null
(`to = "nobody"`), the empty line is skipped, and the body waits in `partial` for
the next header or the end of stdin (`LastLine`). The answers, of either kind, are
read by the client as what they are: `_read_message` takes a line that begins with
a brace for a message.

Two things the code takes for granted are constants. `Fits`: a request fits in
the pipe's buffer, so that `drain` and `wait_closed`, which have no time limit, end
though the child reads nothing. `PipesEnd`: the pipes of a process that is gone
reach their end. asyncio reports an exit only then, so that a descendant that
holds them open keeps `proc.wait()`, which has no limit after the kill, waiting.
`SessionEnds` is checked with both `TRUE`; with either `FALSE` TLC refutes it.
The other properties do not need them, and are proved without.

## 3. Runs

| run | question | result |
|---|---|---|
| `router_core` | two tasks, two providers, fallback, a domain whose selection raises: are circuits and load consistent, does the breaker implement the gate? | holds |
| `router_live` | does every request, and every half-open phase, end? do resets at any moment leave the circuits consistent with the calls under way? | holds |
| `router_cancel` | with cancellation, workers and fill-in-middle: is the load never too low? | holds |
| `router_remote_stuck` | half-open phases end, when workers answer | **violated** |
| `p2p_mesh` | claims race on a full mesh: does a worker run the task, at most once on each peer, and does the submitter get one outcome, that of a run? | holds |
| `p2p_line` | neighbours on a line that have dialled each other, two tasks, one of them for a worker two hops away, and a wait that may time out: do relays reach it, are both tasks answered, is an outcome final, does the traffic die out? | holds |
| `p2p_inbound` | what is published reaches every peer, on the line whose middle peer has dialled nobody | **violated** |
| `p2p_hub` | peers agree on the winner when all is quiet | **violated** |
| `planner_any_graph` | for every graph of three tasks, with an agent removed at any moment: is validation exact, do dependencies come first, does a failure skip exactly what depends on it, does the run end? | holds |
| `orchestrator` | pairs of runs that share agents, in all modes, with retries, fallbacks, timeouts, Ray, and an agent that is gone: do both kinds of circuit stay consistent, does an open one start nothing, do results, inputs and dead letters agree, are calls bounded, does every run end? | holds |
| `graph_resume` | two invocations of one run id over a graph with a loop and a branch, killed at any moment, resumed or not: is every position one that an undisturbed execution reaches, is at most one node lost, does every invocation end? | holds |
| `mcp_session` | each of the three operations with a server of frames or of lines that crashes, tears an answer, stops or leaves, timeouts, and cancellations: is no answer taken for another request's, is the process gone at the end, does the operation end? | holds |

### Bounds and why they are enough

*Router.* Two providers are the least for which a fallback, and a choice between
an open and a closed circuit, exist; two tasks the least for which an outcome
meets a circuit in a state that another task made. `Threshold = 2` separates the
first failure from the opening one; `Window = 2` and `RecoveryTimeout = 1` let
failures grow old before and after a recovery (`router_live` takes `Window = 1`,
where all failures that count are of one tick); `HalfOpenMax = 2` lets a slot be
taken while another is held. Requests return to `idle`, so the runs are not
bounded in length; `MaxLost` bounds the load that cancelled calls leave behind,
as it would otherwise grow for ever. Tasks are interchangeable, and the runs
without liveness use that symmetry.

*TaskDistribution.* A submitter and two workers are the least for a race. They are
connected in the four ways that differ: a mesh, a hub (the workers only know the
submitter), a line whose neighbours have dialled each other, and a line whose
middle peer is only dialled. On the mesh everybody has dialled everybody, and no
id is bound to an inbound connection; on the hub and the first line a peer binds those
two hops away to the one neighbour that relays for them, where they stay. `Inbound`
is the least network in which a relayed copy binds an id to the wrong neighbour,
with two tasks so that something is sent afterwards. In `p2p_line` one task is open to
both workers and the other is for the far one, so each waits in a read loop behind
the other. Every capable peer is equipped. `Timeouts` names the tasks whose wait
may end before the answer, one of the two of `p2p_line`. In all runs but `p2p_hub`
every handler raises (`Outcomes = {FALSE}`): what is returned takes the same path.

*Planner.* Three tasks have every shape that matters to the loop: a chain, a fork,
a join, independent tasks, and cycles of length one, two and three. `MaxRetries =
1` (the default) separates the retry within an execution from the second chance.
One task may belong to another agent than the rest, so that a removal hits a part
of a round.

*Orchestrator.* Two runs are the least in which an outcome meets a circuit that
another run moved; a parallel run of one agent twice adds a third execution. The
pairs in `Menu` cover each mode against a parallel run of the same agent, pipelines
whose fallbacks cross (each is the other's primary), steps that are skipped before
and after a fallback, and agents that are not registered; `RayMenu` repeats two of
them with Ray. `FailureThreshold = SuccessThreshold = RayThreshold = 2` separates
the first outcome from the deciding one, `MaxRetries = 1` the retry from the last
try; `MaxLetters = 2` is less than the failures two runs can have; `RayCooldown = 2`
is longer than a call on Ray (`RayLimit = 1`), so that a call outlives the opening
by another and an old pause is overwritten by a new one.

*StateGraph.* The graph has a loop, a branch whose condition is a coroutine, an
answer without a target, a target that nobody registered and a node that writes
nothing; `object` is a value that a file holds as its text. `MaxIterations = 4` lets
an execution go round the loop once and still finish; a longer one meets the limit. Two invocations,
each followed by others, are the least that can overwrite each other's file.

*McpSession.* Sessions share nothing, so one is enough, and each script is finite.
`MaxCancels = 2` lets a second cancellation strike the `finally` that the first one
entered.

### Fairness

`FairSpec` of Router: every await of a request is answered (each HTTP client has
a timeout, `httpx.Timeout(120.0)`), by success or failure as it may; and time
passes. Nothing is assumed of arrivals, cancellations or resets. `RequestsEnd`
and `HalfOpenEnds` are checked under it. `PersistentSpec` adds clients that keep
asking and a cache that does not answer everything; the violation of
`HalfOpenEnds` is shown under this stronger assumption, where a circuit that
refuses for ever cannot be excused by an absence of traffic.

`FairSpec` of TaskDistribution: the event loops do not stand still as long as
there is something to do. A single weak fairness suffices since the traffic of a
task is finite. Nothing is assumed of timeouts: `TimeOut` is not part of `Progress`,
so that `TaskAnswered` cannot rely on it.

`FairSpec` of Planner: the router answers or raises, `asyncio.wait_for` bounds
every `agent.run` by `timeout_per_task`, and the event loop serves each
`_run_task`. Nothing is assumed of how a task ends.

`FairSpec` of Orchestrator: every call of a provider or of Ray ends (HTTP timeouts,
`_RAY_EXEC_TIMEOUT_S`), every back-off is a finite sleep, `gather` returns when all
its tasks have ended. Nothing is assumed of new runs, of timeouts or of the clock.

`FairSpec` of StateGraph: nodes and conditions end (they call the router), and a
consumer of a stream reads on or goes away. Nothing is assumed of kills and
resumptions.

`FairSpec` of McpSession: the event loop runs what is ready and fires its timers,
and a server that closed its stdout exits. A server may stay stuck for ever.

### What the violated runs show

* `router_remote_stuck`: `send` returns a worker's answer (`router/router.py:1117`)
  after `can_execute` has counted a probe, without telling the breaker. After
  `half_open_max_calls` such answers the circuit is half-open with no slot left
  and nobody to close it; it refuses every call until an operator resets it.
  The same happens to cancelled calls (`CancelledError` and `GeneratorExit` pass
  by `except Exception`): with `Cancellation = TRUE`, TLC refutes `HalfOpenEnds`
  without any worker, and `LoadIsInFlight` as well, since the load of a cancelled
  call is never taken back. `router_cancel` checks what is left of it.
* `p2p_hub`: the claim of one worker reaches the other behind the submission
  whose handler is running the task, long after the 50 ms window. Both run, and
  the three peers end with different winners. A claim that arrives *before* its
  submission is lost the same way, for `_handle_task_claim` ignores unknown tasks.
* `p2p_inbound`: w1 knows s0 and w2 by the connections they opened. It relays the
  submission of s0 to w2; w2 relays it to w1 again, for w1 is not its publisher; w1
  drops the copy, but after it has bound s0 to the connection of w2. The copies that
  s0 sends back bind w2 to the connection of s0 in the same way. In TLC's trace the
  next submission of s0 then never gets to w2: what w1 relays for w2 goes to s0.
  Bound the other way, w1's claims, its results and the relays of w2's never get to s0,
  and a task without a timeout never ends. No connection has ended. Where s0 and w1,
  and w1 and w2, have dialled each other (`p2p_line`), the connection a peer has dialled
  itself is preferred and everything arrives.

Met while reading, not the subject of any run:

* `cluster.py:449` passes `gpu_vram_gb`, `chip_family` and `ram_gb` to
  `P2PNode.advertise_capabilities` (`p2p/asyncio_node.py:173`), which takes no such
  arguments; the start of the node ends in the `except` at line 467 with `_p2p_node
  = None`. The P2P model is of the protocol, with a node that did start.
* `routers/graph.py:87` builds the graphs of `/invoke` and `/stream` without a
  checkpoint directory, so that `resume` finds nothing and `GET
  /checkpoints/{run_id}` (line 186) reads a directory nobody writes. The model is
  of `StateGraph` with a directory, as its tests use it.
* The client of `mcp/client.py` gets no result from `run_stdio` of
  `mcp/server.py`: one writes frames, the other reads lines (section 2). The model has
  the two, and `LinesGiveNoResult` proves it, but no text of the repository says that
  they are meant for each other: the registered stdio servers are external
  programs, and `mcp/server.py` is for the clients of its documentation.
* Only the branch of `best` uses the list of providers whose circuit is not open
  (`router/router.py:388-396`); the other strategies may select one that is open, and
  what they selected is then refused or probed. It is so in `Candidates`.
* `FallbackState.build_sequence` cuts the sequence to `max_attempts = 3` entries
  (`router/fallback.py:56`), which for a request that names no provider are its own
  strategy and two of the others. The entries that name the providers ("Dernier essai",
  line 50) come after them, and are never tried. It is so in `BuildSequence`; with
  three tasks a request is refused though a provider could take it. Let p2 be half-open
  with both slots taken by two calls, and p1 be open and rested. `fastest` selects p2;
  `best` does, for p1 is not among the healthy; `cheapest` may. No provider need be
  both best and fastest for that. `can_execute` is what would half-open p1, but it is
  asked only of what was selected. With two tasks, as in the runs, both slots are
  never taken while a third request is routed, so that no run shows it.
* `describe_server` and `read_resource` let the `TimeoutError` of a request through
  (`mcp/client.py`; only `call_tool` turns it into `McpServerUnavailable`), which
  the best-effort reading of health and contract (`server_mcp.py:90`) does not
  catch: a slow optional resource fails the whole request. In `McpSession` it is the
  outcome `timeout`.
* `MultiTierCache` backfills with `strategy`, `provider` and `model` twice
  (`cache/multi_tier_cache.py:216`), as the router gives them too: the `TypeError`
  is caught, nothing moves up, and at line 252 the L2 tier is marked unavailable.

## 4. Proofs

All proofs are for any finite set of providers and tasks, any traffic, and any
positive threshold, window, timeout and number of slots (`BreakerAssumption`,
`RouterAssumption`); those of the planner for any finite set of tasks, any set of
answers of the router, and any `max_retries` (`PlannerAssumption`).

* **`RouterProofs!TypeCorrect`, `ClosedIsBelowThreshold`, `CircuitsKeepShape`.**
  The inductive invariant is `Inv == TypeOK /\ CircuitsGood /\ CallsNamed`.
  `TypeOK` alone does not tell that the provider of a call is a provider
  (`CallsNamed`), without which recording an outcome is undefined; and
  `CircuitsGood` adds to the two properties that failures are finitely many and
  aged within the window, without which counting them proves nothing.
* **`RouterProofs!BreakerImplementsGate`.** Every change of a circuit is one of
  `Stay`, `Trip`, `Probe`, `Close` of its gate. The delicate step is `CallFails`,
  which may record a failure *and* admit a new call on the same circuit: since
  the failure has age 0 and `RecoveryTimeout > 0`, a circuit that this failure
  opened cannot admit, and the two are one move of the gate.
* **`RouterProofs!LoadAccounted`**: without cancellations and resets
  the load of a provider equals its calls under way. **`LoadCovers`**: with
  cancellations, but no resets, it is never lower. Both count `InFlight` before
  and after each step; the lemmas say how the cardinality changes when one task
  moves.
* **`RouterProofs!ProbeSlotsAccounted`**: without cancellations and
  workers the slots a half-open circuit has given out are at most the calls under
  way on it. This is the fact whose failure `router_remote_stuck` exhibits.

None of the modules with proofs, nor those they extend, declares a RECURSIVE
operator. The library states induction with an operator parameter, which the
installed provers do not instantiate; `Iteration` derives it in a form they do:
`Induct` is about a *set* that holds 0 and the successor of each of its numbers,
and `IterationExists` gives the function that a recursion on numbers defines, from
the well-foundedness of `<`. Each proof by induction below names its set.

* **`PlannerProofs!DependenciesComeFirst`, `CompletedForGood`,
  `RetriesStayBounded`**, for every plan and number of tasks. The invariant adds
  that a `_run_task` under way goes with its task's status and was made for a task
  whose dependencies had completed (`CoroMatches`; it also covers the tasks that
  outlive an exception of `gather`), and that an unknown dependency occurs only in
  a plan of which no task was touched (`PlanFits`). `ContinueInv` is the step
  between two rounds, shared by the actions that take it.
* **`PlannerProofs!ValidationIsExact`**: the passes of `_validate_plan` accept exactly
  the plans whose tasks can be ranked, for graphs of any size. `ResolvedUnfolds` gives
  the sequence of sets that the passes resolve (`IterationExists`). If the last is all
  tasks, the first pass that resolves a task ranks it (`LeastOf`); if a ranking
  exists, after n passes the tasks of rank up to n are resolved (`Induct`).
* **`PlannerProofs!FailuresTakeTheirCone`**: a task is skipped only below a failed one.
  While a plan is executed nothing is skipped yet, and only valid plans are executed
  (`ConeInv`). When the rest is skipped nothing is ready, so a task without a failed
  one upstream would wait for another of its kind; of such tasks a valid plan has none
  (`ValidHasNoCycle`).
* **`McpSessionProofs!AnswersAreOwn`, `LinesGiveNoResult`, `ProcessReaped`**, for any
  operations, pipes and number of cancellations (`SessionAssumption`, with `Fits` and
  `PipesEnd` either way), and a server of frames or of lines. That answers are matched by their place alone is right because one request
  at most is under way: `Quiet` (between two requests the pipes hold nothing but the
  notification) and `OneUnderWay` (the request awaited is on its way or lost, or
  answered once; a torn answer leaves it in a dead child's stdin) are the invariant,
  and `Progressing` ties the answers taken to the place in the script. With a server
of lines `Unread` takes their place: until the client has closed its stdin all that
comes from it are errors without an id, and after the first of them the client
reads nothing more. So its answers cannot be matched wrongly, and none is
ever a result. `ProcessReaped`
  needs only that a killed child is gone.
* **`StateGraphProofs!TypeCorrect`, `KillCostsOneNode`**, for any graph, outputs, limit
  of iterations and number of invocations (`GraphAssumption`; `FilesAreTold` tells a
  missing and a torn file from a position). The invariant adds that an invocation
  which awaits a node or a condition has a node to run (`PcFits`), that what the file
  holds is what storing it again leaves (`FileIsText`, as every checkpoint passes
  through `str`), and that of two invocations under way none is alone
  (`AloneIsAlone`). `StopsStep` and `GoesStep` are the two ways in which a step ends,
  shared by the actions.
* **`StateGraphProofs!ResumptionsStayOnPaths`**: checkpoint and invocations stand on
  positions that one undisturbed execution reaches after as many nodes, whatever is
  killed, resumed or started twice. `Reach` is a function defined by recursion;
  `ReachUnfolds` unfolds it with `IterationExists`. The invariant adds where an
  invocation that awaits a condition came from (`ConditionReachable`).
* **`OrchestratorProofs!CircuitsConsistent`, `ShutAgentsAreLeftAlone`**, for any
  agents, runs, plans, thresholds and retries (`AgentBreakerAssumption`,
  `OrchestratorAssumption`). The invariant gives every breaker and Ray circuit its
  shape and every execution under way an agent; that an execution reports to a
  breaker which others have moved meanwhile is what `SuccessIsGood` and
  `FailureIsGood` are about, which start from any good breaker. For the second
  theorem they add that no outcome ends the rest of an open circuit, so that the
  steps which `ProceedStep` lets begin after it are of other agents.
* **`OrchestratorRunProofs!CallersGetThePlan`, `AgentsAreFed`**. `RunsInv` ties the
  results of every run to its executions: a run that goes step by step has told of its
  first steps and executes the next one and none after it (`Stepwise`), a parallel one
  has told nothing until `gather` tells all (`Together`), and in a pipeline the input
  that goes on is the last answer so far (`Fed`). `GoesOn` is what the part of a run
  without an await amounts to, in any of its branches; it serves all the theorems here.
* **`OrchestratorRunProofs!PromptsAreSentSoOften`**. `SendsInv` bounds the calls of an
  execution by its failed attempts and by where it stands in the current one; only
  the call on Ray may still be followed by another in the same attempt, and only an
  agent that is no fallback by a fallback.
* **`OrchestratorRunProofs!LettersTellFailures`, `TypeCorrect`**. The store has dropped
  its oldest letters, so the invariant speaks of a log it is the end of (`LettersInv`):
  the log holds every failure of every run, those of a run in ascending order, an
  exception last. That order makes the log a bijection onto the failures, which is what
  counts them, and makes the letters kept of a run its last failures; `LastOfAppended`
  says that dropping early or late is the same; and
  `AscendingLists`, by induction over the steps, that `gather`'s failures can be listed.
* **`TaskDistributionProofs!OutcomesAreReal`, `OutcomesAreFinal`, `TasksRunOnce`**, for
  any peers, connections and targets (`TaskAssumption`), whatever connections the ids
  are bound to. The invariant says
  that every result in a queue or a relay tells what became of the run (`Genuine`),
  that a loop inside a handler stands at the submission its peer has seen and no
  other loop of the peer at the same one (`LoopsFit`, `OneLoop`: a second run could
  begin only there), that ids are bound to connections which exist (`InboundFits`), and that the submitter's entry goes with its future
  (`SubmitterKnows`: a result that nobody waits for is not taken).

Only model-checked: everything under fairness (`RequestsEnd`, `HalfOpenEnds`,
`TaskAnswered`, `GossipReaches`, `RunEnds`, `RunsEnd`, `InvocationEnds`,
`SessionEnds`), which the prover cannot do. `GossipComplete` and `ClaimsConverge` are
refuted by their runs.
Every invariant and action property of the passing runs is a theorem.

## 5. Faults

Operators commented as `Fault:` are the mutations used to see that each property
can fail: each is a plausible mistake in the definition that follows it. No
action uses them.

## 6. Plan

Every invariant that holds in a passing run is proved. What is left, in this order:

1. The orchestrator's breaker as an implementation of a gate of its own, as
   `BreakerGate` is for the router's, and the state graph as one of a walk that is
   never interrupted.
2. Connections that end and are dialled again, in `TaskDistribution`: read loops
   that stop, and entries of the transport's tables that one connection removes for
   another.

## 7. Not modelled

* **Response cache**: `Router` tells a hit from a miss. Its tiers are independent
  stores; what is wrong in it (above) is a wrong call, which the first retrieval
  shows, not an order of events.
* **Scheduler, heartbeat, autoscaler, paged attention, dispatch and job queue**: a
  worker's answer is a choice in `Router`; nothing but their tests starts a heartbeat
  or an autoscaler, or creates block tables or a queue.
* **Node engine**: the server's `/graphs/execute` makes an executor without any
  registered worker; the rest of the engine is used by examples and tests.
* **P2P capabilities, relay, DHT, streams, dialling, signing, pruning**: the P2P model
  takes peers and connections as given. They change over minutes, or belong to
  libraries.
* **MCP over HTTP, narrative sessions**: one request and one answer each; the
  sessions kept open (`_StdioSession`) are wired to nothing.
* **Conversation memory**: each method reads and writes a conversation in two Redis
  calls, so that concurrent messages overwrite each other; nothing promises
  otherwise.
* **Cluster start-up, authentication, rate limits, HTTP routes, agents, retrieval,
  persistence**: request-by-request code or I/O around the components above.
* **Fine-tuning drivers, the TypeScript gateway, front ends, deployment, scripts**:
  outside the Python core, or drivers of external programs.
