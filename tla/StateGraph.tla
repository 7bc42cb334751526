----------------------------- MODULE StateGraph -----------------------------
(***************************************************************************)
(* core/mascarade/orchestrator/state_graph.py: the execution of a graph of *)
(* nodes over one state, with a checkpoint in a file after every node.     *)
(* Calls of invoke and stream with the same run_id share the file, may     *)
(* overlap, and may resume after the process was killed at any moment.     *)
(*                                                                         *)
(* A node writes its own key of the state; what it writes is any of its    *)
(* outputs, since nodes call language models.  A condition reads one key   *)
(* and compares its text (routers/graph.py).                               *)
(***************************************************************************)
EXTENDS Integers

CONSTANTS
    Node, END,
    Entry,          \* the entry point
    Value, Unset,   \* what a key holds, and a key nobody has written
    Outputs,        \* Outputs[n]: what n may write, Unset when it writes nothing
    Text,           \* Text[v]: what json.dump(default=str) makes of v
    Key, Mapping,   \* the conditional edge of a node, if it has one
    Edge,           \* the first unconditional edge of the others, or END
    AsyncCondition, \* nodes whose condition is a coroutine function
    MaxIterations,
    NoFile, Torn,   \* no checkpoint, and one cut off between open and json.dump
    Invocation      \* a call of invoke or stream with this run_id, then another

Slot == Value \cup {Unset}

GraphAssumption ==
    /\ Entry \in Node /\ END \notin Node /\ Unset \notin Value
    /\ MaxIterations \in Nat
    /\ Outputs \in [Node -> SUBSET Slot]
    /\ DOMAIN Mapping \subseteq Node /\ Key \in [DOMAIN Mapping -> Node]
    /\ Edge \in [Node \ DOMAIN Mapping -> Node \cup {END}]
    /\ AsyncCondition \subseteq DOMAIN Mapping
    /\ Text \in [Value -> Value] /\ \A v \in Value : Text[Text[v]] = Text[v]
    \* Conditions compare texts.
    /\ \A n \in DOMAIN Mapping, v \in Value :
           /\ v \in DOMAIN Mapping[n] <=> Text[v] \in DOMAIN Mapping[n]
           /\ v \in DOMAIN Mapping[n] => Mapping[n][v] = Mapping[n][Text[v]]

ASSUME GraphIsBuilt == GraphAssumption

VARIABLES
    pc,      \* pc[i]: where invocation i is
    stream,  \* stream[i]: i is a stream, whose consumer may go away
    at,      \* at[i]: state, current_node and iteration of i, when it has them
    file,    \* the checkpoint file
    alone    \* history: no other invocation ran at the same time as i

vars == <<pc, stream, at, file, alone>>

-----------------------------------------------------------------------------
(* Positions in the graph: what a checkpoint holds.                        *)

Target == Node \cup {END} \cup UNION {{Mapping[n][v] : v \in DOMAIN Mapping[n]} :
                                         n \in DOMAIN Mapping}

Position == [state : [Node -> Slot], node : Target, iteration : 0..MaxIterations]

ASSUME FilesAreTold == NoFile \notin Position /\ Torn \notin Position

Start == [state |-> [n \in Node |-> Unset], node |-> Entry, iteration |-> 0]

\* A node that returns None or an empty dict changes nothing.
NoUpdate == Unset

Merged(state, n, v) == IF v = NoUpdate THEN state ELSE [state EXCEPT ![n] = v]

\* _resolve_next_async: the condition's answer may have no target.
Resolves(n, state) ==
    n \in DOMAIN Mapping => state[Key[n]] \in DOMAIN Mapping[n]

NextNode(n, state) ==
    IF n \in DOMAIN Mapping THEN Mapping[n][state[Key[n]]] ELSE Edge[n]

\* Fault: going round without a change is not counted.
RanChangesOnly(p, v) ==
    LET state == Merged(p.state, p.node, v)
    IN  [p EXCEPT !.state = state,
                  !.iteration = IF /\ state = p.state /\ Resolves(p.node, state)
                                   /\ NextNode(p.node, state) = p.node
                                THEN p.iteration ELSE p.iteration + 1]

\* The position after the node at p, which wrote v; its next node is open
\* until the condition has been evaluated.
Ran(p, v) == [p EXCEPT !.state = Merged(p.state, p.node, v),
                       !.iteration = p.iteration + 1]

Settled(p) == [p EXCEPT !.node = NextNode(p.node, p.state)]

\* What load_checkpoint returns of p.
Stored(p) == [p EXCEPT !.state = [n \in Node |-> IF p.state[n] = Unset THEN Unset
                                                 ELSE Text[p.state[n]]]]

-----------------------------------------------------------------------------
(* The loop of invoke and stream, between two awaits.                      *)

\* Fault: one node too many.
LoopHeadLate(p) ==
    CASE p.node = END                                       -> "returned"
      [] p.node # END /\ p.iteration > MaxIterations        -> "raised"
      [] p.node \notin Node \cup {END} /\ p.iteration <= MaxIterations -> "raised"
      [] p.node \in Node /\ p.iteration <= MaxIterations    -> "node"

\* What the head of the loop does at position p; a node that nobody
\* registered raises when it is called.
LoopHead(p) ==
    CASE p.node = END                                       -> "returned"
      [] p.node # END /\ p.iteration >= MaxIterations       -> "raised"
      [] p.node \notin Node \cup {END} /\ p.iteration < MaxIterations -> "raised"
      [] p.node \in Node /\ p.iteration < MaxIterations     -> "node"

Active(i) == pc[i] \in {"node", "condition", "yield"}

\* Another invocation begins: nobody under way is alone any more.
Joined(i) ==
    [j \in Invocation |-> IF j = i THEN \A k \in Invocation \ {i} : ~Active(k)
                          ELSE alone[j] /\ ~Active(j)]

From(i, p) ==
    /\ at' = [at EXCEPT ![i] = p]
    /\ pc' = [pc EXCEPT ![i] = LoopHead(p)]

\* i ends without a state to return.
Stops(i, how) ==
    /\ pc' = [pc EXCEPT ![i] = how]
    /\ at' = [at EXCEPT ![i] = Start]
    /\ stream' = [stream EXCEPT ![i] = FALSE]
    /\ alone' = [alone EXCEPT ![i] = TRUE]

\* invoke without resume, or without a checkpoint, and stream.
Begin(i) ==
    /\ ~Active(i)
    /\ From(i, Start)
    /\ \E s \in BOOLEAN : stream' = [stream EXCEPT ![i] = s]
    /\ alone' = Joined(i)
    /\ UNCHANGED file

\* Fault: a resumed run may use all its iterations again.
LoadedAnew(p) == [p EXCEPT !.iteration = 0]

Loaded(p) == p

Resume(i) ==
    /\ ~Active(i) /\ file # NoFile
    /\ \/ /\ file = Torn
          /\ Stops(i, "raised")
       \/ /\ file # Torn
          /\ From(i, Loaded(file))
          /\ alone' = Joined(i)
          /\ stream' = [stream EXCEPT ![i] = FALSE]
    /\ UNCHANGED file

\* Fault: a stream leaves no checkpoints.
SavedByInvoke(i, p) == IF stream[i] THEN file ELSE Stored(p)

Saved(i, p) == Stored(p)

\* The next node is known: the checkpoint is written, and the loop goes on.
\* A write that fails leaves what it has written.
Settle(i, p) ==
    \/ /\ ~Resolves(p.node, p.state)
       /\ Stops(i, "raised")
       /\ UNCHANGED file
    \/ /\ Resolves(p.node, p.state)
       /\ file' = Saved(i, Settled(p))
       /\ at' = [at EXCEPT ![i] = Settled(p)]
       /\ pc' = [pc EXCEPT ![i] = IF stream[i] THEN "yield" ELSE LoopHead(Settled(p))]
       /\ UNCHANGED <<stream, alone>>
    \/ /\ Resolves(p.node, p.state)
       /\ file' = Torn
       /\ Stops(i, "raised")

NodeReturns(i) ==
    /\ pc[i] = "node"
    /\ \E v \in Outputs[at[i].node] :
         LET p == Ran(at[i], v)
         IN  IF p.node \in AsyncCondition
             THEN /\ at' = [at EXCEPT ![i] = p]
                  /\ pc' = [pc EXCEPT ![i] = "condition"]
                  /\ UNCHANGED <<stream, file, alone>>
             ELSE Settle(i, p)

ConditionReturns(i) ==
    /\ pc[i] = "condition"
    /\ Settle(i, at[i])

\* A node or a condition raises, or a node returns what is not a dict.
Fails(i) ==
    /\ pc[i] \in {"node", "condition"}
    /\ Stops(i, "raised")
    /\ UNCHANGED file

\* The consumer of a stream asks for the next item, or never does.
Consumed(i) ==
    /\ pc[i] = "yield"
    /\ pc' = [pc EXCEPT ![i] = LoopHead(at[i])]
    /\ UNCHANGED <<stream, at, file, alone>>

Abandoned(i) ==
    /\ pc[i] = "yield"
    /\ Stops(i, "killed")
    /\ UNCHANGED file

\* The process is killed, perhaps while an invocation writes its checkpoint.
Crash ==
    /\ \E i \in Invocation : Active(i)
    /\ pc' = [i \in Invocation |-> IF Active(i) THEN "killed" ELSE pc[i]]
    /\ at' = [i \in Invocation |-> IF Active(i) THEN Start ELSE at[i]]
    /\ \/ UNCHANGED file
       \/ /\ \E i \in Invocation : pc[i] \in {"node", "condition"}
          /\ file' = Torn
    /\ stream' = [i \in Invocation |-> ~Active(i) /\ stream[i]]
    /\ alone' = [i \in Invocation |-> Active(i) \/ alone[i]]

Init ==
    /\ pc = [i \in Invocation |-> "new"]
    /\ stream = [i \in Invocation |-> FALSE]
    /\ at = [i \in Invocation |-> Start]
    /\ file = NoFile
    /\ alone = [i \in Invocation |-> TRUE]

Goes(i) == NodeReturns(i) \/ ConditionReturns(i) \/ Fails(i) \/ Consumed(i) \/ Abandoned(i)

Next == \/ \E i \in Invocation : Begin(i) \/ Resume(i) \/ Goes(i)
        \/ Crash

Spec == Init /\ [][Next]_vars

\* Nodes and conditions end, and a consumer reads on or goes away.
FairSpec == Spec /\ \A i \in Invocation : WF_vars(Goes(i))

-----------------------------------------------------------------------------
\* Types; no position is more than max_iterations nodes from the start, those
\* of a run resumed over and over included.
TypeOK ==
    /\ pc \in [Invocation -> {"new", "node", "condition", "yield",
                              "returned", "raised", "killed"}]
    /\ stream \in [Invocation -> BOOLEAN]
    /\ at \in [Invocation -> Position]
    /\ file \in Position \cup {NoFile, Torn}
    /\ alone \in [Invocation -> BOOLEAN]

\* The positions, as a file can hold them, that one execution of the graph
\* from its entry reaches after k nodes, without a kill and undisturbed.
Successors(p) ==
    {Stored(Settled(Ran(p, v))) :
        v \in {u \in Outputs[p.node] : Resolves(p.node, Ran(p, u).state)}}

Reach[k \in Nat] ==
    IF k = 0 THEN {Start}
    ELSE UNION {Successors(p) : p \in {q \in Reach[k - 1] : q.node \in Node}}

\* However often a run is killed, resumed or started twice at a time, what a
\* checkpoint holds and what an invocation goes on from, or returns, is a
\* position that one undisturbed execution reaches after as many nodes:
\* resuming neither skips a node nor takes a branch that the text of the
\* state does not give (invoke, _save_checkpoint, load_checkpoint).
PositionsReachable ==
    /\ file \notin {NoFile, Torn} => file \in Reach[file.iteration]
    /\ \A i \in Invocation :
           pc[i] \in {"node", "yield", "returned"} => Stored(at[i]) \in Reach[at[i].iteration]

\* While only one invocation runs on a run_id, the file holds the position
\* it is at, or the one a single node before: a kill costs one node, which
\* the resumed run executes again (state_graph.py:341-344).
OneNodeLost ==
    \A i \in Invocation : Active(i) /\ alone[i] =>
        \/ at[i] = Start
        \/ pc[i] = "condition" /\ at[i].iteration = 1
        \/ /\ file \notin {NoFile, Torn}
           /\ \/ pc[i] # "condition" /\ file = Stored(at[i])
              \/ /\ pc[i] = "condition" /\ file.node = at[i].node
                 /\ file.iteration = at[i].iteration - 1

\* max_iterations ends every invocation, in a graph with cycles too, whose
\* nodes may leave the state as it is (the loop of invoke and stream).
InvocationEnds ==
    \A i \in Invocation : Active(i) ~> ~Active(i)
=============================================================================
