--------------------------- MODULE TaskDistribution ---------------------------
(***************************************************************************)
(* core/mascarade/p2p: P2PTaskDistribution (tasks.py) over P2PPubSub       *)
(* (pubsub.py) and the read loops of the transport (transport.py).  A      *)
(* submitter publishes a task; every capable peer claims it, waits 50 ms   *)
(* for the claims of others, runs it unless it heard of a better claim,    *)
(* and publishes the result.                                               *)
(*                                                                         *)
(* Every peer reads each of its connections in a loop that awaits the      *)
(* handler of a message before it reads the next one, and relays a message *)
(* only after its handlers are done.  A message therefore stays at the     *)
(* head of its connection while it is handled.                             *)
(*                                                                         *)
(* A peer sends to the peers it has dialled, and to those it knows by a    *)
(* connection that they dialled.  The latter it learns from the messages   *)
(* it reads there, under the id of whoever published the message, which a  *)
(* relay has not: what was relayed re-binds the id of its origin.          *)
(***************************************************************************)
EXTENDS Naturals, Sequences, FiniteSets

CONSTANTS
    Peer,
    NoPeer,      \* None, as a peer
    Task,        \* the task ids
    Dials,       \* <<p, q>>: q is in p._peers, p has dialled it and announced itself
    Submitter,   \* Submitter[t]: the peer on which distribute_task(t) is called
    Target,      \* Target[t]: its target_peer, or NoPeer
    Capable,     \* the peers that have the capability of the tasks
    Equipped,    \* the peers with a task handler
    Rank,        \* Rank[p]: place of p's id in the lexicographic order
    Outcomes,    \* how task handlers may end: they return (TRUE) or raise
    Timeouts     \* the tasks whose wait may time out before the answer arrives

ASSUME TaskAssumption ==
    /\ IsFiniteSet(Peer) /\ NoPeer \notin Peer
    /\ Dials \subseteq {d \in Peer \X Peer : d[1] # d[2]}
    /\ Submitter \in [Task -> Peer]
    /\ Target \in [Task -> Peer \cup {NoPeer}]
    /\ Capable \subseteq Peer
    /\ Equipped \subseteq Peer
    /\ Rank \in [Peer -> Nat]
    /\ \A p, q \in Peer : p # q => Rank[p] # Rank[q]
    /\ Outcomes \subseteq BOOLEAN
    /\ Timeouts \subseteq Task

VARIABLES
    inbound,   \* inbound[p][q]: who dialled the connection p._inbound_peers[q]
    queue,     \* queue[l]: sent on l, the head being read or handled
    loop,      \* loop[l]: what the receiver's read loop of l awaits
    seen,      \* seen[p]: the nonces p has published or handled
    relays,    \* relays[p]: the relay tasks p has created and not yet run
    status,    \* status[p][t]: p._tasks[t].status
    claimant,  \* claimant[p][t]: p._tasks[t].claimed_by
    future,    \* future[t]: the submitter's entry of _result_futures
    ran        \* ran[p][t]: what became of p's call of its task handler

vars == <<inbound, queue, loop, seen, relays, status, claimant, future, ran>>

\* A published message; each is published at most once, so it stands for its
\* own nonce.
Message == [kind : {"submit", "claim", "result"}, task : Task,
            from : Peer, ok : BOOLEAN]

Submit(t) == [kind |-> "submit", task |-> t, from |-> Submitter[t], ok |-> TRUE]
Claim(t, p) == [kind |-> "claim", task |-> t, from |-> p, ok |-> TRUE]
\* Fault: every result says that the task was completed.
ResultAllWell(t, p, ok) == [kind |-> "result", task |-> t, from |-> p, ok |-> TRUE]
Result(t, p, ok) == [kind |-> "result", task |-> t, from |-> p, ok |-> ok]

Status == {"absent", "pending", "claimed", "running",
           "completed", "failed", "timeout"}

Terminal == {"completed", "failed", "timeout"}

LoopState == {"reading", "window", "running"}

-----------------------------------------------------------------------------
(* The connections                                                         *)

\* <<p, q, d>>: p sends to q on the connection that d of the two dialled.
Link == {<<d[1], d[2], d[1]>> : d \in Dials} \cup {<<d[2], d[1], d[1]>> : d \in Dials}

DialledBy == [p \in Peer |-> {q \in Peer : <<p, q>> \in Dials}]

DiallersOf == [p \in Peer |-> {q \in Peer : <<q, p>> \in Dials}]

\* The ids under which p has a connection, with p._inbound_peers being in_p.
Known(p, in_p) == DialledBy[p] \cup {q \in Peer : in_p[q] # NoPeer}

\* _preferred_peer_connection
Route(p, in_p, q) ==
    IF q \in DialledBy[p] THEN <<p, q, p>> ELSE <<p, in_p[q], in_p[q]>>

\* What p sends to the peers in to goes out as one copy for each id it knows,
\* whatever connections these ids share.
Ways(p, in_p, to) == {<<q, Route(p, in_p, q)>> : q \in Known(p, in_p) \cap to}

\* A message read on a connection that the other side dialled is taken to come
\* from the peer that published it, even if that peer's id is known already.
Binds(l, m) == l[3] = l[1] /\ m.from \notin DialledBy[l[2]] \cup {l[2]}

\* _inbound_peers once l[2] has read m on l, before it looks at its nonce.
Bound(l, m) ==
    IF Binds(l, m) THEN [inbound EXCEPT ![l[2]][m.from] = l[1]] ELSE inbound

-----------------------------------------------------------------------------
(* publish, and the end of _handle_publish                                 *)

\* A copy of a message that has been read may still bind its publisher's id.
Rebinds(l, m) ==
    /\ Binds(l, m)
    /\ inbound[l[2]][m.from] # l[1] \/ DiallersOf[l[2]] # {l[1]}

\* The copies of m on l, without those that would be dropped and bind nothing.
Copies(ways, l, m) ==
    LET n == Cardinality({w \in ways : w[2] = l})
    IN  IF Rebinds(l, m) THEN n
        ELSE IF m \notin seen[l[2]] /\ n > 0 THEN 1 ELSE 0

Sent(q, m, ways) ==
    [l \in Link |-> q[l] \o [i \in 1 .. Copies(ways, l, m) |-> m]]

\* The message at the head of l has been handled.
Popped(q, l) == [q EXCEPT ![l] = Tail(q[l])]

\* Fault: the handled message goes no further.
NotRelayed(p, m, in_p) == relays' = relays

\* The relay goes to the connections known now, but for the publisher's id.
RelayLater(p, m, in_p) ==
    LET ways == Ways(p, in_p, Peer \ {m.from})
    IN  relays' = [relays EXCEPT ![p] =
                      IF \E l \in Link : Copies(ways, l, m) > 0
                      THEN @ \cup {[msg |-> m, ways |-> ways]} ELSE @]

\* The loop of l is done with m at once.
Handled(l, m) ==
    /\ inbound' = Bound(l, m)
    /\ queue' = Popped(queue, l)
    /\ seen' = [seen EXCEPT ![l[2]] = @ \cup {m}]
    /\ RelayLater(l[2], m, inbound'[l[2]])

Relay(p, r) ==
    /\ r \in relays[p]
    /\ relays' = [relays EXCEPT ![p] = @ \ {r}]
    /\ queue' = Sent(queue, r.msg, r.ways)
    /\ UNCHANGED <<inbound, loop, seen, status, claimant, future, ran>>

-----------------------------------------------------------------------------
(* The submitter                                                           *)

Distribute(t) ==
    LET s == Submitter[t]
    IN  /\ future[t] = "none" /\ status[s][t] = "absent"
        /\ status' = [status EXCEPT ![s][t] = "pending"]
        /\ future' = [future EXCEPT ![t] = "waiting"]
        /\ queue' = Sent(queue, Submit(t), Ways(s, inbound[s], Peer))
        /\ seen' = [seen EXCEPT ![s] = @ \cup {Submit(t)}]
        /\ UNCHANGED <<inbound, loop, relays, claimant, ran>>

\* Fault: the future is forgotten before its result is read.
WakeTooLate(t) ==
    /\ future[t] \in {"completed", "failed"}
    /\ future' = [future EXCEPT ![t] = "gone"]
    /\ status' = [status EXCEPT ![Submitter[t]][t] = future'[t]]
    /\ UNCHANGED <<inbound, queue, loop, seen, relays, claimant, ran>>

\* wait_for returns the result, or raises the error it carries.
Wake(t) ==
    /\ future[t] \in {"completed", "failed"}
    /\ status' = [status EXCEPT ![Submitter[t]][t] = future[t]]
    /\ future' = [future EXCEPT ![t] = "gone"]
    /\ UNCHANGED <<inbound, queue, loop, seen, relays, claimant, ran>>

\* wait_for gives up; a result that is already there is returned instead.
TimeOut(t) ==
    /\ t \in Timeouts
    /\ future[t] = "waiting"
    /\ status' = [status EXCEPT ![Submitter[t]][t] = "timeout"]
    /\ future' = [future EXCEPT ![t] = "gone"]
    /\ UNCHANGED <<inbound, queue, loop, seen, relays, claimant, ran>>

-----------------------------------------------------------------------------
(* The handlers, each run by the read loop of the link l                   *)

\* Fault: copies are not recognised.
ReadsAgain(l, m) ==
    /\ loop[l] = "reading"
    /\ queue[l] # <<>> /\ m = Head(queue[l])

\* The loop reads m, which it has not seen, from l.
Reads(l, m) ==
    /\ loop[l] = "reading"
    /\ queue[l] # <<>> /\ m = Head(queue[l])
    /\ m \notin seen[l[2]]

\* A copy of a message that came on another path: it is dropped, but the id of
\* its publisher is bound to the connection it came on.
Drop(l) ==
    /\ loop[l] = "reading"
    /\ queue[l] # <<>> /\ Head(queue[l]) \in seen[l[2]]
    /\ inbound' = Bound(l, Head(queue[l]))
    /\ queue' = Popped(queue, l)
    /\ UNCHANGED <<loop, seen, relays, status, claimant, future, ran>>

\* Not for this peer, or claimed by another one already.
Declines(p, t) ==
    \/ Submitter[t] = p
    \/ Target[t] \notin {NoPeer, p}
    \/ p \notin Capable
    \/ status[p][t] = "claimed" /\ claimant[p][t] # p

DeclineSubmit(l) ==
    \E t \in Task :
        LET p == l[2]
            m == Submit(t)
        IN  /\ Reads(l, m) /\ Declines(p, t)
            /\ Handled(l, m)
            /\ UNCHANGED <<loop, status, claimant, future, ran>>

\* The peer claims the task, tells the others, and sleeps.
ClaimSubmit(l) ==
    \E t \in Task :
        LET p == l[2]
            m == Submit(t)
            c == Claim(t, p)
        IN  /\ Reads(l, m) /\ ~Declines(p, t)
            /\ status' = [status EXCEPT ![p][t] = "claimed"]
            /\ claimant' = [claimant EXCEPT ![p][t] = p]
            /\ inbound' = Bound(l, m)
            /\ queue' = Sent(queue, c, Ways(p, inbound'[p], Peer))
            /\ seen' = [seen EXCEPT ![p] = @ \cup {m, c}]
            /\ loop' = [loop EXCEPT ![l] = "window"]
            /\ UNCHANGED <<relays, future, ran>>

\* 50 ms later: the claim was lost to another peer, or nobody can run it here.
GiveUp(l) ==
    LET p == l[2]
        m == Head(queue[l])
    IN  /\ loop[l] = "window"
        /\ claimant[p][m.task] # p \/ p \notin Equipped
        /\ queue' = Popped(queue, l)
        /\ loop' = [loop EXCEPT ![l] = "reading"]
        /\ RelayLater(p, m, inbound[p])
        /\ UNCHANGED <<inbound, seen, status, claimant, future, ran>>

Run(l) ==
    LET p == l[2]
        t == Head(queue[l]).task
    IN  /\ loop[l] = "window"
        /\ claimant[p][t] = p /\ p \in Equipped
        /\ status' = [status EXCEPT ![p][t] = "running"]
        /\ ran' = [ran EXCEPT ![p][t] = "running"]
        /\ loop' = [loop EXCEPT ![l] = "running"]
        /\ UNCHANGED <<inbound, queue, seen, relays, claimant, future>>

\* The task handler returned or raised: the result is published, and the
\* submit message relayed at last.
RunEnds(l) ==
    \E ok \in Outcomes :
        LET p == l[2]
            m == Head(queue[l])
            result == Result(m.task, p, ok)
        IN  /\ loop[l] = "running"
            /\ ran' = [ran EXCEPT ![p][m.task] = IF ok THEN "completed" ELSE "failed"]
            /\ queue' = Sent(Popped(queue, l), result, Ways(p, inbound[p], Peer))
            /\ seen' = [seen EXCEPT ![p] = @ \cup {result}]
            /\ loop' = [loop EXCEPT ![l] = "reading"]
            /\ RelayLater(p, m, inbound[p])
            /\ UNCHANGED <<inbound, status, claimant, future>>

\* Fault: whoever hears another claim defers to it.
DeferToAny(p, t, claimer) == claimer

\* _handle_task_claim: who p now believes has the task.
Winner(p, t, claimer) ==
    IF Rank[claimer] < Rank[claimant[p][t]] THEN claimer ELSE claimant[p][t]

HearClaim(l) ==
    \E t \in Task, c \in Peer :
        LET p == l[2]
            m == Claim(t, c)
        IN  /\ Reads(l, m)
            /\ \/ /\ status[p][t] = "pending"
                  /\ status' = [status EXCEPT ![p][t] = "claimed"]
                  /\ claimant' = [claimant EXCEPT ![p][t] = c]
               \/ /\ status[p][t] = "claimed"
                  /\ claimant' = [claimant EXCEPT ![p][t] = Winner(p, t, c)]
                  /\ UNCHANGED status
               \/ /\ status[p][t] \notin {"pending", "claimed"}
                  /\ UNCHANGED <<status, claimant>>
            /\ Handled(l, m)
            /\ UNCHANGED <<loop, future, ran>>

\* Fault: a result is taken when nobody waits for it any more.
TakenAlways(p, t, ok) == p = Submitter[t]
\* Fault: only a completed task is reported to the waiting submitter.
TakenIfWell(p, t, ok) == p = Submitter[t] /\ future[t] = "waiting" /\ ok

\* _handle_task_result: the first one wins, if the submitter still waits.
Taken(p, t, ok) == p = Submitter[t] /\ future[t] = "waiting"

HearResult(l) ==
    \E t \in Task, e \in Peer, ok \in BOOLEAN :
        LET p == l[2]
            m == Result(t, e, ok)
            outcome == IF ok THEN "completed" ELSE "failed"
        IN  /\ Reads(l, m)
            /\ IF Taken(p, t, ok)
               THEN /\ future' = [future EXCEPT ![t] = outcome]
                    /\ status' = [status EXCEPT ![p][t] = outcome]
                    /\ claimant' = [claimant EXCEPT ![p][t] = e]
               ELSE UNCHANGED <<future, status, claimant>>
            /\ Handled(l, m)
            /\ UNCHANGED <<loop, ran>>

-----------------------------------------------------------------------------

\* Of the peers that have dialled it, each has heard last on its own connection.
Init ==
    /\ inbound = [p \in Peer |-> [q \in Peer |->
                     IF q \in DiallersOf[p] \ DialledBy[p] THEN q ELSE NoPeer]]
    /\ queue = [l \in Link |-> <<>>]
    /\ loop = [l \in Link |-> "reading"]
    /\ seen = [p \in Peer |-> {}]
    /\ relays = [p \in Peer |-> {}]
    /\ status = [p \in Peer |-> [t \in Task |-> "absent"]]
    /\ claimant = [p \in Peer |-> [t \in Task |-> NoPeer]]
    /\ future = [t \in Task |-> "none"]
    /\ ran = [p \in Peer |-> [t \in Task |-> "no"]]

\* A step of the read loop of l.
ReadLoop(l) ==
    \/ Drop(l) \/ DeclineSubmit(l) \/ ClaimSubmit(l) \/ GiveUp(l) \/ Run(l)
    \/ RunEnds(l) \/ HearClaim(l) \/ HearResult(l)

\* What the event loops of the peers do of themselves.
Progress ==
    \/ \E t \in Task : Wake(t)
    \/ \E l \in Link : ReadLoop(l)
    \/ \E p \in Peer : \E r \in relays[p] : Relay(p, r)

Next ==
    \/ Progress
    \/ \E t \in Task : Distribute(t) \/ TimeOut(t)

Spec == Init /\ [][Next]_vars

\* Handlers end and the event loops do not stand still while there is a message
\* to read or a task to run.  Progress takes finitely many steps, so which of
\* the peers is served first does not matter.
FairSpec == Spec /\ WF_vars(Progress)

-----------------------------------------------------------------------------
(* Correctness                                                             *)

TypeOK ==
    /\ inbound \in [Peer -> [Peer -> Peer \cup {NoPeer}]]
    /\ queue \in [Link -> Seq(Message)]
    /\ loop \in [Link -> LoopState]
    /\ seen \in [Peer -> SUBSET Message]
    /\ relays \in [Peer -> SUBSET [msg : Message, ways : SUBSET (Peer \X Link)]]
    /\ status \in [Peer -> [Task -> Status]]
    /\ claimant \in [Peer -> [Task -> Peer \cup {NoPeer}]]
    /\ future \in [Task -> {"none", "waiting", "completed", "failed", "gone"}]
    /\ ran \in [Peer -> [Task -> {"no", "running", "completed", "failed"}]]

\* A peer runs a task at most once, however many copies of the submission the
\* relays bring it.
RunsOnce ==
    [][\A p \in Peer, t \in Task :
          ran[p][t] # "no" => ran'[p][t] # "no" /\ (ran[p][t] # "running" => ran'[p][t] = ran[p][t])]_vars

\* What the submitter reports as the outcome is the outcome of a run on the
\* peer it names.
OutcomeIsReal ==
    \A t \in Task :
        LET s == Submitter[t]
        IN  status[s][t] \in {"completed", "failed"} =>
                /\ claimant[s][t] \in Peer
                /\ ran[claimant[s][t]][t] = status[s][t]

\* The outcome of a task is final: late claims and results change nothing.
OutcomeFinal ==
    [][\A t \in Task :
          LET s == Submitter[t]
          IN  status[s][t] \in Terminal =>
                  status'[s][t] = status[s][t] /\ claimant'[s][t] = claimant[s][t]]_vars

Quiet ==
    /\ \A l \in Link : queue[l] = <<>>
    /\ \A p \in Peer : relays[p] = {}

\* When every message has been handled, all peers that know a task name the
\* same winner.
ClaimsConverge ==
    Quiet => \A t \in Task, p, q \in Peer :
                 claimant[p][t] # NoPeer /\ claimant[q][t] # NoPeer
                     => claimant[p][t] = claimant[q][t]

\* When all messages have been handled, everything that was published has
\* reached every peer, as long as all connections stay up.
GossipComplete == Quiet => \A p, q \in Peer : seen[p] = seen[q]

\* Gossip dies out, and is complete then.
GossipReaches == []<>(Quiet /\ GossipComplete)

\* The claim race never ends with everybody deferring to somebody else, and the
\* result finds its way back: a task that is submitted gets an outcome, as long
\* as all connections stay up.
TaskAnswered ==
    \A t \in Task :
        future[t] # "none" ~> status[Submitter[t]][t] \in Terminal
=============================================================================
