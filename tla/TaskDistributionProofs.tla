----------------------- MODULE TaskDistributionProofs -----------------------
(***************************************************************************)
(* Proofs about TaskDistribution, for any peers, connections, tasks,       *)
(* submitters and targets: types, what a peer runs, and what a submitter   *)
(* reports.                                                                *)
(***************************************************************************)
EXTENDS TaskDistribution, FiniteSetTheorems, TLAPS

-----------------------------------------------------------------------------
(* The inductive invariant                                                 *)

Types ==
    /\ loop \in [Link -> LoopState]
    /\ seen \in [Peer -> SUBSET Message]
    /\ status \in [Peer -> [Task -> Status]]
    /\ claimant \in [Peer -> [Task -> Peer \cup {NoPeer}]]
    /\ future \in [Task -> {"none", "waiting", "completed", "failed", "gone"}]
    /\ ran \in [Peer -> [Task -> {"no", "running", "completed", "failed"}]]
    /\ inbound \in [Peer -> [Peer -> Peer \cup {NoPeer}]]

\* An inbound connection was dialled by the peer at its other end.
InboundFits == \A p, q \in Peer : inbound[p][q] \in DiallersOf[p] \cup {NoPeer}

Outcome(ok) == IF ok THEN "completed" ELSE "failed"

\* The messages that tell the truth about a run.
Genuine == {m \in Message : m.kind = "result" => ran[m.from][m.task] = Outcome(m.ok)}

\* Relays of messages in S, over any connections.
RelaysOf(S) == [msg : S, ways : SUBSET (Peer \X Link)]

MessagesGenuine ==
    /\ queue \in [Link -> Seq(Genuine)]
    /\ relays \in [Peer -> SUBSET RelaysOf(Genuine)]

\* What a loop that is in a handler is doing, and with which task.
Handling(l, t) ==
    /\ queue[l] # <<>> /\ Head(queue[l]) = Submit(t) /\ Submit(t) \in seen[l[2]]
    /\ Submitter[t] # l[2]
    /\ ran[l[2]][t] = IF loop[l] = "window" THEN "no" ELSE "running"

LoopsFit == \A l \in Link : loop[l] # "reading" => \E t \in Task : Handling(l, t)

\* No two loops of a peer handle the same submission.
OneLoop ==
    \A l, k \in Link :
        loop[l] # "reading" /\ loop[k] # "reading"
            /\ l[2] = k[2] /\ Head(queue[l]) = Head(queue[k]) => l = k

\* A peer runs only what it has read.
RanSeen == \A p \in Peer, t \in Task : ran[p][t] # "no" => Submit(t) \in seen[p]

\* What the submitter's entry says goes with its future.
SubmitterKnows ==
    \A t \in Task :
        LET s == Submitter[t]
        IN  /\ future[t] = "none" => status[s][t] = "absent"
            /\ future[t] = "waiting" => status[s][t] \in {"pending", "claimed"}
            /\ future[t] \in {"completed", "failed"} => status[s][t] = future[t]
            /\ future[t] = "gone" => status[s][t] \in Terminal

Loops == LoopsFit /\ OneLoop /\ RanSeen

Inv == Types /\ InboundFits /\ MessagesGenuine /\ Loops /\ SubmitterKnows /\ OutcomeIsReal

-----------------------------------------------------------------------------
(* Messages and queues                                                     *)

\* A connection joins two peers, one of which has dialled the other.
LEMMA LinkEnds ==
    ASSUME NEW l \in Link
    PROVE  /\ l[1] \in Peer /\ l[2] \in Peer
           /\ l[3] = l[1] => l[1] \in DiallersOf[l[2]]
<1>1. PICK d \in Dials : l = <<d[1], d[2], d[1]>> \/ l = <<d[2], d[1], d[1]>>
  BY DEF Link
<1>2. d \in Peer \X Peer /\ d[1] # d[2] /\ d = <<d[1], d[2]>>
  BY TaskAssumption
<1>3. l[1] \in Peer /\ l[2] \in Peer
  BY <1>1, <1>2
<1>4. l[3] = l[1] => <<l[1], l[2]>> \in Dials
  BY <1>1, <1>2
<1> QED BY <1>3, <1>4 DEF DiallersOf

LEMMA LinkPeers == \A l \in Link : l[1] \in Peer /\ l[2] \in Peer
<1> SUFFICES ASSUME NEW l \in Link PROVE l[1] \in Peer /\ l[2] \in Peer
  OBVIOUS
<1> QED BY LinkEnds

\* A known id has a connection, and what is sent goes out on connections.
LEMMA WaysFit ==
    ASSUME NEW p \in Peer, NEW in_p, NEW to \in SUBSET Peer,
           \A q \in Peer : in_p[q] \in DiallersOf[p] \cup {NoPeer}
    PROVE  Ways(p, in_p, to) \in SUBSET (Peer \X Link)
<1>1. ASSUME NEW q \in Known(p, in_p) PROVE Route(p, in_p, q) \in Link
  <2>1. CASE q \in DialledBy[p]
    <3>1. PICK d \in Dials : d = <<p, q>>
      BY <2>1 DEF DialledBy
    <3> QED BY <2>1, <3>1 DEF Route, Link
  <2>2. CASE q \notin DialledBy[p]
    <3>1. q \in Peer /\ in_p[q] \in DiallersOf[p]
      BY <1>1, <2>2 DEF Known
    <3>2. PICK d \in Dials : d = <<in_p[q], p>>
      BY <3>1 DEF DiallersOf
    <3>3. <<p, in_p[q], in_p[q]>> = <<d[2], d[1], d[1]>>
      BY <3>2
    <3> QED BY <2>2, <3>3 DEF Route, Link
  <2> QED BY <2>1, <2>2
<1> QED BY <1>1 DEF Ways

\* What a peer sends now, or relays later, goes out on connections.
LEMMA WaysNow ==
    ASSUME InboundFits, NEW p \in Peer, NEW to \in SUBSET Peer
    PROVE  Ways(p, inbound[p], to) \in SUBSET (Peer \X Link)
BY WaysFit DEF InboundFits

\* Reading a message binds an id to the connection it came on.
LEMMA BoundFits ==
    ASSUME Types, InboundFits, NEW l \in Link, NEW m \in Message,
           inbound' = Bound(l, m)
    PROVE  InboundFits' /\ inbound' \in [Peer -> [Peer -> Peer \cup {NoPeer}]]
<1>1. m.from \in Peer
  BY DEF Message
<1>2. CASE Binds(l, m)
  <2>1. l[1] \in DiallersOf[l[2]] /\ l[1] \in Peer /\ l[2] \in Peer
    BY <1>2, LinkEnds DEF Binds
  <2>2. inbound' = [inbound EXCEPT ![l[2]][m.from] = l[1]]
    BY <1>2 DEF Bound
  <2> QED BY <1>1, <2>1, <2>2 DEF Types, InboundFits
<1>3. CASE ~Binds(l, m)
  BY <1>3 DEF Bound, Types, InboundFits
<1> QED BY <1>2, <1>3

\* Messages, by what they are about.
LEMMA MessageParts ==
    ASSUME NEW t \in Task, NEW p \in Peer, NEW ok \in BOOLEAN
    PROVE  /\ Submit(t) \in Message /\ Submit(t).kind = "submit" /\ Submit(t).task = t
           /\ Claim(t, p) \in Message /\ Claim(t, p).kind = "claim"
           /\ Result(t, p, ok) \in Message /\ Result(t, p, ok).kind = "result"
           /\ Result(t, p, ok).task = t /\ Result(t, p, ok).from = p
           /\ Result(t, p, ok).ok = ok
BY TaskAssumption DEF Submit, Claim, Result, Message

\* A link carries finitely many copies of a message.
LEMMA CopiesFinite ==
    ASSUME NEW l \in Link, NEW ways \in SUBSET (Peer \X Link), NEW m
    PROVE  Copies(ways, l, m) \in Nat
<1> DEFINE W == {w \in ways : w[2] = l}
<1>1. IsFiniteSet(Peer \X {l})
  BY TaskAssumption, FS_Singleton, FS_Product
<1>2. W \subseteq Peer \X {l}
  OBVIOUS
<1>3. IsFiniteSet(W)
  BY <1>1, <1>2, FS_Subset
<1>4. Cardinality(W) \in Nat
  BY <1>3, FS_CardinalityType
<1> QED BY <1>4 DEF Copies

\* Appending copies keeps the head.
LEMMA HeadOfCopies ==
    ASSUME NEW S, NEW s \in Seq(S), NEW m \in S, NEW n \in Nat
    PROVE  LET r == s \o [i \in 1 .. n |-> m]
           IN  r \in Seq(S) /\ (s # <<>> => r # <<>> /\ Head(r) = Head(s))
<1> DEFINE c == [i \in 1 .. n |-> m]
<1>1. c \in Seq(S) /\ Len(c) = n
  OBVIOUS
<1>2. s \o c \in Seq(S) /\ Len(s \o c) = Len(s) + n
  BY <1>1
<1>3. ASSUME s # <<>> PROVE (s \o c) # <<>> /\ Head(s \o c) = Head(s)
  <2>1. Len(s) \in Nat \ {0}
    BY <1>3
  <2>2. Head(s) = s[1] /\ (s \o c)[1] = s[1]
    BY <1>1, <2>1
  <2>3. Head(s \o c) = (s \o c)[1] /\ (s \o c) # <<>>
    BY <1>2, <2>1
  <2> QED BY <2>2, <2>3
<1> QED BY <1>2, <1>3

\* Sending appends: queues keep what they hold, and their heads.
LEMMA SentKeeps ==
    ASSUME NEW S, NEW q \in [Link -> Seq(S)], NEW m \in S,
           NEW ways \in SUBSET (Peer \X Link), NEW y, y = Sent(q, m, ways)
    PROVE  /\ y \in [Link -> Seq(S)]
           /\ \A l \in Link : q[l] # <<>> => y[l] # <<>> /\ Head(y[l]) = Head(q[l])
<1>1. ASSUME NEW l \in Link
      PROVE  /\ y[l] \in Seq(S)
             /\ q[l] # <<>> => y[l] # <<>> /\ Head(y[l]) = Head(q[l])
  <2>1. PICK n \in Nat : n = Copies(ways, l, m)
    BY CopiesFinite
  <2>2. PICK s \in Seq(S) : s = q[l]
    OBVIOUS
  <2>3. y[l] = s \o [i \in 1 .. n |-> m]
    BY <2>1, <2>2 DEF Sent
  <2> QED BY <2>2, <2>3, HeadOfCopies
<1>2. y \in [Link -> Seq(S)]
  BY <1>1 DEF Sent
<1> QED BY <1>1, <1>2

\* Popping takes the head of one queue.
LEMMA PoppedKeeps ==
    ASSUME NEW S, NEW q \in [Link -> Seq(S)], NEW l \in Link, q[l] # <<>>
    PROVE  /\ Popped(q, l) \in [Link -> Seq(S)]
           /\ \A k \in Link : k # l => Popped(q, l)[k] = q[k]
           /\ Head(q[l]) \in S
BY DEF Popped

\* Sequences over a set are sequences over a larger one.
LEMMA SeqGrows ==
    ASSUME NEW S, NEW T, S \subseteq T
    PROVE  Seq(S) \subseteq Seq(T)
OBVIOUS

\* A queue of genuine messages stays one while runs keep their outcomes.
LEMMA GenuineStays ==
    ASSUME Types,
           \A p \in Peer, t \in Task :
               ran[p][t] \in {"completed", "failed"} => ran'[p][t] = ran[p][t]
    PROVE  Genuine \subseteq Genuine'
BY DEF Genuine, Message, Outcome

LEMMA RelayLaterKeeps ==
    ASSUME NEW S, relays \in [Peer -> SUBSET RelaysOf(S)],
           NEW p \in Peer, NEW m \in S, NEW in_p,
           \A q \in Peer : in_p[q] \in DiallersOf[p] \cup {NoPeer},
           RelayLater(p, m, in_p)
    PROVE  relays' \in [Peer -> SUBSET RelaysOf(S)]
<1>1. PICK ways \in SUBSET (Peer \X Link) : ways = Ways(p, in_p, Peer \ {m.from})
  BY WaysFit
<1>2. PICK r \in RelaysOf(S) : r = [msg |-> m, ways |-> ways]
  BY <1>1 DEF RelaysOf
<1>3. \/ relays' = [relays EXCEPT ![p] = @ \cup {r}]
      \/ relays' = [relays EXCEPT ![p] = @]
  BY <1>1, <1>2 DEF RelayLater
<1> QED BY <1>3

-----------------------------------------------------------------------------
(* Steps that leave the runs alone                                         *)

\* A loop may end, but none begins, and no run changes.
LEMMA LoopsStay ==
    ASSUME Loops, Types, UNCHANGED ran,
           \A p \in Peer : seen[p] \subseteq seen'[p],
           \A l \in Link : loop'[l] # "reading" =>
               /\ loop'[l] = loop[l] /\ queue'[l] # <<>>
               /\ Head(queue'[l]) = Head(queue[l])
    PROVE  Loops'
<1>1. LoopsFit'
  BY LinkPeers DEF Loops, LoopsFit, Handling
<1>2. OneLoop'
  <2> SUFFICES ASSUME NEW l \in Link, NEW k \in Link,
                      loop'[l] # "reading", loop'[k] # "reading",
                      l[2] = k[2], Head(queue'[l]) = Head(queue'[k])
               PROVE  l = k
    BY Zenon DEF OneLoop
  <2>1. /\ loop[l] # "reading" /\ loop[k] # "reading"
        /\ Head(queue[l]) = Head(queue[k])
    OBVIOUS
  <2> QED BY <2>1 DEF Loops, OneLoop
<1>3. RanSeen'
  BY DEF Loops, RanSeen, Types
<1> QED BY <1>1, <1>2, <1>3 DEF Loops

\* A handler that is done with a message at once.
LEMMA HandledStep ==
    ASSUME Inv, NEW l \in Link, NEW m, Reads(l, m), Handled(l, m),
           UNCHANGED <<loop, ran>>
    PROVE  /\ MessagesGenuine' /\ Loops' /\ seen' \in [Peer -> SUBSET Message]
           /\ InboundFits' /\ inbound' \in [Peer -> [Peer -> Peer \cup {NoPeer}]]
<1>1. queue[l] # <<>> /\ m = Head(queue[l]) /\ loop[l] = "reading"
  BY DEF Reads
<1>2. queue \in [Link -> Seq(Genuine)] /\ relays \in [Peer -> SUBSET RelaysOf(Genuine)]
  BY DEF Inv, MessagesGenuine
<1>3. /\ queue' \in [Link -> Seq(Genuine)] /\ m \in Genuine
      /\ \A k \in Link : k # l => queue'[k] = queue[k]
  BY <1>1, <1>2, PoppedKeeps DEF Handled
<1>8. InboundFits' /\ inbound' \in [Peer -> [Peer -> Peer \cup {NoPeer}]]
  BY <1>3, BoundFits DEF Handled, Inv, Genuine
<1>4. relays' \in [Peer -> SUBSET RelaysOf(Genuine)]
  <2>1. PICK p \in Peer : p = l[2]
    BY LinkPeers
  <2>2. PICK in_p : in_p = inbound'[p]
    OBVIOUS
  <2>3. RelayLater(p, m, in_p)
    BY <2>1, <2>2 DEF Handled
  <2>4. \A q \in Peer : in_p[q] \in DiallersOf[p] \cup {NoPeer}
    BY <1>8, <2>2 DEF InboundFits
  <2> QED BY <1>2, <1>3, <2>3, <2>4, RelayLaterKeeps
<1>5. Genuine' = Genuine
  BY DEF Genuine
<1>6. /\ seen' \in [Peer -> SUBSET Message]
      /\ \A p \in Peer : seen[p] \subseteq seen'[p]
  BY <1>3, LinkPeers DEF Handled, Inv, Types, Genuine
<1>7. Loops'
  <2>1. ASSUME NEW k \in Link, loop'[k] # "reading"
        PROVE  loop'[k] = loop[k] /\ queue'[k] = queue[k] /\ queue[k] # <<>>
    BY <1>1, <1>3, <2>1 DEF Inv, Loops, LoopsFit, Handling
  <2> QED BY <1>6, <2>1, LoopsStay DEF Inv
<1> QED BY <1>3, <1>4, <1>5, <1>6, <1>7, <1>8 DEF MessagesGenuine

-----------------------------------------------------------------------------
(* What a step keeps                                                       *)

\* The bodies of RunsOnce and OutcomeFinal.
RunsKept ==
    \A p \in Peer, t \in Task :
        ran[p][t] # "no" =>
            ran'[p][t] # "no" /\ (ran[p][t] # "running" => ran'[p][t] = ran[p][t])

OutcomesKept ==
    \A t \in Task :
        LET s == Submitter[t]
        IN  status[s][t] \in Terminal =>
                status'[s][t] = status[s][t] /\ claimant'[s][t] = claimant[s][t]

Kept == RunsKept /\ OutcomesKept

LEMMA SubmitterIsPeer == \A t \in Task : Submitter[t] \in Peer
BY TaskAssumption

\* A step that leaves what the submitters know.
LEMMA ReportsStay ==
    ASSUME Inv, UNCHANGED future, RunsKept,
           \A t \in Task : /\ status'[Submitter[t]][t] = status[Submitter[t]][t]
                           /\ claimant'[Submitter[t]][t] = claimant[Submitter[t]][t]
    PROVE  SubmitterKnows' /\ OutcomeIsReal' /\ OutcomesKept
<1>1. SubmitterKnows' /\ OutcomesKept
  BY DEF Inv, SubmitterKnows, OutcomesKept
<1>2. OutcomeIsReal'
  BY DEF Inv, OutcomeIsReal, RunsKept
<1> QED BY <1>1, <1>2

\* A step of a submitter: one entry and its future change.
LEMMA EntryChanges ==
    ASSUME Inv, NEW t \in Task, NEW st \in Status,
           NEW fu \in {"none", "waiting", "completed", "failed", "gone"},
           status' = [status EXCEPT ![Submitter[t]][t] = st],
           future' = [future EXCEPT ![t] = fu],
           UNCHANGED <<claimant, ran>>,
           \/ st = "pending" /\ fu = "waiting"
           \/ st = "timeout" /\ fu = "gone"
           \/ st = status[Submitter[t]][t] /\ st \in Terminal /\ fu = "gone",
           status[Submitter[t]][t] \in Terminal => st = status[Submitter[t]][t]
    PROVE  /\ status' \in [Peer -> [Task -> Status]]
           /\ future' \in [Task -> {"none", "waiting", "completed", "failed", "gone"}]
           /\ SubmitterKnows' /\ OutcomeIsReal' /\ Kept
<1>1. /\ status'[Submitter[t]][t] = st /\ future'[t] = fu
      /\ \A u \in Task : u # t => /\ status'[Submitter[u]][u] = status[Submitter[u]][u]
                                 /\ future'[u] = future[u]
  BY SubmitterIsPeer DEF Inv, Types
<1>2. SubmitterKnows'
  BY <1>1 DEF Inv, SubmitterKnows, Terminal
<1>3. OutcomeIsReal'
  BY <1>1 DEF Inv, OutcomeIsReal
<1>4. Kept
  BY <1>1 DEF Kept, RunsKept, OutcomesKept
<1> QED BY <1>2, <1>3, <1>4, SubmitterIsPeer DEF Inv, Types

\* A step of the messages alone.
LEMMA MessagesMove ==
    ASSUME Inv, UNCHANGED <<seen, status, claimant, future, ran>>,
           loop' = loop, InboundFits', inbound' \in [Peer -> [Peer -> Peer \cup {NoPeer}]],
           queue' \in [Link -> Seq(Genuine)], relays' \in [Peer -> SUBSET RelaysOf(Genuine)],
           \A l \in Link : loop[l] # "reading" => /\ queue'[l] # <<>>
                                                /\ Head(queue'[l]) = Head(queue[l])
    PROVE  Inv' /\ Kept
<1>1. Genuine' = Genuine
  BY DEF Genuine
<1>2. Loops'
  BY LoopsStay DEF Inv
<1>3. RunsKept
  BY DEF RunsKept
<1>4. SubmitterKnows' /\ OutcomeIsReal' /\ OutcomesKept
  BY <1>3, ReportsStay
<1> QED BY <1>1, <1>2, <1>3, <1>4 DEF Inv, Types, MessagesGenuine, Kept

-----------------------------------------------------------------------------
(* The steps, one by one                                                   *)

LEMMA RelayStep ==
    ASSUME Inv, NEW p \in Peer, NEW r \in relays[p], Relay(p, r)
    PROVE  Inv' /\ Kept
<1>1. queue \in [Link -> Seq(Genuine)] /\ relays \in [Peer -> SUBSET RelaysOf(Genuine)]
  BY DEF Inv, MessagesGenuine
<1>2. r.msg \in Genuine /\ r.ways \in SUBSET (Peer \X Link)
  BY <1>1 DEF RelaysOf
<1>3. /\ queue' \in [Link -> Seq(Genuine)]
      /\ \A l \in Link : queue[l] # <<>> => /\ queue'[l] # <<>>
                                           /\ Head(queue'[l]) = Head(queue[l])
  <2>1. queue' = Sent(queue, r.msg, r.ways)
    BY DEF Relay
  <2> QED BY <1>1, <1>2, <2>1, SentKeeps
<1>4. \A l \in Link : loop[l] # "reading" => queue[l] # <<>>
  BY DEF Inv, Loops, LoopsFit, Handling
<1>5. relays' \in [Peer -> SUBSET RelaysOf(Genuine)]
  BY <1>1 DEF Relay
<1>6. InboundFits' /\ inbound' \in [Peer -> [Peer -> Peer \cup {NoPeer}]]
  BY DEF Relay, Inv, InboundFits, Types
<1> QED BY <1>3, <1>4, <1>5, <1>6, MessagesMove DEF Relay

\* The head of a queue that is being read is dropped.
LEMMA DropStep ==
    ASSUME Inv, NEW l \in Link, Drop(l)
    PROVE  Inv' /\ Kept
<1>1. queue \in [Link -> Seq(Genuine)] /\ relays \in [Peer -> SUBSET RelaysOf(Genuine)]
  BY DEF Inv, MessagesGenuine
<1>2. /\ queue' \in [Link -> Seq(Genuine)] /\ Head(queue[l]) \in Genuine
      /\ \A k \in Link : k # l => queue'[k] = queue[k]
  BY <1>1, PoppedKeeps DEF Drop
<1>3. \A k \in Link : loop[k] # "reading" => queue[k] # <<>>
  BY DEF Inv, Loops, LoopsFit, Handling
<1>4. InboundFits' /\ inbound' \in [Peer -> [Peer -> Peer \cup {NoPeer}]]
  BY <1>2, BoundFits DEF Drop, Inv, Genuine
<1> QED BY <1>1, <1>2, <1>3, <1>4, MessagesMove DEF Drop

LEMMA DistributeStep ==
    ASSUME Inv, NEW t \in Task, Distribute(t)
    PROVE  Inv' /\ Kept
<1>1. Submit(t) \in Genuine
  BY TaskAssumption DEF Genuine, Submit, Message
<1>2. queue \in [Link -> Seq(Genuine)] /\ relays \in [Peer -> SUBSET RelaysOf(Genuine)]
  BY DEF Inv, MessagesGenuine
<1>3. /\ queue' \in [Link -> Seq(Genuine)]
      /\ \A l \in Link : queue[l] # <<>> => /\ queue'[l] # <<>>
                                           /\ Head(queue'[l]) = Head(queue[l])
  <2>1. PICK m \in Genuine, p \in Peer : queue' = Sent(queue, m, Ways(p, inbound[p], Peer))
    BY <1>1, SubmitterIsPeer DEF Distribute
  <2>2. Ways(p, inbound[p], Peer) \in SUBSET (Peer \X Link)
    BY WaysNow DEF Inv
  <2> QED BY <1>2, <2>1, <2>2, SentKeeps
<1>4. /\ seen' \in [Peer -> SUBSET Message]
      /\ \A p \in Peer : seen[p] \subseteq seen'[p]
  BY <1>1, SubmitterIsPeer DEF Distribute, Inv, Types, Genuine
<1>5. \A k \in Link : loop[k] # "reading" => queue[k] # <<>>
  BY DEF Inv, Loops, LoopsFit, Handling
<1>6. Loops'
  BY <1>3, <1>4, <1>5, LoopsStay DEF Distribute, Inv
<1>7. /\ status' \in [Peer -> [Task -> Status]]
      /\ future' \in [Task -> {"none", "waiting", "completed", "failed", "gone"}]
      /\ SubmitterKnows' /\ OutcomeIsReal' /\ Kept
  <2>1. "pending" \in Status /\ "absent" \notin Terminal
    BY DEF Status, Terminal
  <2> QED BY <2>1, EntryChanges DEF Distribute
<1>8. Genuine' = Genuine
  BY DEF Genuine, Distribute
<1>9. InboundFits' /\ inbound' = inbound
  BY DEF Distribute, Inv, InboundFits
<1> QED BY <1>2, <1>3, <1>4, <1>6, <1>7, <1>8, <1>9
        DEF Inv, Types, MessagesGenuine, Distribute

\* The submitter's wait ends, with an outcome or with a timeout.
LEMMA WaitEndsStep ==
    ASSUME Inv, NEW t \in Task, Wake(t) \/ TimeOut(t)
    PROVE  Inv' /\ Kept
<1>1. UNCHANGED <<inbound, queue, loop, seen, relays, claimant, ran>>
  BY DEF Wake, TimeOut
<1>2. Loops' /\ MessagesGenuine'
  BY <1>1 DEF Inv, Loops, LoopsFit, Handling, OneLoop, RanSeen, MessagesGenuine, Genuine
<1>3. /\ status' \in [Peer -> [Task -> Status]]
      /\ future' \in [Task -> {"none", "waiting", "completed", "failed", "gone"}]
      /\ SubmitterKnows' /\ OutcomeIsReal' /\ Kept
  <2>1. CASE Wake(t)
    <3>1. /\ future[t] = status[Submitter[t]][t]
          /\ future[t] \in Status /\ future[t] \in Terminal
      BY <2>1 DEF Wake, Inv, SubmitterKnows, Status, Terminal
    <3> QED BY <2>1, <3>1, EntryChanges DEF Wake
  <2>2. CASE TimeOut(t)
    <3>1. "timeout" \in Status /\ status[Submitter[t]][t] \notin Terminal
      BY <2>2 DEF TimeOut, Inv, SubmitterKnows, Status, Terminal
    <3> QED BY <2>2, <3>1, EntryChanges DEF TimeOut
  <2> QED BY <2>1, <2>2
<1> QED BY <1>1, <1>2, <1>3 DEF Inv, Types, InboundFits

\* A peer that is not to run a task is done with its submission.
LEMMA DeclineStep ==
    ASSUME Inv, NEW l \in Link, DeclineSubmit(l)
    PROVE  Inv' /\ Kept
<1>1. PICK m : Reads(l, m) /\ Handled(l, m)
  BY DEF DeclineSubmit
<1>2. UNCHANGED <<loop, status, claimant, future, ran>>
  BY DEF DeclineSubmit
<1>3. /\ MessagesGenuine' /\ Loops' /\ seen' \in [Peer -> SUBSET Message]
      /\ InboundFits' /\ inbound' \in [Peer -> [Peer -> Peer \cup {NoPeer}]]
  BY <1>1, <1>2, HandledStep
<1>4. RunsKept
  BY <1>2 DEF RunsKept
<1>5. SubmitterKnows' /\ OutcomeIsReal' /\ OutcomesKept
  BY <1>2, <1>4, ReportsStay
<1> QED BY <1>2, <1>3, <1>4, <1>5 DEF Inv, Types, Kept

\* A claim opens the window of a loop, for a task its peer has not read of.
LEMMA ClaimStep ==
    ASSUME Inv, NEW l \in Link, ClaimSubmit(l)
    PROVE  Inv' /\ Kept
<1> DEFINE p == l[2]
<1>1. PICK t \in Task :
          /\ Reads(l, Submit(t)) /\ ~Declines(p, t)
          /\ status' = [status EXCEPT ![p][t] = "claimed"]
          /\ claimant' = [claimant EXCEPT ![p][t] = p]
          /\ inbound' = Bound(l, Submit(t))
          /\ queue' = Sent(queue, Claim(t, p), Ways(p, inbound'[p], Peer))
          /\ seen' = [seen EXCEPT ![p] = @ \cup {Submit(t), Claim(t, p)}]
          /\ loop' = [loop EXCEPT ![l] = "window"]
          /\ UNCHANGED <<relays, future, ran>>
  BY DEF ClaimSubmit
<1>2. p \in Peer /\ Submitter[t] # p
  BY <1>1, LinkPeers DEF Declines
<1>3. /\ loop[l] = "reading" /\ queue[l] # <<>> /\ Head(queue[l]) = Submit(t)
      /\ Submit(t) \notin seen[p]
  BY <1>1 DEF Reads
<1>4. PICK c \in Genuine : c = Claim(t, p)
  BY <1>2, TaskAssumption DEF Genuine, Claim, Message
<1>5. queue \in [Link -> Seq(Genuine)] /\ relays \in [Peer -> SUBSET RelaysOf(Genuine)]
  BY DEF Inv, MessagesGenuine
<1>17. InboundFits' /\ inbound' \in [Peer -> [Peer -> Peer \cup {NoPeer}]]
  <2>1. Submit(t) \in Message
    BY <1>2, TRUE \in BOOLEAN, MessageParts
  <2> QED BY <1>1, <2>1, BoundFits DEF Inv
<1>6. /\ queue' \in [Link -> Seq(Genuine)]
      /\ \A k \in Link : queue[k] # <<>> => /\ queue'[k] # <<>>
                                           /\ Head(queue'[k]) = Head(queue[k])
  <2>1. PICK ways \in SUBSET (Peer \X Link) : ways = Ways(p, inbound'[p], Peer)
    BY <1>2, <1>17, WaysFit DEF InboundFits
  <2>2. queue' = Sent(queue, c, ways)
    BY <1>1, <1>4, <2>1
  <2> QED BY <1>5, <2>2, SentKeeps
<1>7. Genuine' = Genuine
  BY <1>1 DEF Genuine
<1>8. /\ seen' \in [Peer -> SUBSET Message] /\ Submit(t) \in seen'[p]
      /\ \A q \in Peer : seen[q] \subseteq seen'[q]
  <2>1. PICK new \in SUBSET Message : new = {Submit(t), Claim(t, p)}
    <3>1. Submit(t) \in Message /\ Claim(t, p) \in Message
      BY <1>2, TRUE \in BOOLEAN, MessageParts
    <3> QED BY <3>1
  <2>2. seen' = [seen EXCEPT ![p] = @ \cup new] /\ Submit(t) \in new
    BY <1>1, <2>1
  <2> QED BY <1>2, <2>2 DEF Inv, Types
<1>9. \A k \in Link : loop[k] # "reading" => queue[k] # <<>>
  BY DEF Inv, Loops, LoopsFit, Handling
<1>10. /\ loop' \in [Link -> LoopState] /\ loop'[l] = "window"
       /\ \A k \in Link : k # l => loop'[k] = loop[k]
  BY <1>1 DEF Inv, Types, LoopState
<1>11. LoopsFit'
  <2> SUFFICES ASSUME NEW k \in Link, loop'[k] # "reading"
               PROVE  \E u \in Task : Handling(k, u)'
    BY DEF LoopsFit
  <2>1. CASE k = l
    <3>1. ran[p][t] = "no"
      BY <1>2, <1>3 DEF Inv, Loops, RanSeen
    <3>2. Handling(l, t)'
      BY <1>1, <1>2, <1>3, <1>6, <1>8, <1>10, <3>1 DEF Handling
    <3> QED BY <2>1, <3>2
  <2>2. CASE k # l
    <3>1. PICK u \in Task : Handling(k, u)
      BY <1>10, <2>2 DEF Inv, Loops, LoopsFit
    <3>2. Handling(k, u)'
      BY <1>1, <1>6, <1>8, <1>10, <2>2, <3>1, LinkPeers DEF Handling
    <3> QED BY <3>2
  <2> QED BY <2>1, <2>2
<1>12. OneLoop'
  <2>1. ASSUME NEW k \in Link, k # l, loop[k] # "reading", k[2] = p
        PROVE  Head(queue[k]) # Submit(t)
    BY <1>3, <2>1 DEF Inv, Loops, LoopsFit, Handling
  <2> SUFFICES ASSUME NEW j \in Link, NEW k \in Link,
                      loop'[j] # "reading", loop'[k] # "reading",
                      j[2] = k[2], Head(queue'[j]) = Head(queue'[k]), j # k
               PROVE  FALSE
    BY Zenon DEF OneLoop
  <2>2. CASE j = l
    BY <1>3, <1>6, <1>9, <1>10, <2>1, <2>2
  <2>3. CASE k = l
    BY <1>3, <1>6, <1>9, <1>10, <2>1, <2>3
  <2>4. CASE j # l /\ k # l
    BY <1>6, <1>9, <1>10, <2>4 DEF Inv, Loops, OneLoop
  <2> QED BY <2>2, <2>3, <2>4
<1>13. RanSeen'
  BY <1>1, <1>8 DEF Inv, Loops, RanSeen
<1>14. RunsKept
  BY <1>1 DEF RunsKept
<1>15. /\ status' \in [Peer -> [Task -> Status]]
       /\ claimant' \in [Peer -> [Task -> Peer \cup {NoPeer}]]
  <2>1. "claimed" \in Status
    BY DEF Status
  <2> QED BY <1>1, <1>2, <2>1 DEF Inv, Types
<1>16. SubmitterKnows' /\ OutcomeIsReal' /\ OutcomesKept
  <2>1. \A u \in Task : /\ status'[Submitter[u]][u] = status[Submitter[u]][u]
                        /\ claimant'[Submitter[u]][u] = claimant[Submitter[u]][u]
    BY <1>1, <1>2, SubmitterIsPeer DEF Inv, Types
  <2> QED BY <1>1, <1>14, <2>1, ReportsStay
<1> QED BY <1>1, <1>5, <1>6, <1>7, <1>8, <1>10, <1>11, <1>12, <1>13, <1>14, <1>15, <1>16, <1>17
        DEF Inv, Types, MessagesGenuine, Loops, Kept

\* The end of a window without a run.
LEMMA GiveUpStep ==
    ASSUME Inv, NEW l \in Link, GiveUp(l)
    PROVE  Inv' /\ Kept
<1>1. UNCHANGED <<inbound, seen, status, claimant, future, ran>>
  BY DEF GiveUp
<1>2. queue \in [Link -> Seq(Genuine)] /\ relays \in [Peer -> SUBSET RelaysOf(Genuine)]
  BY DEF Inv, MessagesGenuine
<1>3. queue[l] # <<>> /\ l[2] \in Peer
  BY LinkPeers DEF Inv, Loops, LoopsFit, Handling, GiveUp
<1>4. /\ queue' \in [Link -> Seq(Genuine)] /\ Head(queue[l]) \in Genuine
      /\ \A k \in Link : k # l => queue'[k] = queue[k]
  BY <1>2, <1>3, PoppedKeeps DEF GiveUp
<1>5. relays' \in [Peer -> SUBSET RelaysOf(Genuine)]
  BY <1>2, <1>3, <1>4, RelayLaterKeeps DEF GiveUp, Inv, InboundFits
<1>6. Genuine' = Genuine
  BY <1>1 DEF Genuine
<1>7. /\ loop' \in [Link -> LoopState] /\ loop'[l] = "reading"
      /\ \A k \in Link : k # l => loop'[k] = loop[k]
  BY DEF GiveUp, Inv, Types, LoopState
<1>8. Loops'
  <2>1. ASSUME NEW k \in Link, loop'[k] # "reading"
        PROVE  loop'[k] = loop[k] /\ queue'[k] = queue[k] /\ queue[k] # <<>>
    BY <1>4, <1>7, <2>1 DEF Inv, Loops, LoopsFit, Handling
  <2> QED BY <1>1, <2>1, LoopsStay DEF Inv
<1>9. RunsKept
  BY <1>1 DEF RunsKept
<1>10. SubmitterKnows' /\ OutcomeIsReal' /\ OutcomesKept
  BY <1>1, <1>9, ReportsStay
<1> QED BY <1>1, <1>4, <1>5, <1>6, <1>7, <1>8, <1>9, <1>10
        DEF Inv, Types, InboundFits, MessagesGenuine, Kept

\* A run begins: it is the first of its task on that peer.
LEMMA RunStep ==
    ASSUME Inv, NEW l \in Link, Run(l)
    PROVE  Inv' /\ Kept
<1> DEFINE p == l[2]
<1>1. PICK t \in Task : Handling(l, t)
  BY DEF Inv, Loops, LoopsFit, Run
<1>2. /\ p \in Peer /\ Submitter[t] # p /\ Head(queue[l]) = Submit(t)
      /\ Submit(t).task = t /\ ran[p][t] = "no" /\ Submit(t) \in seen[p]
      /\ queue[l] # <<>>
  BY <1>1, LinkPeers DEF Handling, Run, Submit
<1>3. /\ status' = [status EXCEPT ![p][t] = "running"]
      /\ ran' = [ran EXCEPT ![p][t] = "running"]
      /\ loop[l] = "window" /\ loop' = [loop EXCEPT ![l] = "running"]
      /\ UNCHANGED <<inbound, queue, seen, relays, claimant, future>>
  BY <1>2 DEF Run
<1>4. /\ ran' \in [Peer -> [Task -> {"no", "running", "completed", "failed"}]]
      /\ ran'[p][t] = "running"
      /\ \A q \in Peer, u \in Task : q # p \/ u # t => ran'[q][u] = ran[q][u]
  BY <1>2, <1>3 DEF Inv, Types
<1>5. /\ loop' \in [Link -> LoopState] /\ loop'[l] = "running"
      /\ \A k \in Link : k # l => loop'[k] = loop[k]
  BY <1>3 DEF Inv, Types, LoopState
<1>6. LoopsFit'
  <2> SUFFICES ASSUME NEW k \in Link, loop'[k] # "reading"
               PROVE  \E u \in Task : Handling(k, u)'
    BY DEF LoopsFit
  <2>1. CASE k = l
    <3>1. Handling(l, t)'
      BY <1>2, <1>3, <1>4, <1>5 DEF Handling
    <3> QED BY <2>1, <3>1
  <2>2. CASE k # l
    <3>1. PICK u \in Task : Handling(k, u)
      BY <1>5, <2>2 DEF Inv, Loops, LoopsFit
    <3>2. k[2] # p \/ u # t
      BY <1>2, <1>3, <1>5, <2>2, <3>1 DEF Inv, Loops, OneLoop, Handling
    <3>3. Handling(k, u)'
      BY <1>3, <1>4, <1>5, <2>2, <3>1, <3>2, LinkPeers DEF Handling
    <3> QED BY <3>3
  <2> QED BY <2>1, <2>2
<1>7. OneLoop'
  BY <1>3, <1>5 DEF Inv, Loops, OneLoop
<1>8. RanSeen'
  BY <1>2, <1>3, <1>4 DEF Inv, Loops, RanSeen
<1>9. RunsKept
  BY <1>2, <1>4 DEF RunsKept
<1>10. MessagesGenuine'
  <2>1. Genuine \subseteq Genuine'
    BY <1>9, GenuineStays DEF RunsKept, Inv
  <2>2. Seq(Genuine) \subseteq Seq(Genuine')
    BY <2>1, SeqGrows
  <2>3. RelaysOf(Genuine) \subseteq RelaysOf(Genuine')
    BY <2>1 DEF RelaysOf
  <2>4. RelaysOf(Genuine') = RelaysOf(Genuine)'
    BY DEF RelaysOf
  <2> QED BY <1>3, <2>2, <2>3, <2>4 DEF Inv, MessagesGenuine
<1>11. status' \in [Peer -> [Task -> Status]]
  <2>1. "running" \in Status
    BY DEF Status
  <2> QED BY <1>2, <1>3, <2>1 DEF Inv, Types
<1>12. SubmitterKnows' /\ OutcomeIsReal' /\ OutcomesKept
  <2>1. \A u \in Task : status'[Submitter[u]][u] = status[Submitter[u]][u]
    BY <1>2, <1>3, SubmitterIsPeer DEF Inv, Types
  <2> QED BY <1>3, <1>9, <2>1, ReportsStay
<1> QED BY <1>3, <1>4, <1>5, <1>6, <1>7, <1>8, <1>9, <1>10, <1>11, <1>12
        DEF Inv, Types, InboundFits, Loops, Kept

\* A run ends, and its result says how.
LEMMA RunEndsStep ==
    ASSUME Inv, NEW l \in Link, RunEnds(l)
    PROVE  Inv' /\ Kept
<1> DEFINE p == l[2]
<1>1. PICK t \in Task : Handling(l, t)
  BY DEF Inv, Loops, LoopsFit, RunEnds
<1>2. /\ p \in Peer /\ Submitter[t] # p /\ Head(queue[l]) = Submit(t)
      /\ Submit(t).task = t /\ ran[p][t] = "running" /\ Submit(t) \in seen[p]
      /\ queue[l] # <<>>
  BY <1>1, LinkPeers DEF Handling, RunEnds, Submit
<1>3. PICK ok \in BOOLEAN :
          /\ ran' = [ran EXCEPT ![p][t] = Outcome(ok)]
          /\ queue' = Sent(Popped(queue, l), Result(t, p, ok), Ways(p, inbound[p], Peer))
          /\ seen' = [seen EXCEPT ![p] = @ \cup {Result(t, p, ok)}]
          /\ loop[l] = "running" /\ loop' = [loop EXCEPT ![l] = "reading"]
          /\ RelayLater(p, Submit(t), inbound[p])
          /\ UNCHANGED <<inbound, status, claimant, future>>
  BY <1>2, TaskAssumption DEF RunEnds, Outcome
<1>4. /\ ran' \in [Peer -> [Task -> {"no", "running", "completed", "failed"}]]
      /\ ran'[p][t] = Outcome(ok)
      /\ \A q \in Peer, u \in Task : q # p \/ u # t => ran'[q][u] = ran[q][u]
  BY <1>2, <1>3 DEF Inv, Types, Outcome
<1>5. RunsKept
  BY <1>2, <1>4 DEF RunsKept, Outcome
<1>6. PICK S : S = Genuine'
  OBVIOUS
<1>7. queue \in [Link -> Seq(S)] /\ relays \in [Peer -> SUBSET RelaysOf(S)]
  <2>1. Genuine \subseteq S
    BY <1>5, <1>6, GenuineStays DEF RunsKept, Inv
  <2>2. Seq(Genuine) \subseteq Seq(S)
    BY <2>1, SeqGrows
  <2>3. RelaysOf(Genuine) \subseteq RelaysOf(S)
    BY <2>1 DEF RelaysOf
  <2> QED BY <2>2, <2>3 DEF Inv, MessagesGenuine
<1>8. PICK m \in S : m = Result(t, p, ok)
  <2>1. /\ Result(t, p, ok) \in Message /\ Result(t, p, ok).task = t
        /\ Result(t, p, ok).from = p /\ Result(t, p, ok).ok = ok
    BY <1>2, MessageParts
  <2> QED BY <1>4, <1>6, <2>1 DEF Genuine
<1>9. PICK q \in [Link -> Seq(S)] :
          /\ q = Popped(queue, l) /\ \A k \in Link : k # l => q[k] = queue[k]
  BY <1>2, <1>7, PoppedKeeps
<1>10. /\ queue' \in [Link -> Seq(S)]
       /\ \A k \in Link : q[k] # <<>> => queue'[k] # <<>> /\ Head(queue'[k]) = Head(q[k])
  <2>1. PICK ways \in SUBSET (Peer \X Link) : ways = Ways(p, inbound[p], Peer)
    BY <1>2, WaysNow DEF Inv
  <2>2. queue' = Sent(q, m, ways)
    BY <1>3, <1>8, <1>9, <2>1
  <2> QED BY <1>8, <1>9, <2>2, SentKeeps
<1>11. relays' \in [Peer -> SUBSET RelaysOf(S)]
  <2>1. Submit(t) \in S
    BY <1>2, <1>7, PoppedKeeps
  <2> QED BY <1>2, <1>3, <1>7, <2>1, RelayLaterKeeps DEF Inv, InboundFits
<1>12. /\ seen' \in [Peer -> SUBSET Message]
       /\ \A r \in Peer : seen[r] \subseteq seen'[r]
  BY <1>2, <1>3, <1>6, <1>8 DEF Inv, Types, Genuine
<1>13. /\ loop' \in [Link -> LoopState] /\ loop'[l] = "reading"
       /\ \A k \in Link : k # l => loop'[k] = loop[k]
  BY <1>3 DEF Inv, Types, LoopState
<1>14. LoopsFit'
  <2> SUFFICES ASSUME NEW k \in Link, loop'[k] # "reading"
               PROVE  \E u \in Task : Handling(k, u)'
    BY DEF LoopsFit
  <2>1. k # l /\ loop[k] = loop'[k]
    BY <1>13
  <2>2. PICK u \in Task : Handling(k, u)
    BY <2>1 DEF Inv, Loops, LoopsFit
  <2>3. k[2] # p \/ u # t
    BY <1>2, <1>3, <2>1, <2>2 DEF Inv, Loops, OneLoop, Handling
  <2>4. ran'[k[2]][u] = ran[k[2]][u] /\ q[k] = queue[k]
    BY <1>4, <1>9, <2>1, <2>3, LinkPeers
  <2>5. Handling(k, u)'
    BY <1>10, <1>12, <2>1, <2>2, <2>4, LinkPeers DEF Handling
  <2> QED BY <2>5
<1>15. OneLoop'
  <2>1. ASSUME NEW k \in Link, loop'[k] # "reading"
        PROVE  loop[k] # "reading" /\ Head(queue'[k]) = Head(queue[k])
    BY <1>9, <1>10, <1>13, <2>1 DEF Inv, Loops, LoopsFit, Handling
  <2> QED BY <2>1 DEF Inv, Loops, OneLoop
<1>16. RanSeen'
  BY <1>2, <1>4, <1>12 DEF Inv, Loops, RanSeen
<1>17. SubmitterKnows' /\ OutcomeIsReal' /\ OutcomesKept
  BY <1>3, <1>5, ReportsStay
<1> QED BY <1>3, <1>4, <1>5, <1>6, <1>10, <1>11, <1>12, <1>13, <1>14, <1>15, <1>16, <1>17
        DEF Inv, Types, InboundFits, MessagesGenuine, Loops, Kept

\* A claim that is heard: only an undecided entry changes.
LEMMA HearClaimStep ==
    ASSUME Inv, NEW l \in Link, HearClaim(l)
    PROVE  Inv' /\ Kept
<1> DEFINE p == l[2]
<1>1. PICK t \in Task, c \in Peer :
          /\ Reads(l, Claim(t, c)) /\ Handled(l, Claim(t, c))
          /\ UNCHANGED <<loop, future, ran>>
          /\ \/ /\ status[p][t] \in {"pending", "claimed"}
                /\ status' = [status EXCEPT ![p][t] = "claimed"]
                /\ \E w \in Peer \cup {NoPeer} : claimant' = [claimant EXCEPT ![p][t] = w]
             \/ UNCHANGED <<status, claimant>>
  <2>1. PICK t \in Task, c \in Peer :
            /\ Reads(l, Claim(t, c)) /\ Handled(l, Claim(t, c))
            /\ UNCHANGED <<loop, future, ran>>
            /\ \/ /\ status[p][t] = "pending"
                  /\ status' = [status EXCEPT ![p][t] = "claimed"]
                  /\ claimant' = [claimant EXCEPT ![p][t] = c]
               \/ /\ status[p][t] = "claimed" /\ status' = status
                  /\ claimant' = [claimant EXCEPT ![p][t] = Winner(p, t, c)]
               \/ UNCHANGED <<status, claimant>>
    BY DEF HearClaim
  <2>2. /\ p \in Peer /\ Winner(p, t, c) \in Peer \cup {NoPeer}
    BY LinkPeers DEF Winner, Inv, Types
  <2>3. status[p][t] = "claimed" => status = [status EXCEPT ![p][t] = "claimed"]
    BY <2>2 DEF Inv, Types
  <2> QED BY <2>1, <2>2, <2>3
<1>2. /\ MessagesGenuine' /\ Loops' /\ seen' \in [Peer -> SUBSET Message]
      /\ InboundFits' /\ inbound' \in [Peer -> [Peer -> Peer \cup {NoPeer}]]
  BY <1>1, HandledStep
<1>3. RunsKept
  BY <1>1 DEF RunsKept
<1>4. CASE UNCHANGED <<status, claimant>>
  <2>1. SubmitterKnows' /\ OutcomeIsReal' /\ OutcomesKept
    BY <1>1, <1>3, <1>4, ReportsStay
  <2> QED BY <1>1, <1>2, <1>3, <1>4, <2>1 DEF Inv, Types, Kept
<1>5. ASSUME status[p][t] \in {"pending", "claimed"},
             status' = [status EXCEPT ![p][t] = "claimed"],
             NEW w \in Peer \cup {NoPeer}, claimant' = [claimant EXCEPT ![p][t] = w]
      PROVE  Inv' /\ Kept
  <2>1. p \in Peer /\ "claimed" \in Status
    BY LinkPeers DEF Status
  <2>2. /\ status' \in [Peer -> [Task -> Status]] /\ status'[p][t] = "claimed"
        /\ claimant' \in [Peer -> [Task -> Peer \cup {NoPeer}]]
        /\ \A q \in Peer, u \in Task :
               q # p \/ u # t => /\ status'[q][u] = status[q][u]
                                /\ claimant'[q][u] = claimant[q][u]
    BY <1>5, <2>1 DEF Inv, Types
  <2>3. Submitter[t] = p => future[t] = "waiting"
    BY <1>5 DEF Inv, Types, SubmitterKnows, Terminal
  <2>4. SubmitterKnows'
    BY <1>1, <2>2, <2>3, SubmitterIsPeer DEF Inv, SubmitterKnows
  <2>5. OutcomeIsReal'
    BY <1>1, <2>2, SubmitterIsPeer DEF Inv, OutcomeIsReal
  <2>6. OutcomesKept
    BY <1>5, <2>2, SubmitterIsPeer DEF OutcomesKept, Terminal
  <2> QED BY <1>1, <1>2, <1>3, <2>2, <2>4, <2>5, <2>6 DEF Inv, Types, Kept
<1> QED BY <1>1, <1>4, <1>5

\* A result that is heard: a submitter that waits takes it.
LEMMA HearResultStep ==
    ASSUME Inv, NEW l \in Link, HearResult(l)
    PROVE  Inv' /\ Kept
<1> DEFINE p == l[2]
<1>1. PICK t \in Task, e \in Peer, ok \in BOOLEAN :
          /\ Reads(l, Result(t, e, ok)) /\ Handled(l, Result(t, e, ok))
          /\ UNCHANGED <<loop, ran>>
          /\ IF Taken(p, t, ok)
             THEN /\ future' = [future EXCEPT ![t] = Outcome(ok)]
                  /\ status' = [status EXCEPT ![p][t] = Outcome(ok)]
                  /\ claimant' = [claimant EXCEPT ![p][t] = e]
             ELSE UNCHANGED <<future, status, claimant>>
  BY DEF HearResult, Outcome
<1>2. /\ MessagesGenuine' /\ Loops' /\ seen' \in [Peer -> SUBSET Message]
      /\ InboundFits' /\ inbound' \in [Peer -> [Peer -> Peer \cup {NoPeer}]]
  BY <1>1, HandledStep
<1>3. RunsKept
  BY <1>1 DEF RunsKept
<1>4. CASE UNCHANGED <<future, status, claimant>>
  <2>1. SubmitterKnows' /\ OutcomeIsReal' /\ OutcomesKept
    BY <1>1, <1>3, <1>4, ReportsStay
  <2> QED BY <1>1, <1>2, <1>3, <1>4, <2>1 DEF Inv, Types, Kept
<1>5. CASE Taken(p, t, ok)
  <2>1. ran[e][t] = Outcome(ok)
    <3>1. Result(t, e, ok) \in Genuine
      BY <1>1, PoppedKeeps DEF Reads, Inv, MessagesGenuine
    <3> QED BY <3>1, MessageParts DEF Genuine
  <2>2. p = Submitter[t] /\ future[t] = "waiting" /\ p \in Peer
    BY <1>5, SubmitterIsPeer DEF Taken
  <2>3. /\ Outcome(ok) \in {"completed", "failed"} /\ Outcome(ok) \in Status
    BY DEF Outcome, Status
  <2>4. /\ future' = [future EXCEPT ![t] = Outcome(ok)]
        /\ status' = [status EXCEPT ![p][t] = Outcome(ok)]
        /\ claimant' = [claimant EXCEPT ![p][t] = e]
    BY <1>1, <1>5
  <2>5. /\ future' \in [Task -> {"none", "waiting", "completed", "failed", "gone"}]
        /\ status' \in [Peer -> [Task -> Status]]
        /\ claimant' \in [Peer -> [Task -> Peer \cup {NoPeer}]]
        /\ future'[t] = Outcome(ok) /\ status'[p][t] = Outcome(ok) /\ claimant'[p][t] = e
    BY <2>2, <2>3, <2>4 DEF Inv, Types
  <2>6. \A q \in Peer, u \in Task :
            u # t => /\ status'[q][u] = status[q][u] /\ claimant'[q][u] = claimant[q][u]
                     /\ future'[u] = future[u]
    BY <2>2, <2>4 DEF Inv, Types
  <2>7. SubmitterKnows'
    BY <2>2, <2>3, <2>5, <2>6, SubmitterIsPeer DEF Inv, SubmitterKnows
  <2>8. OutcomeIsReal'
    BY <1>1, <2>1, <2>2, <2>5, <2>6, SubmitterIsPeer DEF Inv, OutcomeIsReal
  <2>9. OutcomesKept
    <3>1. status[p][t] \notin Terminal
      BY <2>2 DEF Inv, SubmitterKnows, Terminal
    <3> QED BY <2>2, <2>6, <3>1, SubmitterIsPeer DEF OutcomesKept
  <2> QED BY <1>1, <1>2, <1>3, <2>5, <2>7, <2>8, <2>9 DEF Inv, Types, Kept
<1> QED BY <1>1, <1>4, <1>5

-----------------------------------------------------------------------------
(* The theorems                                                            *)

\* The initial states satisfy the invariant.
LEMMA InitInv == Init => Inv
<1> SUFFICES ASSUME Init PROVE Inv
  OBVIOUS
<1>1. Types
  BY TaskAssumption DEF Init, Types, LoopState, Status, DiallersOf
<1>2. MessagesGenuine
  BY DEF Init, MessagesGenuine
<1>3. Loops
  BY DEF Init, Loops, LoopsFit, OneLoop, RanSeen
<1>4. SubmitterKnows /\ OutcomeIsReal
  BY SubmitterIsPeer DEF Init, SubmitterKnows, OutcomeIsReal
<1>5. InboundFits
  BY DEF Init, InboundFits
<1> QED BY <1>1, <1>2, <1>3, <1>4, <1>5 DEF Inv

\* Every step keeps it, and what has run and been reported.
LEMMA NextInv ==
    ASSUME Inv, [Next]_vars
    PROVE  Inv' /\ Kept
<1>1. ASSUME NEW l \in Link, ReadLoop(l)
      PROVE  Inv' /\ Kept
  <2>1. CASE Drop(l)
    BY <2>1, DropStep
  <2>2. CASE DeclineSubmit(l)
    BY <2>2, DeclineStep
  <2>3. CASE ClaimSubmit(l)
    BY <2>3, ClaimStep
  <2>4. CASE GiveUp(l)
    BY <2>4, GiveUpStep
  <2>5. CASE Run(l)
    BY <2>5, RunStep
  <2>6. CASE RunEnds(l)
    BY <2>6, RunEndsStep
  <2>7. CASE HearClaim(l)
    BY <2>7, HearClaimStep
  <2>8. CASE HearResult(l)
    BY <2>8, HearResultStep
  <2> QED BY <1>1, <2>1, <2>2, <2>3, <2>4, <2>5, <2>6, <2>7, <2>8 DEF ReadLoop
<1>2. CASE Progress
  BY <1>1, <1>2, RelayStep, WaitEndsStep DEF Progress
<1>3. ASSUME NEW t \in Task, Distribute(t) \/ TimeOut(t)
      PROVE  Inv' /\ Kept
  BY <1>3, DistributeStep, WaitEndsStep
<1>4. CASE UNCHANGED vars
  <2>1. RunsKept
    BY <1>4 DEF vars, RunsKept
  <2>2. SubmitterKnows' /\ OutcomeIsReal' /\ OutcomesKept
    BY <1>4, <2>1, ReportsStay DEF vars
  <2>3. Loops' /\ MessagesGenuine' /\ Types' /\ InboundFits'
    BY <1>4 DEF vars, Inv, Loops, LoopsFit, Handling, OneLoop, RanSeen,
                MessagesGenuine, Genuine, Types, InboundFits
  <2> QED BY <2>1, <2>2, <2>3 DEF Inv, Kept
<1> QED BY <1>2, <1>3, <1>4 DEF Next

\* The invariant holds always.
THEOREM Invariant == Spec => []Inv
<1>1. Inv /\ [Next]_vars => Inv'
  BY NextInv
<1> QED BY InitInv, <1>1, PTL DEF Spec

\* The variables keep their types, whatever peers, connections and tasks.
THEOREM TypeCorrect == Spec => []TypeOK
<1>1. Inv => TypeOK
  <2>1. Genuine \subseteq Message
    BY DEF Genuine
  <2>2. Seq(Genuine) \subseteq Seq(Message)
    BY <2>1, SeqGrows
  <2>3. RelaysOf(Genuine) \subseteq [msg : Message, ways : SUBSET (Peer \X Link)]
    BY <2>1 DEF RelaysOf
  <2> QED BY <2>2, <2>3 DEF Inv, Types, MessagesGenuine, TypeOK
<1> QED BY <1>1, Invariant, PTL

\* What a submitter reports is the outcome of a run on the peer it names, over
\* any connections and with copies of the messages (_handle_task_result).
THEOREM OutcomesAreReal == Spec => []OutcomeIsReal
<1>1. Inv => OutcomeIsReal
  BY DEF Inv
<1> QED BY <1>1, Invariant, PTL

\* An outcome is final: late claims and results change nothing.
THEOREM OutcomesAreFinal == Spec => OutcomeFinal
<1>1. Inv /\ [Next]_vars =>
          [\A t \in Task :
              LET s == Submitter[t]
              IN  status[s][t] \in Terminal =>
                      status'[s][t] = status[s][t] /\ claimant'[s][t] = claimant[s][t]]_vars
  BY NextInv DEF Kept, OutcomesKept
<1> QED BY <1>1, Invariant, PTL DEF Spec, OutcomeFinal

\* A peer runs a task at most once, however many copies of the submission reach
\* it (the nonces that publish and _handle_publish remember).
THEOREM TasksRunOnce == Spec => RunsOnce
<1>1. Inv /\ [Next]_vars =>
          [\A p \in Peer, t \in Task :
              ran[p][t] # "no" =>
                  ran'[p][t] # "no" /\ (ran[p][t] # "running" => ran'[p][t] = ran[p][t])]_vars
  BY NextInv DEF Kept, RunsKept
<1> QED BY <1>1, Invariant, PTL DEF Spec, RunsOnce
=============================================================================
