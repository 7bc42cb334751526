-------------------------- MODULE McpSessionProofs --------------------------
(***************************************************************************)
(* Proofs about McpSession, for any operations, buffers, pipes and number  *)
(* of cancellations, with servers that read frames and with servers that   *)
(* read lines: which answers are taken, and that no process is left.       *)
(***************************************************************************)
EXTENDS McpSession, SequenceTheorems, TLAPS

Operations == {"call", "describe", "read"}

\* Requests of script o that were answered before its message n is sent.
Answered(n) == IF n <= 2 THEN n - 1 ELSE n - 2

-----------------------------------------------------------------------------
(* Facts about the scripts                                                 *)

\* A script has three or five messages, of which the second alone is a
\* notification.
LEMMA ScriptShape ==
    ASSUME NEW o \in Operations
    PROVE  /\ Len(Script(o)) \in {3, 5}
           /\ \A n \in 1 .. Len(Script(o)) :
                 /\ Script(o)[n] \in Message
                 /\ IsRequest(Script(o)[n]) <=> n # 2
           /\ Script(o)[2] = "initialized"
<1>1. CASE o = "call"     BY <1>1 DEF Script, IsRequest, Message
<1>2. CASE o = "describe" BY <1>2 DEF Script, IsRequest, Message
<1>3. CASE o = "read"     BY <1>3 DEF Script, IsRequest, Message
<1> QED BY <1>1, <1>2, <1>3 DEF Operations

\* The request at place n of a script follows Answered(n) others.
LEMMA RequestAt ==
    ASSUME NEW o \in Operations, NEW n \in 1 .. Len(Script(o)), n # 2
    PROVE  /\ Answered(n) \in Nat
           /\ Answered(n) + 1 \in 1 .. Len(Requests(o))
           /\ Requests(o)[Answered(n) + 1] = Script(o)[n]
           /\ n = Len(Script(o)) => Answered(n) + 1 = Len(Requests(o))
           /\ n # Len(Script(o)) => /\ n + 1 \in 1 .. Len(Script(o))
                                    /\ Answered(n + 1) = Answered(n) + 1
<1>1. Len(Script(o)) \in {3, 5}
  BY ScriptShape
<1>2. Len(Requests(o)) = Len(Script(o)) - 1
  BY <1>1 DEF Requests
<1>3. CASE n = 1
  BY <1>1, <1>2, <1>3 DEF Requests, Answered
<1>4. CASE n # 1
  <2>1. n \in Nat /\ n >= 3 /\ n <= Len(Script(o))
    BY <1>1, <1>4
  <2>2. Answered(n) = n - 2 /\ Answered(n + 1) = n - 1
    BY <2>1 DEF Answered
  <2>3. n - 1 \in 1 .. Len(Script(o)) - 1 /\ n - 1 # 1
    BY <1>1, <2>1
  <2>4. Requests(o)[n - 1] = Script(o)[n - 1 + 1]
    BY <2>3 DEF Requests
  <2>5. n - 1 + 1 = n
    BY <2>1
  <2> QED BY <1>1, <1>2, <2>1, <2>2, <2>3, <2>4, <2>5
<1> QED BY <1>3, <1>4

-----------------------------------------------------------------------------
(* The inductive invariant                                                 *)

\* While the operation runs, the answers taken are good answers to the
\* requests sent before.
Progressing ==
    pc \in {"sending", "waiting"} =>
        /\ outcome = "none"
        /\ Len(taken) = Answered(next)
        /\ \A k \in 1 .. Len(taken) : taken[k].is = "ok"

\* Frames: between two requests nothing is under way but the notification.
Quiet ==
    framing = "frames" /\ pc = "sending" =>
        /\ outbox = <<>>
        /\ \/ inbox = <<>>
           \/ inbox = <<"initialized">> /\ next # 2

\* Frames: one request is under way at a time: on its way to the child or lost, or
\* answered; a torn answer leaves the request where it was.
OneUnderWay ==
    framing = "frames" /\ pc = "waiting" =>
        /\ next # 2
        /\ \/ /\ outbox = <<>>
              /\ inbox \in {<<>>, <<"initialized">>, <<Current>>,
                            <<"initialized", Current>>}
           \/ /\ Len(outbox) = 1 /\ outbox[1].to = Current
              /\ \/ inbox = <<>>
                 \/ outbox[1].is = "torn" /\ child = "gone"

\* Lines: the first request is never answered, but for errors without an id, as
\* long as the child's stdin stays open.
Unread ==
    framing = "lines" =>
        /\ outcome # "result"
        /\ pc \in {"sending", "waiting"} =>
              /\ next = 1 /\ ~closed
              /\ \A k \in 1 .. Len(outbox) :
                    outbox[k].to = "nobody" /\ outbox[k].is # "ok"

Draining == pc = "draining" => outcome = "none"

TypedInv == TypeOK /\ Quiet /\ OneUnderWay /\ Unread

Inv == TypedInv /\ Progressing /\ Draining /\ AnswerIsOwn

-----------------------------------------------------------------------------
\* The initial states satisfy the invariant.
LEMMA InitInv == Init => Inv
<1> SUFFICES ASSUME Init PROVE Inv
  OBVIOUS
<1> USE SessionAssumption
<1>1. op \in Operations
  BY DEF Init, Operations
<1>2. Len(Script(op)) \in {3, 5}
  BY <1>1, ScriptShape
<1>3. /\ op \in Operation /\ pc \in ClientState /\ outcome \in Outcome
      /\ child \in {"reading", "stuck", "exiting", "gone"}
      /\ closed \in BOOLEAN /\ cut \in BOOLEAN
      /\ framing \in {"frames", "lines"} /\ partial \in Message \cup {"none"}
  BY DEF Init, ClientState, Outcome
<1>4. next \in 1 .. Len(Script(op)) /\ cancels \in 0 .. MaxCancels
  BY <1>2 DEF Init
<1>5. taken \in Seq(Answer) /\ inbox \in Seq(Message) /\ outbox \in Seq(Answer)
  BY EmptySeq DEF Init
<1>6. TypeOK
  BY <1>3, <1>4, <1>5 DEF TypeOK
<1>7. Quiet /\ OneUnderWay /\ Unread /\ Progressing /\ Draining
  BY DEF Init, Quiet, OneUnderWay, Unread, Progressing, Draining, Answered
<1>8. Len(Requests(op)) \in Nat
  BY <1>2 DEF Requests
<1>9. AnswerIsOwn
  BY <1>8 DEF Init, AnswerIsOwn
<1> QED BY <1>6, <1>7, <1>9 DEF Inv, TypedInv

\* Reading a message: the head of a queue, and what is left of it.
LEMMA HeadOfQueue ==
    ASSUME NEW S, NEW q \in Seq(S), q # <<>>
    PROVE  Head(q) \in S /\ Tail(q) \in Seq(S) /\ Head(q) = q[1]
           /\ Len(q) \in Nat \ {0} /\ Len(Tail(q)) = Len(q) - 1
OBVIOUS

\* Adding a message to a queue.
LEMMA Appended ==
    ASSUME NEW S, NEW q \in Seq(S), NEW x \in S
    PROVE  /\ Append(q, x) \in Seq(S)
           /\ Len(Append(q, x)) = Len(q) + 1
           /\ \A k \in 1 .. Len(q) : Append(q, x)[k] = q[k]
           /\ Append(q, x)[Len(q) + 1] = x
OBVIOUS

\* Queues of at most two messages.
LEMMA ShortQueues ==
    ASSUME NEW x, NEW y
    PROVE  /\ Append(<<>>, x) = <<x>> /\ Append(<<x>>, y) = <<x, y>>
           /\ Tail(<<x>>) = <<>> /\ Tail(<<x, y>>) = <<y>>
           /\ Head(<<x>>) = x /\ Head(<<x, y>>) = x
<1>1. Append(<<x>>, y) = <<x, y>>
  <2>1. <<x>> \in Seq({x, y}) /\ <<x, y>> \in Seq({x, y}) /\ Len(<<x>>) = 1
    OBVIOUS
  <2>2. /\ Append(<<x>>, y) \in Seq({x, y})
        /\ Len(Append(<<x>>, y)) = 2
        /\ Append(<<x>>, y)[1] = x /\ Append(<<x>>, y)[2] = y
    BY <2>1, Appended
  <2>3. Len(<<x, y>>) = 2 /\ <<x, y>>[1] = x /\ <<x, y>>[2] = y
    OBVIOUS
  <2>4. \A i \in 1 .. 2 : i = 1 \/ i = 2
    OBVIOUS
  <2> QED BY <2>1, <2>2, <2>3, <2>4, SeqEqual
<1>2. Append(<<>>, x) = <<x>>
  OBVIOUS
<1>3. Tail(<<x>>) = <<>> /\ Tail(<<x, y>>) = <<y>>
  OBVIOUS
<1>4. Head(<<x>>) = x /\ Head(<<x, y>>) = x
  OBVIOUS
<1> QED BY <1>1, <1>2, <1>3, <1>4

\* Every step keeps the types.
LEMMA TypeStep == SessionAssumption /\ TypedInv /\ [Next]_vars => TypeOK'
<1> SUFFICES ASSUME SessionAssumption, TypedInv, [Next]_vars PROVE TypeOK'
  OBVIOUS
<1> USE DEF TypedInv
<1>1. op \in Operations
  BY DEF TypeOK, SessionAssumption, Operations
<1>2. Current \in Message /\ (IsRequest(Current) <=> next # 2)
  BY <1>1, ScriptShape DEF TypeOK, Current
<1>3. CASE Send
  <2>1. Append(inbox, Current) \in Seq(Message)
    BY <1>2, Appended DEF TypeOK
  <2>2. next' \in 1 .. Len(Script(op)')
    <3>1. CASE IsRequest(Current)
      BY <1>3, <3>1 DEF Send, TypeOK
    <3>2. CASE ~IsRequest(Current)
      <4>1. next = 2 /\ Len(Script(op)) \in {3, 5}
        BY <1>1, <1>2, <3>2, ScriptShape
      <4>2. next' = 3 /\ op' = op
        BY <1>3, <3>2, <4>1 DEF Send
      <4> QED BY <4>1, <4>2
    <3> QED BY <3>1, <3>2
  <2>3. inbox' \in Seq(Message) /\ pc' \in ClientState
    BY <1>3, <2>1 DEF Send, TypeOK, ClientState
  <2> QED BY <1>3, <2>2, <2>3 DEF Send, TypeOK
<1>4. CASE Receive \/ ReceiveBad
  <2>1. Head(outbox) \in Answer /\ Tail(outbox) \in Seq(Answer) /\ outbox # <<>>
    BY <1>4, HeadOfQueue DEF Receive, ReceiveBad, TypeOK
  <2>2. Append(taken, Head(outbox)) \in Seq(Answer)
    BY <2>1, Appended DEF TypeOK
  <2>3. taken' \in Seq(Answer) /\ outbox' \in Seq(Answer)
    BY <1>4, <2>1, <2>2 DEF Receive, ReceiveBad
  <2>4. next' \in 1 .. Len(Script(op)') /\ op' = op
    <3>1. pc = "waiting" /\ next # 2 /\ op' = op
      BY <1>4 DEF Receive, ReceiveBad, OneUnderWay, Unread, TypeOK
    <3>2. ~Last => next + 1 \in 1 .. Len(Script(op))
      BY <1>1, <3>1, RequestAt DEF TypeOK, Last
    <3> QED BY <1>4, <3>1, <3>2 DEF Receive, ReceiveBad, TypeOK
  <2>5. Head(outbox).is \in {"ok", "failed", "error", "torn"}
    BY <2>1 DEF Answer
  <2>6. outcome' \in Outcome /\ pc' \in ClientState /\ closed' \in BOOLEAN
    BY <1>4, <2>5 DEF Receive, ReceiveBad, Finish, Outcome, ClientState, TypeOK
  <2> QED BY <1>4, <2>3, <2>4, <2>6 DEF Receive, ReceiveBad, TypeOK
<1>5. CASE SendBroken \/ Eof \/ Drained \/ TimeOut \/ Flushed \/ Left \/ Kill
  BY <1>5 DEF SendBroken, Eof, Drained, TimeOut, Flushed, Left, Kill, Finish,
     TypeOK, Outcome, ClientState
<1>6. CASE Cancel
  <2>1. cancels' \in 0 .. MaxCancels
    BY <1>6 DEF Cancel, TypeOK, SessionAssumption
  <2>2. pc' \in ClientState /\ outcome' \in Outcome
        /\ closed' \in BOOLEAN /\ cut' \in BOOLEAN
    BY <1>6 DEF Cancel, Finish, TypeOK, Outcome, ClientState
  <2> QED BY <1>6, <2>1, <2>2 DEF Cancel, TypeOK
<1>11. ASSUME NEW m \in Message, Handle(m) PROVE outbox' \in Seq(Answer)
  <2>1. ASSUME NEW r \in Replies(m)
        PROVE  Append(outbox, [to |-> m, is |-> r]) \in Seq(Answer)
    <3>1. [to |-> m, is |-> r] \in Answer
      BY DEF Answer, Replies
    <3> QED BY <3>1, Appended DEF TypeOK
  <2> QED BY <1>11, <2>1 DEF Handle, TypeOK
<1>7. CASE Reply \/ ReplyLine
  <2>1. Head(inbox) \in Message /\ Tail(inbox) \in Seq(Message)
    BY <1>7, HeadOfQueue DEF Reply, ReplyLine, TypeOK
  <2>2. CASE Reply
    BY <1>11, <2>1, <2>2 DEF Reply, TypeOK
  <2>3. CASE ReplyLine
    <3>1. [to |-> "nobody", is |-> "error"] \in Answer
      BY DEF Answer
    <3>2. outbox' \in Seq(Answer)
      BY <2>3, <3>1, Appended DEF ReplyLine, TypeOK
    <3> QED BY <2>1, <2>3, <3>2 DEF ReplyLine, TypeOK
  <2> QED BY <1>7, <2>2, <2>3
<1>12. CASE LastLine
  <2>1. partial \in Message
    BY <1>12 DEF LastLine, TypeOK
  <2> QED BY <1>11, <1>12, <2>1 DEF LastLine, TypeOK
<1>8. CASE Crash
  <2>1. ASSUME inbox # <<>>
        PROVE  Append(outbox, [to |-> Head(inbox), is |-> "torn"]) \in Seq(Answer)
    <3>1. [to |-> Head(inbox), is |-> "torn"] \in Answer
      BY <2>1, HeadOfQueue DEF Answer, TypeOK
    <3> QED BY <3>1, Appended DEF TypeOK
  <2>3. Append(outbox, [to |-> "nobody", is |-> "torn"]) \in Seq(Answer)
    <3>1. [to |-> "nobody", is |-> "torn"] \in Answer
      BY DEF Answer
    <3> QED BY <3>1, Appended DEF TypeOK
  <2>2. outbox' \in Seq(Answer)
    BY <1>8, <2>1, <2>3 DEF Crash, TypeOK
  <2> QED BY <1>8, <2>2 DEF Crash, TypeOK
<1>9. CASE Shutdown \/ Exit \/ Stick
  BY <1>9 DEF Shutdown, Exit, Stick, TypeOK
<1>10. CASE UNCHANGED vars
  BY <1>10 DEF vars, TypeOK
<1> QED
  BY <1>3, <1>4, <1>5, <1>6, <1>7, <1>8, <1>9, <1>10, <1>12 DEF Next, Client, Child

\* What the child reads does not change.
LEMMA FramingStays == [Next]_vars => framing' = framing
BY DEF Next, Client, Child, vars, Send, SendBroken, Receive, ReceiveBad, Eof, Drained,
   TimeOut, Flushed, Left, Kill, Cancel, Reply, ReplyLine, LastLine, Shutdown, Exit,
   Crash, Stick

\* A server that reads lines: every step keeps the first request unanswered.
LEMMA UnreadStep ==
    SessionAssumption /\ TypedInv /\ [Next]_vars /\ framing = "lines" => Unread'
<1> SUFFICES ASSUME SessionAssumption, TypedInv, [Next]_vars, framing = "lines"
             PROVE  Unread'
  OBVIOUS
<1> USE DEF TypedInv
<1>1. op \in Operations
  BY DEF TypeOK, SessionAssumption, Operations
<1>2. outcome # "result"
  BY DEF Unread
<1>3. CASE Send
  <2>1. next = 1 /\ IsRequest(Current)
    BY <1>1, <1>3, ScriptShape DEF Send, Unread, Current, TypeOK
  <2> QED BY <1>3, <2>1 DEF Send, Unread
<1>4. CASE Receive \/ ReceiveBad
  <2>1. outbox # <<>> /\ Head(outbox) = outbox[1] /\ 1 \in 1 .. Len(outbox)
    BY <1>4, HeadOfQueue DEF Receive, ReceiveBad, TypeOK
  <2>2. Head(outbox).is # "ok"
    BY <1>4, <2>1 DEF Receive, ReceiveBad, Unread
  <2>3. ReceiveBad /\ Head(outbox).is \in {"failed", "error", "torn"}
    <3>1. Head(outbox) \in Answer
      BY <2>1, HeadOfQueue DEF TypeOK
    <3>2. Head(outbox).is \in {"ok", "failed", "error", "torn"}
      BY <3>1 DEF Answer
    <3> QED BY <1>4, <2>2, <3>2 DEF Receive
  <2>4. outcome' # "result" /\ pc' = "flushing"
    BY <2>3 DEF ReceiveBad, Finish
  <2> QED BY <2>4 DEF Unread
<1>5. CASE SendBroken \/ Eof \/ Drained \/ TimeOut \/ Flushed \/ Left \/ Kill \/ Cancel
  <2>1. /\ pc' \in {"draining", "flushing", "leaving", "killed", "ended"}
        /\ outcome' = outcome \/ outcome' # "result"
    BY <1>5 DEF SendBroken, Eof, Drained, TimeOut, Flushed, Left, Kill, Cancel, Finish
  <2> QED BY <1>2, <2>1 DEF Unread
<1>6. CASE ReplyLine \/ Crash
  <2>1. PICK x : /\ x.to = "nobody" /\ x.is # "ok" /\ x \in Answer
                 /\ outbox' = outbox \/ outbox' = Append(outbox, x)
    <3>1. CASE ReplyLine
      <4>1. [to |-> "nobody", is |-> "error"] \in Answer
        BY DEF Answer
      <4> QED BY <3>1, <4>1 DEF ReplyLine
    <3>2. CASE Crash
      <4>1. [to |-> "nobody", is |-> "torn"] \in Answer
        BY DEF Answer
      <4> QED BY <3>2, <4>1 DEF Crash
    <3> QED BY <1>6, <3>1, <3>2
  <2>2. UNCHANGED <<pc, next, outcome, closed>>
    BY <1>6 DEF ReplyLine, Crash
  <2>3. ASSUME pc \in {"sending", "waiting"}, NEW k \in 1 .. Len(outbox')
        PROVE  outbox'[k].to = "nobody" /\ outbox'[k].is # "ok"
    <3>1. \A i \in 1 .. Len(outbox) : outbox[i].to = "nobody" /\ outbox[i].is # "ok"
      BY <2>3 DEF Unread
    <3>2. CASE outbox' = outbox
      BY <3>1, <3>2
    <3>3. CASE outbox' = Append(outbox, x)
      <4>1. /\ Len(outbox') = Len(outbox) + 1 /\ Len(outbox) \in Nat
            /\ \A i \in 1 .. Len(outbox) : outbox'[i] = outbox[i]
            /\ outbox'[Len(outbox) + 1] = x
        BY <2>1, <3>3, Appended DEF TypeOK
      <4> QED BY <2>1, <2>3, <3>1, <4>1
    <3> QED BY <2>1, <3>2, <3>3
  <2> QED BY <1>2, <2>2, <2>3 DEF Unread
<1>7. CASE Reply
  BY <1>7 DEF Reply
<1>8. CASE LastLine
  <2>1. closed /\ UNCHANGED <<pc, outcome>>
    BY <1>8 DEF LastLine
  <2> QED BY <2>1 DEF Unread
<1>9. CASE Shutdown \/ Exit \/ Stick \/ UNCHANGED vars
  BY <1>9 DEF Shutdown, Exit, Stick, vars, Unread
<1> QED
  BY <1>3, <1>4, <1>5, <1>6, <1>7, <1>8, <1>9 DEF Next, Client, Child

\* A server that reads frames: every step keeps one request under way at a time.
LEMMA OneUnderWayStep ==
    SessionAssumption /\ TypedInv /\ [Next]_vars /\ framing = "frames"
        => Quiet' /\ OneUnderWay'
<1> SUFFICES ASSUME SessionAssumption, TypedInv, [Next]_vars, framing = "frames"
             PROVE  Quiet' /\ OneUnderWay'
  OBVIOUS
<1> USE DEF TypedInv
<1>1. op \in Operations
  BY DEF TypeOK, SessionAssumption, Operations
<1>2. Current \in Message /\ (IsRequest(Current) <=> next # 2)
  BY <1>1, ScriptShape DEF TypeOK, Current
<1>3. CASE Send
  <2>1. outbox' = <<>> /\ op' = op
        /\ (inbox = <<>> \/ (inbox = <<"initialized">> /\ next # 2))
    BY <1>3 DEF Send, Quiet
  <2>2. inbox' \in {inbox, Append(inbox, Current)}
    BY <1>3 DEF Send
  <2>3. CASE IsRequest(Current)
    <3>1. pc' = "waiting" /\ next' = next /\ next # 2 /\ Current' = Current
      BY <1>2, <1>3, <2>1, <2>3 DEF Send, Current
    <3>2. inbox' \in {<<>>, <<"initialized">>, <<Current>>, <<"initialized", Current>>}
      <4>1. /\ Append(<<>>, Current) = <<Current>>
            /\ Append(<<"initialized">>, Current) = <<"initialized", Current>>
        BY ShortQueues
      <4>2. CASE inbox = <<>>
        BY <2>2, <4>1, <4>2, Zenon
      <4>3. CASE inbox = <<"initialized">>
        BY <2>2, <4>1, <4>3, Zenon
      <4> QED BY <2>1, <4>2, <4>3
    <3> QED BY <2>1, <3>1, <3>2 DEF Quiet, OneUnderWay
  <2>4. CASE ~IsRequest(Current)
    <3>1. next = 2 /\ pc' = "sending" /\ next' = 3 /\ Current = "initialized"
      BY <1>2, <1>3, <2>4 DEF Send, IsRequest
    <3>2. inbox' \in {<<>>, <<"initialized">>}
      BY <2>1, <2>2, <3>1
    <3> QED BY <2>1, <3>1, <3>2 DEF Quiet, OneUnderWay
  <2> QED BY <2>3, <2>4
<1>4. CASE Receive
  <2>1. Len(outbox) = 1 /\ inbox = <<>>
    BY <1>4 DEF Receive, OneUnderWay
  <2>2. outbox' = <<>> /\ inbox' = <<>> /\ pc' \in {"sending", "flushing"}
    BY <1>4, <2>1, HeadOfQueue, EmptySeq DEF Receive, Finish, TypeOK
  <2> QED BY <2>2 DEF Quiet, OneUnderWay
<1>5. CASE \/ ReceiveBad \/ SendBroken \/ Eof \/ Drained \/ TimeOut \/ Flushed
           \/ Left \/ Kill \/ Cancel
  <2>1. pc' \in {"draining", "flushing", "leaving", "killed", "ended"}
    BY <1>5 DEF ReceiveBad, SendBroken, Eof, Drained, TimeOut, Flushed, Left,
       Kill, Cancel, Finish
  <2> QED BY <2>1 DEF Quiet, OneUnderWay
<1>6. CASE Reply
  <2>1. /\ inbox # <<>> /\ inbox' = Tail(inbox) /\ child = "reading"
        /\ pc' = pc /\ next' = next /\ Current' = Current
    BY <1>6 DEF Reply, Current
  <2>2. CASE pc = "sending"
    <3>1. inbox = <<"initialized">> /\ outbox = <<>>
      BY <2>1, <2>2 DEF Quiet
    <3>2. inbox' = <<>> /\ outbox' = <<>>
      BY <1>6, <2>1, <3>1 DEF Reply, Handle, IsRequest
    <3> QED BY <2>1, <2>2, <3>2 DEF Quiet, OneUnderWay
  <2>3. CASE pc = "waiting"
    <3>1. /\ outbox = <<>> /\ next # 2 /\ IsRequest(Current)
          /\ inbox \in {<<"initialized">>, <<Current>>, <<"initialized", Current>>}
      BY <1>2, <2>1, <2>3 DEF OneUnderWay
    <3>2. CASE Head(inbox) = "initialized"
      <4>1. outbox' = <<>>
        BY <1>6, <3>1, <3>2 DEF Reply, Handle, IsRequest
      <4>2. inbox' \in {<<>>, <<Current>>}
        <5>1. /\ Tail(<<"initialized">>) = <<>>
              /\ Tail(<<"initialized", Current>>) = <<Current>>
          BY ShortQueues
        <5>2. inbox # <<Current>>
          BY <3>1, <3>2, ShortQueues DEF IsRequest
        <5>3. inbox = <<"initialized">> \/ inbox = <<"initialized", Current>>
          BY <3>1, <5>2, Zenon
        <5> QED BY <2>1, <5>1, <5>3, Zenon
      <4> QED BY <2>1, <2>3, <3>1, <4>1, <4>2 DEF Quiet, OneUnderWay
    <3>3. CASE Head(inbox) # "initialized"
      <4>1. inbox = <<Current>> /\ inbox' = <<>>
        BY <2>1, <3>1, <3>3
      <4>2. PICK r : outbox' = Append(outbox, [to |-> Current, is |-> r])
        BY <1>6, <3>1, <4>1 DEF Reply, Handle
      <4>3. Len(outbox') = 1 /\ outbox'[1].to = Current
        BY <3>1, <4>2
      <4> QED BY <2>1, <2>3, <3>1, <4>1, <4>3 DEF Quiet, OneUnderWay
    <3> QED BY <3>2, <3>3
  <2>4. CASE pc \notin {"sending", "waiting"}
    BY <2>1, <2>4 DEF Quiet, OneUnderWay
  <2> QED BY <2>2, <2>3, <2>4
<1>7. CASE Crash
  <2>1. /\ child = "reading" /\ child' = "gone" /\ inbox' = inbox
        /\ pc' = pc /\ next' = next /\ Current' = Current
    BY <1>7 DEF Crash, Current
  <2>2. CASE outbox' = outbox
    BY <2>1, <2>2 DEF Quiet, OneUnderWay
  <2>3. CASE outbox' # outbox
    <3>1. /\ inbox # <<>> /\ IsRequest(Head(inbox))
          /\ outbox' = Append(outbox, [to |-> Head(inbox), is |-> "torn"])
      BY <1>7, <2>3 DEF Crash
    <3>2. pc # "sending"
      BY <3>1 DEF Quiet, IsRequest
    <3>3. CASE pc = "waiting"
      <4>1. outbox = <<>> /\ inbox = <<Current>> /\ next # 2
        BY <2>1, <3>1, <3>3 DEF OneUnderWay, IsRequest
      <4>2. /\ Len(outbox') = 1 /\ outbox'[1].to = Current
            /\ outbox'[1].is = "torn"
        BY <3>1, <4>1
      <4> QED BY <2>1, <3>3, <4>1, <4>2 DEF Quiet, OneUnderWay
    <3> QED BY <2>1, <3>2, <3>3 DEF Quiet, OneUnderWay
  <2> QED BY <2>2, <2>3
<1>8. CASE Shutdown \/ Exit \/ Stick
  BY <1>8 DEF Shutdown, Exit, Stick, Quiet, OneUnderWay, Current
<1>10. ~ReplyLine /\ ~LastLine
  BY DEF ReplyLine, LastLine
<1>9. CASE UNCHANGED vars
  BY <1>9 DEF vars, Quiet, OneUnderWay, Current
<1> QED
  BY <1>3, <1>4, <1>5, <1>6, <1>7, <1>8, <1>9, <1>10 DEF Next, Client, Child

\* Every step keeps what relates the answers taken to the requests sent.
LEMMA AnswersStep ==
    SessionAssumption /\ Inv /\ [Next]_vars => Progressing' /\ Draining' /\ AnswerIsOwn'
<1> SUFFICES ASSUME SessionAssumption, Inv, [Next]_vars
             PROVE  Progressing' /\ Draining' /\ AnswerIsOwn'
  OBVIOUS
<1> USE DEF Inv, TypedInv
<1>1. op \in Operations /\ next \in 1 .. Len(Script(op)) /\ taken \in Seq(Answer)
  BY DEF TypeOK, SessionAssumption, Operations
<1>2. Len(Script(op)) \in {3, 5}
  BY <1>1, ScriptShape
<1>3. CASE Send
  <2>1. /\ op' = op /\ taken' = taken /\ outcome' = outcome
        /\ outcome = "none" /\ pc' \in {"sending", "waiting"}
    BY <1>3 DEF Send, Progressing
  <2>2. Answered(next') = Answered(next)
    <3>1. CASE IsRequest(Current)
      BY <1>3, <3>1 DEF Send
    <3>2. CASE ~IsRequest(Current)
      <4>1. next = 2 /\ next' = 3
        BY <1>1, <1>3, <3>2, ScriptShape DEF Send, Current
      <4> QED BY <4>1 DEF Answered
    <3> QED BY <3>1, <3>2
  <2>3. Progressing'
    BY <1>3, <2>1, <2>2 DEF Send, Progressing
  <2> QED BY <2>1, <2>3 DEF Draining, AnswerIsOwn
<1>4. CASE Receive \/ ReceiveBad
  <2>1. /\ pc = "waiting" /\ op' = op /\ outbox # <<>>
        /\ taken' = Append(taken, Head(outbox))
    BY <1>4 DEF Receive, ReceiveBad
  <2>2. /\ next # 2 /\ Head(outbox) = outbox[1] /\ Head(outbox) \in Answer
        /\ \/ Head(outbox).to = Current
           \/ Head(outbox).to = "nobody" /\ Head(outbox).is # "ok"
    <3>1. Head(outbox) = outbox[1] /\ Head(outbox) \in Answer /\ 1 \in 1 .. Len(outbox)
      BY <2>1, HeadOfQueue DEF TypeOK
    <3>2. CASE framing = "frames"
      BY <2>1, <3>1, <3>2 DEF OneUnderWay
    <3>3. CASE framing = "lines"
      BY <2>1, <3>1, <3>3 DEF Unread
    <3> QED BY <3>1, <3>2, <3>3 DEF TypeOK
  <2>3. Len(taken) = Answered(next) /\ \A k \in 1 .. Len(taken) : taken[k].is = "ok"
    BY <2>1 DEF Progressing
  <2>4. /\ Len(taken) \in Nat /\ Len(taken') = Len(taken) + 1
        /\ \A k \in 1 .. Len(taken) : taken'[k] = taken[k]
        /\ taken'[Len(taken) + 1] = Head(outbox)
    BY <1>1, <2>1, <2>2, Appended
  <2>5. /\ Len(taken) + 1 <= Len(Requests(op))
        /\ Requests(op)[Len(taken) + 1] = Current
        /\ Last => Len(taken) + 1 = Len(Requests(op))
        /\ ~Last => Answered(next + 1) = Len(taken) + 1
    BY <1>1, <2>2, <2>3, RequestAt DEF Last, Current
  <2>6. \A k \in 1 .. Len(taken') :
            \/ taken'[k].to = Requests(op)[k]
            \/ taken'[k].to = "nobody" /\ taken'[k].is # "ok"
    <3> TAKE k \in 1 .. Len(taken')
    <3>1. CASE k = Len(taken) + 1
      BY <2>2, <2>4, <2>5, <3>1
    <3>2. CASE k \in 1 .. Len(taken)
      BY <2>4, <3>2 DEF AnswerIsOwn
    <3> QED BY <2>4, <3>1, <3>2
  <2>7. Len(taken') <= Len(Requests(op))
    BY <2>4, <2>5
  <2>8. CASE Receive
    <3>1. \A k \in 1 .. Len(taken') : taken'[k].is = "ok"
      <4> TAKE k \in 1 .. Len(taken')
      <4>1. CASE k = Len(taken) + 1
        BY <2>4, <2>8, <4>1 DEF Receive
      <4>2. CASE k \in 1 .. Len(taken)
        BY <2>3, <2>4, <4>2
      <4> QED BY <2>4, <4>1, <4>2
    <3>2. CASE Last
      <4>1. pc' = "flushing" /\ outcome' = "result"
        BY <2>8, <3>2 DEF Receive, Finish
      <4>2. Len(taken') = Len(Requests(op))
        BY <2>4, <2>5, <3>2
      <4> QED BY <2>1, <2>6, <2>7, <3>1, <4>1, <4>2
              DEF Progressing, Draining, AnswerIsOwn
    <3>3. CASE ~Last
      <4>1. pc' = "sending" /\ outcome' = "none" /\ next' = next + 1
        BY <2>1, <2>8, <3>3 DEF Receive, Progressing
      <4>2. Len(taken') = Answered(next')
        BY <2>4, <2>5, <3>3, <4>1
      <4> QED BY <2>1, <2>6, <2>7, <3>1, <4>1, <4>2
              DEF Progressing, Draining, AnswerIsOwn
    <3> QED BY <3>2, <3>3
  <2>9. CASE ReceiveBad
    <3>1. Head(outbox).is \in {"failed", "error", "torn"}
      BY <2>2, <2>9 DEF ReceiveBad, Answer
    <3>2. pc' = "flushing" /\ outcome' \in {"toolerror", "unavailable", "broken"}
      BY <2>9, <3>1 DEF ReceiveBad, Finish
    <3> QED BY <2>1, <2>6, <2>7, <3>2 DEF Progressing, Draining, AnswerIsOwn
  <2> QED BY <1>4, <2>8, <2>9
<1>5. CASE SendBroken \/ Eof \/ Drained \/ TimeOut \/ Flushed \/ Left \/ Kill \/ Cancel
  <2>1. /\ op' = op /\ taken' = taken
        /\ pc' \in {"draining", "flushing", "leaving", "killed", "ended"}
    BY <1>5 DEF SendBroken, Eof, Drained, TimeOut, Flushed, Left, Kill, Cancel, Finish
  <2>2. outcome' = outcome \/ outcome' # "result"
    BY <1>5 DEF SendBroken, Eof, Drained, TimeOut, Flushed, Left, Kill, Cancel, Finish
  <2>3. pc' = "draining" => outcome' = "none"
    BY <1>5 DEF SendBroken, Eof, Drained, TimeOut, Flushed, Left, Kill, Cancel,
       Finish, Progressing, Draining
  <2> QED BY <2>1, <2>2, <2>3 DEF Progressing, Draining, AnswerIsOwn
<1>6. CASE Child \/ UNCHANGED vars
  <2>1. UNCHANGED <<op, pc, next, taken, outcome>>
    BY <1>6 DEF Child, Reply, ReplyLine, LastLine, Shutdown, Exit, Crash, Stick, vars
  <2> QED BY <2>1 DEF Progressing, Draining, AnswerIsOwn
<1> QED BY <1>3, <1>4, <1>5, <1>6 DEF Next, Client

\* The invariant is inductive.
LEMMA InvAlways == Spec => []Inv
<1>1. Init => Inv
  BY InitInv
<1>2. Inv /\ [Next]_vars => Inv'
  <2> SUFFICES ASSUME Inv, [Next]_vars PROVE Inv'
    OBVIOUS
  <2>1. framing' = framing /\ framing \in {"frames", "lines"}
    BY FramingStays DEF Inv, TypedInv, TypeOK
  <2>2. TypeOK' /\ Progressing' /\ Draining' /\ AnswerIsOwn'
    BY SessionAssumption, TypeStep, AnswersStep DEF Inv
  <2>3. CASE framing = "frames"
    <3>1. Quiet' /\ OneUnderWay'
      BY <2>3, SessionAssumption, OneUnderWayStep DEF Inv
    <3>2. Unread'
      BY <2>1, <2>3 DEF Unread
    <3> QED BY <2>2, <3>1, <3>2 DEF Inv, TypedInv
  <2>4. CASE framing = "lines"
    <3>1. Unread'
      BY <2>4, SessionAssumption, UnreadStep DEF Inv
    <3>2. Quiet' /\ OneUnderWay'
      BY <2>1, <2>4 DEF Quiet, OneUnderWay
    <3> QED BY <2>2, <3>1, <3>2 DEF Inv, TypedInv
  <2> QED BY <2>1, <2>3, <2>4
<1> QED BY <1>1, <1>2, PTL DEF Spec

-----------------------------------------------------------------------------
(* The theorems                                                            *)

\* The variables of a session keep their types, for any operations, buffers
\* and cancellations.
THEOREM TypeCorrect == Spec => []TypeOK
<1>1. Inv => TypeOK
  BY DEF Inv, TypedInv
<1> QED BY <1>1, InvAlways, PTL

\* Every answer that call_tool, describe_server or read_resource takes is the
\* answer to the request it awaits or an error without an id, and a result has
\* good answers to all, whether the server reads frames or lines.
THEOREM AnswersAreOwn == Spec => []AnswerIsOwn
<1>1. Inv => AnswerIsOwn
  BY DEF Inv
<1> QED BY <1>1, InvAlways, PTL

\* A server that reads lines, as run_stdio does, never gives the client a
\* result: what _write_message sends has no line that it could read in time.
THEOREM LinesGiveNoResult == Spec => [](framing = "lines" => outcome # "result")
<1>1. Inv => (framing = "lines" => outcome # "result")
  BY DEF Inv, TypedInv, Unread
<1> QED BY <1>1, InvAlways, PTL

\* The `finally` of a session leaves no process behind unless it is itself
\* cancelled, even if the pipes of the process never end.
THEOREM ProcessReaped == Spec => []NoProcessLeft
<1> DEFINE Reaped == NoProcessLeft /\ (pc = "killed" => child = "gone")
<1>1. Init => Reaped
  BY DEF Init, NoProcessLeft
<1>2. Reaped /\ [Next]_vars => Reaped'
  <2> SUFFICES ASSUME Reaped, [Next]_vars PROVE Reaped'
    OBVIOUS
  <2>1. CASE Send \/ SendBroken \/ Receive \/ ReceiveBad \/ Eof \/ Drained \/ TimeOut
             \/ Flushed \/ Kill
    BY <2>1 DEF Send, SendBroken, Receive, ReceiveBad, Eof, Drained, TimeOut,
       Flushed, Kill, Finish, NoProcessLeft
  <2>2. CASE Left
    BY <2>2 DEF Left, Exited, NoProcessLeft
  <2>3. CASE Cancel
    BY <2>3 DEF Cancel, Finish, NoProcessLeft
  <2>4. CASE Child
    BY <2>4 DEF Child, Reply, ReplyLine, LastLine, Shutdown, Exit, Crash, Stick,
       NoProcessLeft
  <2>5. CASE UNCHANGED vars
    BY <2>5 DEF vars, NoProcessLeft
  <2> QED BY <2>1, <2>2, <2>3, <2>4, <2>5 DEF Next, Client
<1>3. Reaped => NoProcessLeft
  OBVIOUS
<1> QED BY <1>1, <1>2, <1>3, PTL DEF Spec
=============================================================================
