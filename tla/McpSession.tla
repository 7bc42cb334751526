----------------------------- MODULE McpSession -----------------------------
(***************************************************************************)
(* One session of McpRuntimeClient (core/mascarade/mcp/client.py) with a   *)
(* stdio tool server: call_tool, describe_server or read_resource starts   *)
(* the server as a child process, sends it the requests of the operation   *)
(* one at a time, and ends the child in a `finally`.  The child answers,    *)
(* and it may also crash, stop answering, or be killed.  Sessions share    *)
(* nothing: one stands for all.                                            *)
(*                                                                         *)
(* The client writes frames: a header line, an empty line and a body that  *)
(* no newline ends.  Some servers read frames, as the one of               *)
(* tests/test_mcp_client.py.  McpServer.run_stdio (mcp/server.py) reads    *)
(* lines: it takes the header for a message it cannot parse, and gets the  *)
(* body only together with the next header, or at the end of its stdin.    *)
(*                                                                         *)
(* Answers carry no id the client would compare: the next message read is  *)
(* taken for the answer to the last request sent.                          *)
(***************************************************************************)
EXTENDS Naturals, Sequences

CONSTANTS
    Operation,  \* the operations of the client that are tried
    Fits,       \* requests fit into the buffers of a child that does not read
    PipesEnd,   \* the pipes of a child that is gone reach their end: nobody
                \* else holds them, and little enough is unread
    MaxCancels  \* bound: cancellations of the caller

ASSUME SessionAssumption ==
    /\ Operation \subseteq {"call", "describe", "read"}
    /\ Fits \in BOOLEAN /\ PipesEnd \in BOOLEAN
    /\ MaxCancels \in Nat

VARIABLES
    framing,  \* what the child reads: "frames" or "lines"
    op,       \* the operation
    pc,       \* what the client awaits
    next,     \* place in the script of the message sent last, or to be sent
    taken,    \* the answers the client has read
    outcome,  \* what the operation returns or raises
    inbox,    \* written to the child's stdin, not yet handled by it
    partial,  \* the body that the child has read without the end of its line
    closed,   \* the client has closed the child's stdin
    outbox,   \* written to the child's stdout, not yet read
    child,    \* the process
    cancels,  \* cancellations so far
    cut       \* a cancellation struck in the `finally`

vars == <<framing, op, pc, next, taken, outcome, inbox, partial, closed, outbox,
          child, cancels, cut>>

\* What each operation sends; notifications get no answer.
Script(o) ==
    CASE o = "call"     -> <<"initialize", "initialized", "tools/call">>
      [] o = "describe" -> <<"initialize", "initialized", "tools/list",
                             "resources/list", "prompts/list">>
      [] o = "read"     -> <<"initialize", "initialized", "resources/read">>

IsRequest(m) == m # "initialized"

Message == {"initialize", "initialized", "tools/call", "tools/list",
            "resources/list", "prompts/list", "resources/read"}

\* to: the request whose id it carries, or "nobody" if the id is null.
\* ok: a result; failed: a tool result with isError; error: a JSON-RPC error;
\* torn: the child went away while it wrote.
Answer == [to : Message \cup {"nobody"}, is : {"ok", "failed", "error", "torn"}]

Outcome == {"none", "result", "toolerror", "unavailable", "timeout",
            "broken", "cancelled"}

ClientState == {"sending", "waiting", "draining", "flushing", "leaving",
                "killed", "ended"}

-----------------------------------------------------------------------------
(* The client.  A raised exception enters the `finally`, whose first       *)
(* statement closes the child's stdin.                                     *)

Finish(o) ==
    /\ outcome' = o
    /\ closed' = TRUE
    /\ pc' = "flushing"

Current == Script(op)[next]

Last == next = Len(Script(op))

\* _write_message: one frame, header and body.  What is written to a child that
\* is gone is lost.
Send ==
    /\ pc = "sending"
    /\ Fits \/ child # "stuck"
    /\ inbox' = IF child = "gone" THEN inbox ELSE Append(inbox, Current)
    /\ IF IsRequest(Current)
       THEN pc' = "waiting" /\ next' = next
       ELSE pc' = "sending" /\ next' = next + 1
    /\ UNCHANGED <<framing, op, taken, outcome, partial, closed, outbox, child,
                   cancels, cut>>

\* drain raises ConnectionResetError.
SendBroken ==
    /\ pc = "sending" /\ child = "gone"
    /\ Finish("broken")
    /\ UNCHANGED <<framing, op, next, taken, inbox, partial, outbox, child,
                   cancels, cut>>

\* Fault: the session is not over after the last answer.
ReceiveOneMore ==
    /\ pc = "waiting" /\ outbox # <<>> /\ Head(outbox).is = "ok"
    /\ outbox' = Tail(outbox)
    /\ taken' = Append(taken, Head(outbox))
    /\ next' = next + 1 /\ pc' = "sending"
    /\ UNCHANGED <<framing, op, outcome, inbox, partial, closed, child, cancels,
                   cut>>

Receive ==
    /\ pc = "waiting" /\ outbox # <<>> /\ Head(outbox).is = "ok"
    /\ outbox' = Tail(outbox)
    /\ taken' = Append(taken, Head(outbox))
    /\ IF Last
       THEN Finish("result") /\ next' = next
       ELSE /\ next' = next + 1 /\ pc' = "sending"
            /\ UNCHANGED <<outcome, closed>>
    /\ UNCHANGED <<framing, op, inbox, partial, child, cancels, cut>>

ReceiveBad ==
    /\ pc = "waiting" /\ outbox # <<>> /\ Head(outbox).is # "ok"
    /\ outbox' = Tail(outbox)
    /\ taken' = Append(taken, Head(outbox))
    /\ Finish(CASE Head(outbox).is = "failed" -> "toolerror"
                [] Head(outbox).is = "error" -> "unavailable"
                [] Head(outbox).is = "torn" -> "broken")
    /\ UNCHANGED <<framing, op, next, inbox, partial, child, cancels, cut>>

\* _read_message returns None: call_tool then reads stderr to its end.
Eof ==
    /\ pc = "waiting" /\ outbox = <<>>
    /\ child = "exiting" \/ (child = "gone" /\ PipesEnd)
    /\ IF op = "call"
       THEN pc' = "draining" /\ UNCHANGED <<outcome, closed>>
       ELSE Finish("unavailable")
    /\ UNCHANGED <<framing, op, next, taken, inbox, partial, outbox, child,
                   cancels, cut>>

Drained ==
    /\ pc = "draining" /\ child = "gone" /\ PipesEnd
    /\ Finish("unavailable")
    /\ UNCHANGED <<framing, op, next, taken, inbox, partial, outbox, child,
                   cancels, cut>>

\* Fault: the request is sent once more.
TimeOutResends ==
    /\ pc = "waiting"
    /\ pc' = "sending"
    /\ UNCHANGED <<framing, op, next, taken, outcome, inbox, partial, closed,
                   outbox, child, cancels, cut>>

\* Fault: only call_tool limits its waiting.
TimeOutOfCalls ==
    /\ pc = "waiting" /\ op = "call"
    /\ Finish("unavailable")
    /\ UNCHANGED <<framing, op, next, taken, inbox, partial, outbox, child,
                   cancels, cut>>

\* wait_for gives up; only call_tool turns the TimeoutError into an McpError.
TimeOut ==
    /\ pc = "waiting"
    /\ Finish(IF op = "call" THEN "unavailable" ELSE "timeout")
    /\ UNCHANGED <<framing, op, next, taken, inbox, partial, outbox, child,
                   cancels, cut>>

\* wait_closed returns once all that was written has left the client.
Flushed ==
    /\ pc = "flushing"
    /\ Fits \/ inbox = <<>> \/ child = "gone"
    /\ pc' = "leaving"
    /\ UNCHANGED <<framing, op, next, taken, outcome, inbox, partial, closed,
                   outbox, child, cancels, cut>>

\* asyncio wakes those who wait for a process when all its pipes have ended.
Exited == child = "gone" /\ PipesEnd

Left ==
    /\ pc \in {"leaving", "killed"} /\ Exited
    /\ pc' = "ended"
    /\ UNCHANGED <<framing, op, next, taken, outcome, inbox, partial, closed,
                   outbox, child, cancels, cut>>

\* Fault: a child that does not leave is left alone.
KillNot ==
    /\ pc = "leaving" /\ ~Exited
    /\ pc' = "ended"
    /\ UNCHANGED <<framing, op, next, taken, outcome, inbox, partial, closed,
                   outbox, child, cancels, cut>>

\* The child has not left within three seconds.
Kill ==
    /\ pc = "leaving" /\ ~Exited
    /\ child' = "gone"
    /\ pc' = "killed"
    /\ UNCHANGED <<framing, op, next, taken, outcome, inbox, partial, closed,
                   outbox, cancels, cut>>

\* The task of the caller is cancelled at an await.
Cancel ==
    /\ cancels < MaxCancels /\ cancels' = cancels + 1
    /\ \/ /\ pc \in {"waiting", "draining"}
          /\ Finish("cancelled") /\ cut' = cut
       \/ /\ pc \in {"flushing", "leaving", "killed"}
          /\ pc' = "ended" /\ outcome' = "cancelled" /\ cut' = TRUE
          /\ closed' = closed
    /\ UNCHANGED <<framing, op, next, taken, inbox, partial, outbox, child>>

-----------------------------------------------------------------------------
(* The child                                                               *)

Replies(m) == IF m = "tools/call" THEN {"ok", "failed", "error"}
              ELSE {"ok", "error"}

\* A message is handled, and its response written; its id is the request's.
Handle(m) ==
    IF IsRequest(m)
    THEN \E r \in Replies(m) : outbox' = Append(outbox, [to |-> m, is |-> r])
    ELSE outbox' = outbox

\* A server that reads frames handles one message for each.
Reply ==
    /\ framing = "frames"
    /\ child = "reading" /\ inbox # <<>>
    /\ inbox' = Tail(inbox)
    /\ Handle(Head(inbox))
    /\ UNCHANGED <<framing, op, pc, next, taken, outcome, partial, closed,
                   child, cancels, cut>>

\* A server that reads lines gets the header, behind what is left of the frame
\* before: a parse error, whose id is null.  Of the body it has no whole line.
ReplyLine ==
    /\ framing = "lines"
    /\ child = "reading" /\ inbox # <<>>
    /\ inbox' = Tail(inbox)
    /\ partial' = Head(inbox)
    /\ outbox' = Append(outbox, [to |-> "nobody", is |-> "error"])
    /\ UNCHANGED <<framing, op, pc, next, taken, outcome, closed, child, cancels, cut>>

\* readline returns the last body when stdin ends.
LastLine ==
    /\ framing = "lines"
    /\ child = "reading" /\ closed /\ inbox = <<>> /\ partial # "none"
    /\ Handle(partial)
    /\ partial' = "none"
    /\ UNCHANGED <<framing, op, pc, next, taken, outcome, inbox, closed, child,
                   cancels, cut>>

\* stdin has ended, or the loop failed: stdout is closed.
Shutdown ==
    /\ child = "reading"
    /\ child' = "exiting"
    /\ UNCHANGED <<framing, op, pc, next, taken, outcome, inbox, partial,
                   closed, outbox, cancels, cut>>

Exit ==
    /\ child = "exiting"
    /\ child' = "gone"
    /\ UNCHANGED <<framing, op, pc, next, taken, outcome, inbox, partial,
                   closed, outbox, cancels, cut>>

\* The process dies, perhaps in the middle of an answer.
Crash ==
    /\ child = "reading"
    /\ child' = "gone"
    /\ \/ outbox' = outbox
       \/ /\ framing = "frames" /\ inbox # <<>> /\ IsRequest(Head(inbox))
          /\ outbox' = Append(outbox, [to |-> Head(inbox), is |-> "torn"])
       \/ /\ framing = "lines" /\ inbox # <<>>
          /\ outbox' = Append(outbox, [to |-> "nobody", is |-> "torn"])
    /\ UNCHANGED <<framing, op, pc, next, taken, outcome, inbox, partial,
                   closed, cancels, cut>>

\* A handler does not come back: nothing more is read or answered.
Stick ==
    /\ child = "reading"
    /\ child' = "stuck"
    /\ UNCHANGED <<framing, op, pc, next, taken, outcome, inbox, partial,
                   closed, outbox, cancels, cut>>

-----------------------------------------------------------------------------
Init ==
    /\ framing \in {"frames", "lines"} /\ op \in Operation
    /\ pc = "sending" /\ next = 1 /\ taken = <<>> /\ outcome = "none"
    /\ inbox = <<>> /\ partial = "none" /\ closed = FALSE /\ outbox = <<>>
    /\ child = "reading" /\ cancels = 0 /\ cut = FALSE

Client ==
    \/ Send \/ SendBroken \/ Receive \/ ReceiveBad \/ Eof \/ Drained
    \/ TimeOut \/ Flushed \/ Left \/ Kill

Child == Reply \/ ReplyLine \/ LastLine \/ Shutdown \/ Exit \/ Crash \/ Stick

Next == Client \/ Child \/ Cancel

Spec == Init /\ [][Next]_vars

\* The event loop runs what is ready and fires its timers, and a server that
\* has closed its stdout exits; nothing else is promised of the server.
FairSpec == Spec /\ WF_vars(Client) /\ WF_vars(Exit)

-----------------------------------------------------------------------------
TypeOK ==
    /\ framing \in {"frames", "lines"}
    /\ op \in Operation /\ pc \in ClientState
    /\ next \in 1 .. Len(Script(op))
    /\ taken \in Seq(Answer) /\ outcome \in Outcome
    /\ inbox \in Seq(Message) /\ partial \in Message \cup {"none"}
    /\ closed \in BOOLEAN /\ outbox \in Seq(Answer)
    /\ child \in {"reading", "stuck", "exiting", "gone"}
    /\ cancels \in 0 .. MaxCancels /\ cut \in BOOLEAN

\* What the operation asks for: its script without the notification.
Requests(o) ==
    [k \in 1 .. Len(Script(o)) - 1 |-> Script(o)[IF k = 1 THEN 1 ELSE k + 1]]

\* Although nothing but its place relates an answer to its request, every
\* answer taken is the answer to the request then awaited or an error without an
\* id, and a result was put together from good answers to all requests
\* (call_tool and describe_server, whose waits may be given up at any time).
AnswerIsOwn ==
    /\ Len(taken) <= Len(Requests(op))
    /\ \A k \in 1 .. Len(taken) :
          \/ taken[k].to = Requests(op)[k]
          \/ taken[k].to = "nobody" /\ taken[k].is # "ok"
    /\ outcome = "result" =>
          /\ Len(taken) = Len(Requests(op))
          /\ \A k \in 1 .. Len(taken) : taken[k].is = "ok"

\* No operation leaves its process behind, whatever the server does: only a
\* cancellation that strikes the `finally` itself may.
NoProcessLeft == pc = "ended" /\ ~cut => child = "gone"

\* Every operation ends, with a server that stops answering, crashes or
\* closes its stdout at any moment.
SessionEnds == <>(pc = "ended")
=============================================================================
