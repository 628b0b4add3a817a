-------------------------- MODULE WebSocketClient --------------------------
(***************************************************************************)
(* Template class WebSocketClient: a chain of asynchronous operations that *)
(* opens a WebSocket over TLS, a loop of asynchronous reads, and writes    *)
(* and closes on request, with the callbacks the user gave.                *)
(*                                                                         *)
(* Every handler runs on the thread of io_context::run, so a handler and   *)
(* all it calls is one step; the user's calls are made between handlers or *)
(* in callbacks. (A call in a callback comes before the async_read that    *)
(* the handler starts after it instead of after it; the state is the same.) *)
(*                                                                         *)
(* External, from how the class uses them: the resolver, the TCP and TLS   *)
(* layers and the Boost.Beast stream. The stream of the model is open from *)
(* the end of the WebSocket handshake; it leaves "open" when async_close   *)
(* starts, or with the first read or write that fails; from then on reads, *)
(* writes and closes end with operation_aborted. As the stream requires,   *)
(* the user has one async_write and one async_close at a time, and starts  *)
(* none during the WebSocket handshake. He connects again only when        *)
(* nothing of the last connection is pending.                              *)
(***************************************************************************)
EXTENDS Naturals

CONSTANTS
    MaxConnects,      \* bound: calls of Connect
    MaxSends,         \* bound: calls of Send
    MaxCloses,        \* bound: calls of Close
    ConnectHandlers,  \* {TRUE} if the user always gives onConnect, {TRUE, FALSE} if not
    SendHandlers      \* the same for onSend

ASSUME BoundsAssumption ==
    /\ MaxConnects \in Nat /\ MaxSends \in Nat /\ MaxCloses \in Nat
    /\ ConnectHandlers \subseteq BOOLEAN /\ SendHandlers \subseteq BOOLEAN

VARIABLES
    step,       \* the operation of the connection chain that is pending, or "idle"
    stream,     \* ws_: "closed", "open", "closing" or "failed"
    reading,    \* an async_read is pending
    writing,    \* "no", or whether the pending async_write has an onSend
    closing,    \* an async_close is pending
    closed_,    \* the flag of that name
    onConnect_, \* whether the user gave onConnect
    status,     \* "running", or "crashed" once an exception has left io_context::run
    connects, sends, closes,                    \* history: calls of the user
    answered,   \* history: onConnect was called since the last Connect
    heard,      \* history: flips with each call of onMessage
    onSends,    \* history: calls of onSend
    disconnects,\* history: calls of onDisconnect since the last Connect
    lost        \* history: since the last Connect a connection ended that the user had not closed

chain == <<step, onConnect_, connects, answered>>
writes == <<writing, sends, onSends>>
ends == <<closing, closed_, closes>>
reads == <<reading, disconnects, heard>>
connection == <<chain, stream, reads, writes, ends, lost>>
vars == <<connection, status>>

Init ==
    /\ step = "idle"
    /\ stream = "closed"
    /\ reading = FALSE
    /\ writing = "no"
    /\ closing = FALSE
    /\ closed_ = FALSE
    /\ onConnect_ = FALSE
    /\ status = "running"
    /\ connects = 0 /\ sends = 0 /\ closes = 0
    /\ answered = TRUE /\ heard = FALSE
    /\ onSends = 0 /\ disconnects = 0 /\ lost = FALSE
-----------------------------------------------------------------------------
(* The user's calls.                                                       *)

Connect ==
    /\ connects < MaxConnects
    /\ step = "idle" /\ stream \in {"closed", "failed"}
    /\ ~reading /\ ~closing /\ writing = "no"
    /\ onConnect_' \in ConnectHandlers
    /\ closed_' = FALSE
    /\ step' = "resolve"
    /\ stream' = "closed"
    /\ connects' = connects + 1
    /\ answered' = FALSE
    /\ disconnects' = 0
    /\ lost' = FALSE
    /\ UNCHANGED <<reading, heard, writes, closing, closes, status>>

Send ==
    /\ sends < MaxSends
    /\ step # "handshake"
    /\ writing = "no"
    /\ \E given \in SendHandlers : writing' = IF given THEN "onSend" ELSE "noHandler"
    /\ sends' = sends + 1
    /\ UNCHANGED <<chain, stream, reads, onSends, ends, status, lost>>

(* Closing a stream that is not open changes nothing but the flag.         *)
Close ==
    /\ closes < MaxCloses
    /\ step # "handshake"
    /\ ~closing
    /\ closed_' = TRUE
    /\ closing' = TRUE
    /\ stream' = IF stream = "open" THEN "closing" ELSE stream
    /\ closes' = closes + 1
    /\ UNCHANGED <<chain, reads, writes, status, lost>>
-----------------------------------------------------------------------------
(* The connection chain: OnResolve, OnConnect, OnTlsHandshake, OnHandshake.*)

NextStep == [resolve |-> "connect", connect |-> "tlsHandshake", tlsHandshake |-> "handshake"]

(* OnResolve, OnConnect and OnTlsHandshake without an error.               *)
Advance(at) ==
    /\ step = at
    /\ step' = NextStep[at]
    /\ UNCHANGED <<stream, reads, writes, ends, status, lost,
                   onConnect_, connects, answered>>

(* Faulty variant: the outcome is logged only.                             *)
Unanswered == answered' = answered

Answered == answered' = onConnect_

(* The same with an error: onConnect is called if there is one.            *)
Fail(at) ==
    /\ step = at
    /\ step' = "idle"
    /\ Answered
    /\ UNCHANGED <<stream, reads, writes, ends, status, lost, onConnect_, connects>>

(* Faulty variant: the read loop is not started.                           *)
NotListening == reading' = FALSE

Listening == reading' = TRUE

(* onConnect, then the first async_read, whatever Close has said before.   *)
OnHandshake ==
    /\ step = "handshake"
    /\ step' = "idle"
    /\ stream' = "open"
    /\ Answered
    /\ Listening
    /\ UNCHANGED <<disconnects, heard, writes, ends, status, lost, onConnect_, connects>>

(* onConnect is called without looking whether there is one.               *)
OnHandshakeError ==
    /\ step = "handshake"
    /\ step' = "idle"
    /\ Answered
    /\ status' = IF onConnect_ THEN status ELSE "crashed"
    /\ UNCHANGED <<stream, reads, writes, ends, lost, onConnect_, connects>>
-----------------------------------------------------------------------------
(* The read loop: OnRead, then ListenToIncomingMessage with the same error.*)

(* A message, possibly after Close: onMessage, and the next async_read.    *)
OnMessage ==
    /\ reading
    /\ stream \in {"open", "closing"}
    /\ heard' = ~heard
    /\ UNCHANGED <<chain, stream, reading, disconnects, writes, ends, status, lost>>

(* onMessage throws: the exception leaves io_context::run.                 *)
OnMessageThrows ==
    /\ reading
    /\ stream \in {"open", "closing"}
    /\ heard' = ~heard
    /\ status' = "crashed"
    /\ UNCHANGED <<chain, stream, reading, disconnects, writes, ends, lost>>

(* Any error but operation_aborted: the server has closed, the connection  *)
(* broke, or the close has been answered. Another async_read is started.   *)
OnReadError ==
    /\ reading
    /\ stream \in {"open", "closing"}
    /\ stream' = IF stream = "open" THEN "failed" ELSE "closed"
    /\ lost' = (lost \/ (stream = "open" /\ ~closed_))
    /\ UNCHANGED <<chain, reads, writes, ends, status>>

(* Faulty variants: closed_ is not looked at; nothing is reported.         *)
ReportsAlways == disconnects' = disconnects + 1
ReportsNever == disconnects' = disconnects

Reports == disconnects' = IF closed_ THEN disconnects ELSE disconnects + 1

(* operation_aborted ends the loop; onDisconnect unless the user closed.   *)
OnReadAborted ==
    /\ reading
    /\ stream \in {"failed", "closed"}
    /\ reading' = FALSE
    /\ Reports
    /\ UNCHANGED <<chain, stream, heard, writes, ends, status, lost>>
-----------------------------------------------------------------------------
(* The handlers of async_write and async_close.                            *)

(* Faulty variant: the write stays pending after its handler.              *)
WriteKept == writing' = writing

WriteDone == writing' = "no"

OnWrite ==
    /\ writing # "no"
    /\ stream \in {"open", "closing"}
    /\ WriteDone
    /\ onSends' = IF writing = "onSend" THEN onSends + 1 ELSE onSends
    /\ status' = IF writing = "onSend" THEN status ELSE "crashed"
    /\ UNCHANGED <<sends, chain, stream, reads, ends, lost>>

(* An error is logged and onSend is not called.                            *)
OnWriteError ==
    /\ writing # "no"
    /\ WriteDone
    /\ stream' = IF stream \in {"open", "closing"} THEN "failed" ELSE stream
    /\ lost' = (lost \/ (stream = "open" /\ ~closed_))
    /\ UNCHANGED <<sends, onSends, chain, reads, ends, status>>

(* Faulty variant: the stream is left as it is.                            *)
StreamKept == stream' = stream

StreamClosed == stream' = IF stream = "closing" THEN "closed" ELSE stream

(* With or without an error onClose is called. The close of a stream that  *)
(* was open when it began ends it.                                         *)
OnClose ==
    /\ closing
    /\ closing' = FALSE
    /\ StreamClosed
    /\ UNCHANGED <<closed_, closes, chain, reads, writes, status, lost>>
-----------------------------------------------------------------------------
Running == status = "running"

Next ==
    /\ Running
    /\ \/ Connect \/ Send \/ Close
       \/ \E at \in DOMAIN NextStep : Advance(at) \/ Fail(at)
       \/ OnHandshake \/ OnHandshakeError
       \/ OnMessage \/ OnMessageThrows \/ OnReadError \/ OnReadAborted
       \/ OnWrite \/ OnWriteError \/ OnClose

(* What ends by itself: name resolution and TCP connection attempts fail   *)
(* after a time in the operating system; the WebSocket handshake and the   *)
(* closing handshake have the stream's suggested timeout; operations on a  *)
(* stream that has ended are aborted. The TLS handshake has no time limit  *)
(* (expires_never is set before it), and a read of an open stream waits as *)
(* long as the server is silent.                                           *)
Fairness ==
    /\ \A at \in {"resolve", "connect"} : WF_vars(Running /\ (Advance(at) \/ Fail(at)))
    /\ WF_vars(Running /\ (OnHandshake \/ OnHandshakeError))
    /\ WF_vars(Running /\ OnReadAborted)
    /\ WF_vars(Running /\ (OnWrite \/ OnWriteError))
    /\ WF_vars(Running /\ OnClose)

Spec == Init /\ [][Next]_vars /\ Fairness
-----------------------------------------------------------------------------
(* Properties.                                                             *)

(* Every variable has its type.                                            *)
TypeOK ==
    /\ step \in DOMAIN NextStep \union {"idle", "handshake"}
    /\ stream \in {"closed", "open", "closing", "failed"}
    /\ reading \in BOOLEAN
    /\ writing \in {"no", "onSend", "noHandler"}
    /\ closing \in BOOLEAN /\ closed_ \in BOOLEAN /\ onConnect_ \in BOOLEAN
    /\ status \in {"running", "crashed"}
    /\ connects \in 0..MaxConnects /\ sends \in 0..MaxSends /\ closes \in 0..MaxCloses
    /\ answered \in BOOLEAN /\ heard \in BOOLEAN
    /\ onSends \in 0..sends /\ disconnects \in Nat /\ lost \in BOOLEAN

(* While the connection is open or being closed a read is pending, and so  *)
(* it is as long as a lost connection was not reported: no message of the  *)
(* server, and no end of the connection, goes unnoticed.                   *)
ListensWhileOpen ==
    /\ stream \in {"open", "closing"} => reading
    /\ lost /\ ~closed_ /\ disconnects = 0 => reading

(* onDisconnect is for connections that ended without the user's Close,    *)
(* and is called at most once for each of them (comment of Connect).       *)
DisconnectOnlyWhenLost == disconnects <= IF lost THEN 1 ELSE 0

(* A connection that ended without the user's Close is reported, unless he *)
(* calls Close before the aborted read, or the program ends.               *)
LostIsReported == lost ~> (disconnects = 1 \/ closed_ \/ status = "crashed")

(* A Connect is answered by onConnect, if there is one, unless the TLS     *)
(* handshake, which has no time limit, never ends.                         *)
ConnectIsAnswered ==
    []<>(answered \/ ~onConnect_ \/ status = "crashed") \/ <>[](step = "tlsHandshake")

(* Closing an open connection ends it: eventually nothing of it is left    *)
(* pending and io_context::run can return.                                 *)
CloseEndsAll ==
    (stream = "closing") ~>
        ((~reading /\ ~closing /\ stream # "open") \/ status = "crashed")

(* The client implements Connection: onConnect once per Connect, if it was *)
(* given, and before any message; no message once the connection has       *)
(* ended; onDisconnect at most once per connection, after it was open, and *)
(* never after Close, in whatever order its handlers run.                  *)
ConnectionPhase ==
    IF step # "idle" THEN "connecting"
    ELSE IF ~reading THEN "idle"
    ELSE IF stream \in {"open", "closing"} THEN "open" ELSE "ended"

C == INSTANCE Connection WITH
    wanted <- onConnect_,
    phase <- ConnectionPhase,
    reports <- disconnects,
    closed <- closed_,
    alive <- (status = "running")

ImplementsConnection == C!Spec

(* onClose is called when the connection is closed (comment of Close): a   *)
(* connection is not open after that.                                      *)
ClosedStaysClosed == closed_ /\ ~closing => stream # "open"

(* onSend is called when a message is sent or failed to be sent (comment   *)
(* of Send).                                                               *)
SendIsAnswered == (onSends < sends) ~> (onSends = sends)
=============================================================================
