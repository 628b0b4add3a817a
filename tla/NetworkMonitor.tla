--------------------------- MODULE NetworkMonitor ---------------------------
(***************************************************************************)
(* Class NetworkMonitor and the program around it (main.cpp): one call of  *)
(* Configure and one of Run. Every handler is an action of StompClient     *)
(* with what the callbacks of this class do in it; the passenger counts    *)
(* are those of TransportNetwork.                                          *)
(*                                                                         *)
(* An exception leaves main's try block and ends the program, as does the  *)
(* assertion of the stream on a second async_write, or on an async_close   *)
(* during the WebSocket handshake: nothing here keeps these two rules.     *)
(***************************************************************************)
EXTENDS Integers

CONSTANTS
    Station,        \* the station ids in messages
    Layout,          \* the stations of the layout
    MaxPassengers,  \* bound: |events| recorded of a station
    MaxSubscribes,  \* bound: SUBSCRIBE frames
    Tokens, NoToken \* as in StompClient

ASSUME MonitorAssumption ==
    /\ Layout \subseteq Station
    /\ MaxPassengers \in Nat /\ MaxSubscribes \in Nat
    /\ NoToken \notin Tokens /\ "STOMP" \notin Tokens

VARIABLES
    \* of WebSocketClient and StompClient
    step, stream, reading, writing, closing, closed_, onConnect_, status,
    connects, sends, closes, answered, heard, onSends, disconnects, lost,
    connected_, subscribed_, disconnected_, token, calling, connectTold, onDisconnects,
    sent, accepted, acknowledged, conforms, badLength,
    \* of NetworkMonitor
    phase,      \* "configure", "configured", "running" (in ioc_.run), "returned"
    timer,      \* of Run: "none", "pending" or "fired"
    answering,  \* onConnect is called without an error by the handler that ran last
    passengers, \* the counts of network_
    \* history
    ledger,     \* what the server reported of each known station, while it kept the protocol
    malformed   \* it sent a message that is not an event in JSON

SC == INSTANCE StompClient WITH MaxConnects <- 1, MaxCloses <- 1
TN == INSTANCE TransportNetwork WITH
        Lines <- {}, Times <- {}, edges <- <<>>, incoming <- {},
        call <- <<>>, result <- TRUE, accepted <- {}

monitor == <<phase, timer, answering, passengers, ledger, malformed>>
client == <<step, stream, reading, writing, closing, closed_, onConnect_,
            connects, sends, closes, answered, heard, onSends, disconnects, lost,
            connected_, subscribed_, disconnected_, token, calling, connectTold,
            onDisconnects, sent, accepted, acknowledged, conforms, badLength>>
vars == <<client, status, monitor>>

Init ==
    /\ SC!Init
    /\ phase = "configure"
    /\ timer = "none"
    /\ answering = FALSE
    /\ passengers = [s \in {} |-> 0]
    /\ ledger = [s \in Layout |-> 0]
    /\ malformed = FALSE

(* An exception or an assertion ends the program.                          *)
Crash ==
    /\ status' = "crashed"
    /\ UNCHANGED client
-----------------------------------------------------------------------------
(* main: Configure, then Run.                                              *)

(* The layout or the certificate cannot be loaded.                         *)
ConfigureThrows ==
    /\ phase = "configure"
    /\ Crash
    /\ UNCHANGED monitor

(* NetworkLoad tells what is in the network then; no count is set.         *)
Configure ==
    /\ phase = "configure"
    /\ SC!Connect
    /\ passengers' = [s \in Layout |-> 0]
    /\ phase' = "configured"
    /\ UNCHANGED <<timer, answering, ledger, malformed>>

(* With or without a time to run.                                          *)
Run ==
    /\ phase = "configured"
    /\ phase' = "running"
    /\ timer' \in {"none", "pending"}
    /\ UNCHANGED <<client, status, answering, passengers, ledger, malformed>>

(* A handler of io_context::run begins when the one before has ended.      *)
Handling == phase = "running" /\ ~answering

(* Faulty variant: the client is left alone.                               *)
LeaveClient == UNCHANGED <<client, status>>

CloseClient == SC!Close

OnTimer ==
    /\ Handling
    /\ timer = "pending"
    /\ CloseClient
    /\ timer' = "fired"
    /\ UNCHANGED <<phase, answering, passengers, ledger, malformed>>

OnTimerInHandshake ==
    /\ Handling
    /\ timer = "pending" /\ step = "handshake"
    /\ timer' = "fired"
    /\ Crash
    /\ UNCHANGED <<phase, answering, passengers, ledger, malformed>>

(* io_context::run returns when no operation is pending.                   *)
Return ==
    /\ Handling
    /\ ~calling
    /\ step = "idle" /\ ~reading /\ writing = "no" /\ ~closing /\ timer # "pending"
    /\ phase' = "returned"
    /\ UNCHANGED <<client, status, timer, answering, passengers, ledger, malformed>>
-----------------------------------------------------------------------------
(* The callbacks given to StompClient. onConnect with an error,            *)
(* onDisconnect, onSubscribe and onClose only write to the log.            *)

ClientStep ==
    /\ Handling
    /\ \/ SC!OnWsFailed \/ SC!OnHandshake \/ SC!OnWsConnect
       \/ SC!OnClose \/ SC!OnDisconnect \/ SC!Below
    /\ UNCHANGED monitor

(* Any frame but MESSAGE; CONNECTED makes StompClient call onConnect. One  *)
(* with a bad content-length, of any command, throws before any callback.  *)
OnFrame(frame) ==
    /\ Handling
    /\ frame.command # "MESSAGE"
    /\ frame.command = "CONNECTED" => subscribed_ \/ sends <= MaxSubscribes
    /\ SC!MessageHandler(frame, FALSE)
    /\ answering' = (frame.command = "CONNECTED")
    /\ UNCHANGED <<phase, timer, passengers, ledger, malformed>>

(* onConnect subscribes, in the handler of that frame. Subscribed already, *)
(* Subscribe does nothing.                                                 *)
OnConnect ==
    /\ answering
    /\ answering' = FALSE
    /\ \/ SC!Subscribe
       \/ subscribed_ /\ UNCHANGED <<client, status>>
    /\ UNCHANGED <<phase, timer, passengers, ledger, malformed>>

(* The frame before, of StompClient, is still being written.               *)
OnConnectOverlaps ==
    /\ answering
    /\ ~subscribed_ /\ writing # "no"
    /\ answering' = FALSE
    /\ Crash
    /\ UNCHANGED <<phase, timer, passengers, ledger, malformed>>
-----------------------------------------------------------------------------
(* OnMessage.                                                              *)

(* The body of a MESSAGE, and where it says it comes from. An event may be *)
(* of a type ToType does not know; a body that is not JSON, or lacks a key *)
(* or has it with another type, is "malformed".                            *)
Messages == [event : {"in", "out", "other", "malformed"}, stationId : Station,
             destination : {"/passengers", "elsewhere"}]

By == [in |-> 1, out |-> -1]
IsEvent(m) == m.event \in DOMAIN By

(* Faulty variant: what comes before the receipt is refused.               *)
DeliveredAfterReceipt(frame, m) ==
    subscribed_ /\ frame.token = token /\ m.destination = "/passengers"

(* MessageHandler calls onMessage without an error.                        *)
Delivered(frame, m) == frame.token = token /\ m.destination = "/passengers"

(* Faulty variant: the type of an event is used without being tested.      *)
ThrowsUnknownType(m) == ~IsEvent(m)

(* nlohmann::json throws, in parse or in get.                              *)
Throws(m) == m.event = "malformed"

(* Faulty variant: an unknown station is counted.                          *)
RecordedAnywhere(m) ==
    [s \in DOMAIN passengers \union {m.stationId} |->
        IF s = m.stationId THEN By[m.event] ELSE passengers[s]]

Recorded(m) == TN!Recorded(m.stationId, By[m.event])

(* The server's view, of a subscription it knows.                          *)
LedgerAfter(frame, m) ==
    IF IsEvent(m) /\ m.stationId \in Layout /\ m.destination = "/passengers"
         /\ conforms /\ SC!InProtocol(frame)
    THEN [ledger EXCEPT ![m.stationId] = @ + By[m.event]] ELSE ledger

OnMessage(frame, m) ==
    /\ Handling
    /\ frame.command = "MESSAGE"
    /\ SC!MessageHandler(frame, Delivered(frame, m) /\ Throws(m))
    /\ passengers' = IF Delivered(frame, m) /\ IsEvent(m) THEN Recorded(m) ELSE passengers
    /\ malformed' = (malformed \/ m.event = "malformed")
    /\ ledger' = LedgerAfter(frame, m)
    /\ \A count \in {ledger', passengers'} : \A s \in DOMAIN count :
          count[s] \in -MaxPassengers..MaxPassengers
    /\ UNCHANGED <<phase, timer, answering>>
-----------------------------------------------------------------------------
Next ==
    /\ status = "running"
    /\ \/ ConfigureThrows \/ Configure \/ Run \/ Return
       \/ OnTimer \/ OnTimerInHandshake
       \/ ClientStep \/ OnConnect \/ OnConnectOverlaps
       \/ \E frame \in SC!Frames : OnFrame(frame) \/ \E m \in Messages : OnMessage(frame, m)

(* What WebSocketClient says ends by itself once no connection attempt is  *)
(* running; besides, the timer fires and run returns when it can. The      *)
(* io_context runs handlers in the order they became ready: frames,        *)
(* however many, do not starve the others (strong fairness).               *)
Fairness ==
    /\ WF_vars(SC!Running /\ (OnConnect \/ OnConnectOverlaps))
    /\ WF_vars(SC!Running /\ Return)
    /\ WF_vars(SC!Running /\ ClientStep /\ calling /\ ~calling')
    /\ SF_vars(SC!Running /\ (OnTimer \/ OnTimerInHandshake))
    /\ SF_vars(SC!Running /\ ClientStep /\ writing # "no" /\ writing' = "no")
    /\ SF_vars(SC!Running /\ ClientStep /\ reading /\ ~reading')
    /\ SF_vars(SC!Running /\ ClientStep /\ closing /\ ~closing')

Spec == Init /\ [][Next]_vars /\ Fairness
-----------------------------------------------------------------------------
(* Properties.                                                             *)

(* Every variable has its type; the network keeps its stations.            *)
TypeOK ==
    /\ SC!TypeOK
    /\ phase \in {"configure", "configured", "running", "returned"}
    /\ timer \in {"none", "pending", "fired"}
    /\ {answering, malformed} \subseteq BOOLEAN
    /\ phase # "configure" => passengers \in [Layout -> -MaxPassengers..MaxPassengers]
    /\ ledger \in [Layout -> -MaxPassengers..MaxPassengers]

(* As long as the server keeps the protocol, the counts are those of the   *)
(* events that arrive, each once: also of those that come before the receipt*)
(* of the subscription, after the timer has closed the client, or after a  *)
(* frame that could not be parsed.                                         *)
CountsMatchServer == phase # "configure" /\ conforms => passengers = ledger

(* After Configure the program ends abnormally only if the server sends a  *)
(* frame out of order, one whose content-length is no number, or a body    *)
(* that is not an event in JSON, or in one of two windows: the timer fires *)
(* during the WebSocket handshake, or a server in order accepts before the *)
(* handler of the write of the STOMP frame has run, the only frame sent so *)
(* far. Elsewhere the function for messages is in place before the first,  *)
(* unknown stations and types of events do no harm, and no write or close  *)
(* is started that the stream does not allow.                              *)
OnlyBadInputEnds ==
    status = "crashed" =>
        \/ phase = "configure" \/ ~conforms \/ badLength \/ malformed
        \/ timer = "fired" /\ step = "handshake"
        \/ sent = {"STOMP"} /\ accepted /\ writing # "no"

(* When run has returned the client knows that it is not connected: the    *)
(* connection was never accepted, was closed, or its end was reported.     *)
ReturnedDisconnected == phase = "returned" => ~SC!IsConnected /\ stream # "open"

Ended == phase = "returned" \/ status = "crashed"

(* When no connection attempt is running, a timer that is set ends Run,    *)
(* whatever the server does or does not do.                                *)
TimedRunEnds == (phase = "running" /\ timer = "pending" /\ step = "idle") ~> Ended

(* Run ends when the connection could not be made, was lost or was closed; *)
(* with a timer, at the latest when it fires.                              *)
RunEndsWithConnection == (phase = "running" /\ step = "idle" /\ stream # "open") ~> Ended
=============================================================================
