------------------------ MODULE NetworkMonitorProofs ------------------------
(***************************************************************************)
(* Proofs about NetworkMonitor, for any layout, any messages and any ids:  *)
(* the counts are those the server reported, only bad input ends the       *)
(* program, and when it returns the client is not connected.               *)
(***************************************************************************)
EXTENDS NetworkMonitor, TLAPS

(* The client of the program, and what is proved of every such client.     *)
WSP == INSTANCE WebSocketClientProofs WITH
        MaxConnects <- 1, MaxSends <- 1 + MaxSubscribes, MaxCloses <- 1,
        ConnectHandlers <- {TRUE}, SendHandlers <- {TRUE}

CountsAreInts ==
    /\ ledger \in [Layout -> Int]
    /\ IF phase = "configure" THEN ledger = [s \in Layout |-> 0]
       ELSE passengers \in [Layout -> Int]

Subscriptions == sent \intersect Tokens

(* A server in order accepts once, so the monitor subscribes once, and the *)
(* ids the server knows are those the client compares with.                *)
SubscribesOnce ==
    /\ phase = "configure" => ~answering
    /\ conforms => /\ Subscriptions \subseteq {token}
                   /\ ~accepted \/ answering => Subscriptions = {}
                   /\ answering => accepted

Inv == CountsAreInts /\ SubscribesOnce /\ CountsMatchServer

LEMMA InitInv == Init => Inv
  BY DEF Init, SC!Init, Inv, CountsAreInts, SubscribesOnce, Subscriptions, CountsMatchServer

(* What no step but those of frames and subscriptions touches.             *)
LEMMA SteadyInv ==
    ASSUME Inv, UNCHANGED <<accepted, conforms, token, passengers, ledger>>,
           Subscriptions' = Subscriptions, answering' => answering,
           (phase = "configure") = (phase' = "configure")
    PROVE  Inv'
  BY DEF Inv, CountsAreInts, SubscribesOnce, CountsMatchServer

LEMMA ConfigureInv == Inv /\ Configure => Inv'
<1> SUFFICES ASSUME Inv, Configure PROVE Inv'
  OBVIOUS
<1>1. /\ passengers' = [s \in Layout |-> 0] /\ UNCHANGED <<ledger, answering>>
      /\ phase = "configure" /\ phase' = "configured"
  BY DEF Configure
<1>2. sent' = {}
  BY DEF Configure, SC!Connect
<1>3. ledger = [s \in Layout |-> 0]
  BY <1>1 DEF Inv, CountsAreInts
<1> QED BY <1>1, <1>2, <1>3 DEF Inv, CountsAreInts, SubscribesOnce, Subscriptions,
           CountsMatchServer

(* No handler but that of a frame changes what the server has granted; the *)
(* frame of STOMP is no subscription.                                      *)
LEMMA ClientStepInv == Inv /\ ClientStep => Inv'
<1> SUFFICES ASSUME Inv, ClientStep PROVE Inv'
  OBVIOUS
<1>1. UNCHANGED <<accepted, conforms, token>> /\ sent' \in {sent, sent \union {"STOMP"}}
  BY DEF ClientStep, SC!OnWsFailed, SC!OnHandshake, SC!OnWsConnect, SC!OnClose,
         SC!OnDisconnect, SC!Below, SC!client, SC!server
<1>2. UNCHANGED <<passengers, ledger, answering, phase>>
  BY DEF ClientStep, monitor
<1>3. Subscriptions' = Subscriptions
  BY <1>1, MonitorAssumption DEF Subscriptions
<1>4. /\ UNCHANGED <<accepted, conforms, token, passengers, ledger>>
      /\ answering' => answering
      /\ (phase = "configure") = (phase' = "configure")
  BY <1>1, <1>2
<1> QED BY <1>3, <1>4, SteadyInv

(* CONNECTED in order finds no subscription; out of order it ends conforms.*)
LEMMA OnFrameInv == ASSUME Inv, NEW frame \in SC!Frames, OnFrame(frame) PROVE Inv'
<1>1. /\ ~answering /\ frame.command # "MESSAGE"
      /\ answering' = (frame.command = "CONNECTED")
      /\ UNCHANGED <<phase, passengers, ledger, token, sent>>
      /\ conforms' = (conforms /\ SC!InProtocol(frame))
      /\ accepted' = (accepted \/ frame.command = "CONNECTED")
  BY DEF OnFrame, Handling, SC!MessageHandler
<1>2. CountsAreInts'
  BY <1>1 DEF Inv, CountsAreInts
<1>3. SubscribesOnce'
  <2>0. phase' # "configure"
    BY <1>1 DEF OnFrame, Handling
  <2> SUFFICES ASSUME conforms'
               PROVE  /\ Subscriptions \subseteq {token}
                      /\ ~accepted' \/ answering' => Subscriptions = {}
                      /\ answering' => accepted'
    BY <1>1, <2>0 DEF SubscribesOnce, Subscriptions
  <2>1. conforms /\ SC!InProtocol(frame)
    BY <1>1
  <2>2. frame.command = "CONNECTED" => ~accepted
    BY <2>1 DEF SC!InProtocol
  <2>3. ~accepted' \/ answering' => ~accepted
    BY <1>1, <2>2
  <2> QED BY <1>1, <2>1, <2>3 DEF Inv, SubscribesOnce
<1>4. CountsMatchServer'
  BY <1>1 DEF Inv, CountsMatchServer
<1> QED BY <1>2, <1>3, <1>4 DEF Inv

LEMMA OnConnectInv == Inv /\ OnConnect => Inv'
<1> SUFFICES ASSUME Inv, OnConnect PROVE Inv'
  OBVIOUS
<1>1. answering /\ ~answering' /\ UNCHANGED <<phase, passengers, ledger>>
  BY DEF OnConnect
<1>2. UNCHANGED <<accepted, conforms>>
  BY DEF OnConnect, client, SC!Subscribe, SC!SubscribeAs, SC!SendSubscribe
<1>3. Subscriptions' \subseteq Subscriptions \union {token'}
  BY DEF OnConnect, client, SC!Subscribe, SC!SubscribeAs, SC!SendSubscribe, Subscriptions
<1> QED BY <1>1, <1>2, <1>3 DEF Inv, CountsAreInts, SubscribesOnce, CountsMatchServer

(* A message in order is for the ids of the client: it is delivered if and *)
(* only if the server counts on it, and what throws counts for neither.    *)
LEMMA OnMessageInv ==
    ASSUME Inv, NEW frame \in SC!Frames, NEW m \in Messages, OnMessage(frame, m)
    PROVE  Inv'
<1>1. /\ phase = "running" /\ ~answering /\ frame.command = "MESSAGE"
      /\ UNCHANGED <<phase, answering, token, sent>>
      /\ conforms' = (conforms /\ SC!InProtocol(frame))
      /\ accepted' = (accepted \/ frame.command = "CONNECTED")
      /\ passengers' = IF Delivered(frame, m) /\ IsEvent(m) THEN Recorded(m) ELSE passengers
      /\ ledger' = LedgerAfter(frame, m)
  BY DEF OnMessage, Handling, SC!MessageHandler
<1>2. frame.token \in Tokens
  BY <1>1 DEF SC!Frames
<1>3. IsEvent(m) => By[m.event] \in Int
  BY DEF IsEvent, By
<1>4. passengers \in [Layout -> Int] /\ ledger \in [Layout -> Int]
  BY <1>1 DEF Inv, CountsAreInts
<1>5. Recorded(m) = [x \in Layout |-> IF x = m.stationId THEN passengers[x] + By[m.event]
                                    ELSE passengers[x]]
  BY <1>4 DEF Recorded, TN!Recorded, TN!stationIdToNode
<1>6. CountsAreInts'
  <2>1. passengers' \in [Layout -> Int]
    BY <1>1, <1>3, <1>4, <1>5
  <2>2. ledger' \in [Layout -> Int]
    BY <1>1, <1>3, <1>4 DEF LedgerAfter
  <2> QED BY <1>1, <2>1, <2>2 DEF CountsAreInts
<1>7. SubscribesOnce'
  BY <1>1 DEF Inv, SubscribesOnce, Subscriptions
<1>8. CountsMatchServer'
  <2> SUFFICES ASSUME conforms' PROVE passengers' = ledger'
    BY DEF CountsMatchServer
  <2>1. conforms /\ SC!InProtocol(frame)
    BY <1>1
  <2>2. frame.token = token
    BY <1>1, <1>2, <2>1 DEF SC!InProtocol, Inv, SubscribesOnce, Subscriptions
  <2>3. passengers = ledger
    BY <1>1, <2>1 DEF Inv, CountsMatchServer
  <2>4. CASE IsEvent(m) /\ m.destination = "/passengers"
    <3>1. passengers' = [x \in Layout |-> IF x = m.stationId THEN passengers[x] + By[m.event]
                                         ELSE passengers[x]]
      BY <1>1, <1>5, <2>2, <2>4 DEF Delivered
    <3>2. CASE m.stationId \in Layout
      BY <1>1, <1>4, <2>1, <2>3, <2>4, <3>1, <3>2 DEF LedgerAfter
    <3>3. CASE m.stationId \notin Layout
      BY <1>1, <1>4, <2>3, <3>1, <3>3 DEF LedgerAfter
    <3> QED BY <3>2, <3>3
  <2>5. CASE ~(IsEvent(m) /\ m.destination = "/passengers")
    BY <1>1, <2>3, <2>5 DEF Delivered, LedgerAfter
  <2> QED BY <2>4, <2>5
<1> QED BY <1>6, <1>7, <1>8 DEF Inv

LEMMA NextInv == Inv /\ [Next]_vars => Inv'
<1> SUFFICES ASSUME Inv, [Next]_vars PROVE Inv'
  OBVIOUS
<1>1. ASSUME UNCHANGED <<sent, accepted, conforms, token, passengers, ledger>>,
             answering' => answering,
             (phase = "configure") = (phase' = "configure")
      PROVE  Inv'
  <2>1. Subscriptions' = Subscriptions
    BY <1>1 DEF Subscriptions
  <2>2. UNCHANGED <<accepted, conforms, token, passengers, ledger>>
    BY <1>1
  <2> QED BY <1>1, <2>1, <2>2, SteadyInv
<1>2. CASE ConfigureThrows \/ Run \/ Return \/ OnTimerInHandshake \/ OnConnectOverlaps
  <2>1. (phase = "configure") = (phase' = "configure")
    BY <1>2 DEF ConfigureThrows, Run, Return, Handling, OnTimerInHandshake, OnConnectOverlaps,
           monitor
  <2>2. UNCHANGED <<sent, accepted, conforms, token, passengers, ledger>>
    BY <1>2 DEF ConfigureThrows, Run, Return, OnTimerInHandshake, OnConnectOverlaps, Crash,
           client, monitor
  <2>3. answering' => answering
    BY <1>2 DEF ConfigureThrows, Run, Return, OnTimerInHandshake, OnConnectOverlaps, monitor
  <2> QED BY <1>1, <2>1, <2>2, <2>3
<1>3. CASE OnTimer
  <2>1. UNCHANGED <<sent, accepted, conforms, token>>
    BY <1>3 DEF OnTimer, CloseClient, SC!Close, SC!client, SC!server
  <2>2. UNCHANGED <<phase, passengers, ledger, answering>>
    BY <1>3 DEF OnTimer
  <2>3. /\ UNCHANGED <<sent, accepted, conforms, token, passengers, ledger>>
        /\ answering' => answering
        /\ (phase = "configure") = (phase' = "configure")
    BY <2>1, <2>2
  <2> QED BY <1>1, <2>3
<1>4. CASE UNCHANGED vars
  <2>1. /\ UNCHANGED <<sent, accepted, conforms, token, passengers, ledger>>
        /\ answering' => answering
        /\ (phase = "configure") = (phase' = "configure")
    BY <1>4 DEF vars, client, monitor
  <2> QED BY <1>1, <2>1
<1> QED BY <1>2, <1>3, <1>4, ConfigureInv, ClientStepInv, OnConnectInv, OnFrameInv,
           OnMessageInv DEF Next

(* As long as the server keeps the protocol, the passenger counts are the  *)
(* sums of the events that arrived, none lost and none counted twice.      *)
THEOREM CountsAreTheServers == Spec => []CountsMatchServer
<1>1. Inv => CountsMatchServer BY DEF Inv
<1> QED BY InitInv, NextInv, <1>1, PTL DEF Spec
-----------------------------------------------------------------------------
(* How the program ends.                                                   *)

(* The callbacks of the WebSocketClient are given whenever it calls one,   *)
(* and the function for messages before the server can send any.           *)
CallbacksGiven ==
    /\ step # "idle" => onConnect_
    /\ writing \in {"no", "onSend"}
    /\ Subscriptions # {} => token # NoToken

(* A server in order accepts a connection it was asked for.                *)
StompCameFirst ==
    /\ sent \subseteq Tokens \union {"STOMP"}
    /\ conforms /\ accepted => "STOMP" \in sent

EndInv == CallbacksGiven /\ StompCameFirst /\ OnlyBadInputEnds

LEMMA NextStompFirst == StompCameFirst /\ [Next]_vars => StompCameFirst'
<1> SUFFICES ASSUME StompCameFirst, [Next]_vars PROVE StompCameFirst'
  OBVIOUS
<1> USE DEF StompCameFirst
<1>1. CASE UNCHANGED vars \/ ConfigureThrows \/ Run \/ Return \/ OnTimerInHandshake
           \/ OnConnectOverlaps
  BY <1>1 DEF vars, client, ConfigureThrows, Run, Return, OnTimerInHandshake,
     OnConnectOverlaps, Crash
<1>2. CASE Configure
  BY <1>2 DEF Configure, SC!Connect
<1>3. CASE OnTimer
  BY <1>3 DEF OnTimer, CloseClient, SC!Close, SC!client, SC!server
<1>4. CASE ClientStep
  BY <1>4 DEF ClientStep, SC!OnWsFailed, SC!OnHandshake, SC!OnWsConnect, SC!OnClose,
     SC!OnDisconnect, SC!Below, SC!client, SC!server
<1>5. CASE OnConnect
  BY <1>5 DEF OnConnect, client, SC!Subscribe, SC!SubscribeAs, SC!SendSubscribe
<1>6. ASSUME NEW frame, NEW throws, SC!MessageHandler(frame, throws) PROVE StompCameFirst'
  BY <1>6 DEF SC!MessageHandler, SC!InProtocol
<1> QED BY <1>1, <1>2, <1>3, <1>4, <1>5, <1>6 DEF Next, OnFrame, OnMessage

(* The handlers below frames run without ending the program.               *)
LEMMA ClientStepEnds ==
    ASSUME CallbacksGiven, status = "running", ClientStep
    PROVE  CallbacksGiven' /\ status' = "running"
<1> USE DEF CallbacksGiven, SC!WS!chain, SC!WS!reads, SC!WS!writes, SC!WS!ends, SC!WS!NextStep,
        SC!WS!Answered, SC!client, SC!server, SC!told, SC!flags
<1>1. ASSUME UNCHANGED <<token, sent>> PROVE Subscriptions' = Subscriptions
  BY <1>1 DEF Subscriptions
<1>2. ASSUME NEW at \in DOMAIN SC!WS!NextStep, SC!OnWsFailed, SC!WS!Fail(at)
      PROVE  CallbacksGiven' /\ status' = "running"
  BY <1>1, <1>2 DEF SC!OnWsFailed, SC!WS!Fail
<1>3. CASE SC!OnWsFailed /\ SC!WS!OnHandshakeError
  BY <1>1, <1>3 DEF SC!OnWsFailed, SC!WS!OnHandshakeError
<1>4. CASE SC!OnHandshake
  BY <1>1, <1>4 DEF SC!OnHandshake, SC!WS!OnHandshake
<1>5. CASE SC!OnWsConnect
  <2>1. sent' = sent \union {"STOMP"} /\ UNCHANGED token
    BY <1>5 DEF SC!OnWsConnect
  <2>2. Subscriptions' = Subscriptions
    BY <2>1, MonitorAssumption DEF Subscriptions
  <2>3. UNCHANGED <<step, onConnect_, status>> /\ writing' = "onSend"
    BY <1>5 DEF SC!OnWsConnect, SC!WS!Send
  <2> QED BY <2>1, <2>2, <2>3
<1>6. CASE SC!OnClose
  BY <1>1, <1>6 DEF SC!OnClose, SC!WS!OnClose
<1>7. CASE SC!OnDisconnect
  BY <1>1, <1>7 DEF SC!OnDisconnect, SC!WS!OnReadAborted
<1>8. ASSUME NEW at \in DOMAIN SC!WS!NextStep, SC!Below, SC!WS!Advance(at)
      PROVE  CallbacksGiven' /\ status' = "running"
  BY <1>1, <1>8 DEF SC!Below, SC!WS!Advance
<1>9. CASE SC!Below /\ (SC!WS!OnReadError \/ SC!WS!OnWrite \/ SC!WS!OnWriteError)
  BY <1>1, <1>9 DEF SC!Below, SC!WS!OnReadError, SC!WS!OnWrite, SC!WS!OnWriteError,
         SC!WS!WriteDone
<1> QED BY <1>2, <1>3, <1>4, <1>5, <1>6, <1>7, <1>8, <1>9
        DEF ClientStep, SC!OnWsFailed, SC!Below

(* Only a frame out of order finds no function for messages, and only one  *)
(* with a bad length cannot be constructed.                                *)
LEMMA HandlerEnds ==
    ASSUME CallbacksGiven, status = "running", NEW frame \in SC!Frames, NEW throws \in BOOLEAN,
           SC!MessageHandler(frame, throws)
    PROVE  CallbacksGiven' /\ (status' = "running" \/ ~conforms' \/ badLength' \/ throws)
<1>1. /\ UNCHANGED <<step, onConnect_, writing, token, sent>>
      /\ conforms' = (conforms /\ SC!InProtocol(frame))
      /\ badLength' = (badLength \/ SC!ConstructorThrows(frame))
      /\ SC!ConstructorThrows(frame) \/ SC!CallsEmpty(frame) \/ throws \/ status' = status
  BY DEF SC!MessageHandler, SC!WS!OnMessage, SC!WS!OnMessageThrows, SC!WS!vars,
         SC!WS!connection, SC!WS!chain, SC!WS!writes
<1>2. Subscriptions' = Subscriptions
  BY <1>1 DEF Subscriptions
<1>3. SC!CallsEmpty(frame) => ~SC!InProtocol(frame)
  <2> SUFFICES ASSUME SC!CallsEmpty(frame), SC!InProtocol(frame) PROVE FALSE
    OBVIOUS
  <2>1. token = NoToken /\ frame.command = "MESSAGE" /\ frame.token \in sent
    BY DEF SC!CallsEmpty, SC!InProtocol
  <2>2. frame.token \in Tokens
    BY <2>1 DEF SC!Frames
  <2> QED BY <2>1, <2>2 DEF CallbacksGiven, Subscriptions
<1> QED BY <1>1, <1>2, <1>3 DEF CallbacksGiven

LEMMA NextEndInv == Inv /\ EndInv /\ [Next]_vars => EndInv'
<1> SUFFICES ASSUME Inv, EndInv, [Next]_vars PROVE EndInv'
  OBVIOUS
<1> DEFINE BadInput == phase = "configure" \/ ~conforms \/ badLength \/ malformed
           InHandshake == timer = "fired" /\ step = "handshake"
           WhileWriting == sent = {"STOMP"} /\ accepted /\ writing # "no"
           MayEnd == BadInput \/ InHandshake \/ WhileWriting
<1>0. StompCameFirst'
  BY NextStompFirst DEF EndInv
<1>1. SUFFICES ASSUME Next PROVE EndInv'
  <2>1. ASSUME UNCHANGED vars PROVE EndInv'
    <3>1. UNCHANGED <<step, onConnect_, writing, token, sent, status, phase, conforms,
                      badLength, malformed, timer, accepted>>
      BY <2>1 DEF vars, client, monitor
    <3> QED BY <1>0, <3>1 DEF EndInv, CallbacksGiven, Subscriptions, OnlyBadInputEnds
  <2> QED BY <2>1
<1>2. CallbacksGiven /\ status = "running"
  BY <1>1 DEF Next, EndInv
<1>3. SUFFICES CallbacksGiven' /\ (status' = "crashed" => MayEnd')
  BY <1>0 DEF EndInv, OnlyBadInputEnds
<1>4. ASSUME UNCHANGED <<step, onConnect_, writing, token, sent>> PROVE CallbacksGiven'
  BY <1>2, <1>4 DEF CallbacksGiven, Subscriptions
<1>5. CASE ConfigureThrows \/ OnTimerInHandshake \/ OnConnectOverlaps
  <2>1. UNCHANGED client
    BY <1>5 DEF ConfigureThrows, OnTimerInHandshake, OnConnectOverlaps, Crash
  <2>2. ASSUME ConfigureThrows PROVE MayEnd'
    BY <2>2 DEF ConfigureThrows, monitor
  <2>3. ASSUME OnTimerInHandshake PROVE MayEnd'
    BY <2>1, <2>3 DEF OnTimerInHandshake, client
  <2>4. ASSUME OnConnectOverlaps PROVE MayEnd'
    <3>1. answering /\ writing # "no"
      BY <2>4 DEF OnConnectOverlaps
    <3>2. conforms => sent = {"STOMP"} /\ accepted
      BY <3>1 DEF Inv, SubscribesOnce, Subscriptions, EndInv, StompCameFirst
    <3> QED BY <2>1, <3>1, <3>2 DEF client
  <2>5. MayEnd'
    BY <1>5, <2>2, <2>3, <2>4
  <2> QED BY <1>4, <2>1, <2>5 DEF client
<1>6. CASE Run \/ Return
  BY <1>2, <1>4, <1>6 DEF Run, Return, client
<1>7. CASE Configure
  <2>1. /\ onConnect_' = TRUE /\ UNCHANGED <<writing, status>> /\ sent' = {}
    BY <1>7 DEF Configure, SC!Connect, SC!WS!Connect, SC!WS!writes
  <2> QED BY <1>2, <2>1 DEF CallbacksGiven, Subscriptions
<1>8. CASE OnTimer
  <2>1. UNCHANGED <<step, onConnect_, writing, token, sent, status>>
    BY <1>8 DEF OnTimer, CloseClient, SC!Close, SC!WS!Close, SC!WS!chain, SC!WS!writes,
           SC!client, SC!server
  <2> QED BY <1>2, <1>4, <2>1
<1>9. CASE ClientStep
  BY <1>2, <1>9, ClientStepEnds
<1>10. CASE OnConnect
  <2>1. CASE UNCHANGED <<client, status>>
    BY <1>2, <1>4, <2>1 DEF client
  <2>2. ASSUME NEW t \in Tokens, SC!SubscribeAs(t)
        PROVE  CallbacksGiven' /\ status' = "running"
    BY <1>2, <2>2, MonitorAssumption
       DEF SC!SubscribeAs, SC!SendSubscribe, SC!WS!Send, SC!WS!chain, CallbacksGiven
  <2> QED BY <1>10, <2>1, <2>2 DEF OnConnect, SC!Subscribe
<1>11. ASSUME NEW frame \in SC!Frames, OnFrame(frame)
       PROVE  CallbacksGiven' /\ (status' = "crashed" => MayEnd')
  BY <1>2, <1>11, HandlerEnds DEF OnFrame
<1>12. ASSUME NEW frame \in SC!Frames, NEW m \in Messages, OnMessage(frame, m)
       PROVE  CallbacksGiven' /\ (status' = "crashed" => MayEnd')
  <2>1. (Delivered(frame, m) /\ Throws(m)) \in BOOLEAN
    OBVIOUS
  <2>2. CallbacksGiven' /\ (status' = "running" \/ ~conforms' \/ badLength' \/ Throws(m))
    BY <1>2, <1>12, <2>1, HandlerEnds DEF OnMessage
  <2>3. Throws(m) => malformed'
    BY <1>12 DEF OnMessage, Throws
  <2> QED BY <2>2, <2>3
<1> QED BY <1>1, <1>5, <1>6, <1>7, <1>8, <1>9, <1>10, <1>11, <1>12, <1>2 DEF Next

(* The program ends abnormally only in Configure, after input no server    *)
(* should send, or in the two windows in which a rule of the stream can be *)
(* broken.                                                                 *)
THEOREM OnlyBadInputEndsIt == Spec => []OnlyBadInputEnds
<1>1. Init => EndInv
  BY DEF Init, SC!Init, SC!WS!Init, EndInv, CallbacksGiven, Subscriptions, StompCameFirst,
     OnlyBadInputEnds
<1>2. EndInv => OnlyBadInputEnds BY DEF EndInv
<1> QED BY <1>1, <1>2, InitInv, NextInv, NextEndInv, PTL DEF Spec
-----------------------------------------------------------------------------
(* The WebSocketClient below, and how the program returns.                 *)

LEMMA ClientBounds == WSP!BoundsAssumption
  BY MonitorAssumption DEF WSP!BoundsAssumption

(* What ends the program leaves the connection as it is.                   *)
EndsProgram == UNCHANGED WSP!connection /\ status' \in {status, "crashed"}

(* The program calls its WebSocketClient as any user may: each of its      *)
(* steps is one of that class, or touches no connection.                   *)
LEMMA StepOfClient == [Next]_vars => [WSP!Next]_(WSP!vars) \/ EndsProgram
<1> SUFFICES ASSUME [Next]_vars PROVE [WSP!Next]_(WSP!vars) \/ EndsProgram
  OBVIOUS
<1>1. ASSUME UNCHANGED client, status' \in {status, "crashed"} PROVE EndsProgram
  BY <1>1 DEF client, EndsProgram, WSP!connection, WSP!chain, WSP!writes, WSP!ends, WSP!reads
<1>2. CASE UNCHANGED vars
  BY <1>1, <1>2 DEF vars
<1> SUFFICES ASSUME Next PROVE WSP!Next \/ EndsProgram
  BY <1>2
<1>3. WSP!Running
  BY DEF Next, WSP!Running
<1>4. CASE \/ ConfigureThrows \/ Run \/ Return \/ OnTimerInHandshake \/ OnConnectOverlaps
           \/ OnConnect /\ UNCHANGED <<client, status>>
  BY <1>1, <1>4 DEF ConfigureThrows, Run, Return, OnTimerInHandshake, OnConnectOverlaps, Crash
<1> USE DEF WSP!Next, WSP!chain, WSP!writes, WSP!ends, WSP!reads, WSP!connection, WSP!vars,
        SC!WS!chain, SC!WS!writes, SC!WS!ends, SC!WS!reads, SC!WS!connection, SC!WS!vars,
        WSP!NextStep, SC!WS!NextStep, WSP!Answered, SC!WS!Answered
<1>5. ASSUME SC!WS!Connect \/ SC!WS!Send \/ SC!WS!Close PROVE WSP!Next
  BY <1>3, <1>5 DEF SC!WS!Connect, WSP!Connect, SC!WS!Send, WSP!Send, SC!WS!Close, WSP!Close
<1>6. ASSUME \/ \E at \in DOMAIN SC!WS!NextStep : SC!WS!Advance(at) \/ SC!WS!Fail(at)
             \/ SC!WS!OnHandshake \/ SC!WS!OnHandshakeError
      PROVE  WSP!Next
  BY <1>3, <1>6 DEF SC!WS!Advance, WSP!Advance, SC!WS!Fail, WSP!Fail, SC!WS!OnHandshake,
     WSP!OnHandshake, SC!WS!Listening, WSP!Listening, SC!WS!OnHandshakeError, WSP!OnHandshakeError
<1>7. ASSUME SC!WS!OnMessage \/ SC!WS!OnMessageThrows \/ SC!WS!OnReadError \/ SC!WS!OnReadAborted
      PROVE  WSP!Next
  BY <1>3, <1>7 DEF SC!WS!OnMessage, WSP!OnMessage, SC!WS!OnMessageThrows, WSP!OnMessageThrows,
     SC!WS!OnReadError, WSP!OnReadError, SC!WS!OnReadAborted, WSP!OnReadAborted,
     SC!WS!Reports, WSP!Reports
<1>8. ASSUME SC!WS!OnWrite \/ SC!WS!OnWriteError \/ SC!WS!OnClose
      PROVE  WSP!Next
  BY <1>3, <1>8 DEF SC!WS!OnWrite, WSP!OnWrite, SC!WS!OnWriteError, WSP!OnWriteError,
     SC!WS!WriteDone, WSP!WriteDone, SC!WS!OnClose, WSP!OnClose,
     SC!WS!StreamClosed, WSP!StreamClosed
<1>9. CASE Configure \/ OnTimer \/ (OnConnect /\ SC!Subscribe)
  <2>1. SC!WS!Connect \/ SC!WS!Send \/ SC!WS!Close
    BY <1>9 DEF Configure, SC!Connect, OnTimer, CloseClient, SC!Close, SC!Subscribe,
           SC!SubscribeAs, SC!SendSubscribe
  <2> QED BY <1>5, <2>1
<1>10. CASE ClientStep
  <2>1. CASE SC!OnWsFailed \/ SC!OnHandshake
    BY <1>6, <2>1 DEF SC!OnWsFailed, SC!OnHandshake
  <2>2. CASE SC!OnWsConnect
    BY <1>5, <2>2 DEF SC!OnWsConnect
  <2>3. CASE SC!OnClose
    BY <1>8, <2>3 DEF SC!OnClose
  <2>4. CASE SC!OnDisconnect
    BY <1>7, <2>4 DEF SC!OnDisconnect
  <2>5. CASE SC!Below
    BY <1>6, <1>7, <1>8, <2>5 DEF SC!Below
  <2> QED BY <1>10, <2>1, <2>2, <2>3, <2>4, <2>5 DEF ClientStep
<1>11. ASSUME NEW frame, NEW throws, SC!MessageHandler(frame, throws) PROVE WSP!Next
  <2>1. SC!WS!OnMessage \/ SC!WS!OnMessageThrows
    BY <1>11 DEF SC!MessageHandler
  <2> QED BY <1>7, <2>1
<1> QED BY <1>4, <1>9, <1>10, <1>11 DEF Next, OnConnect, OnFrame, OnMessage

LEMMA EndsProgramInv == WSP!Inv /\ EndsProgram => WSP!Inv'
  BY DEF EndsProgram, WSP!Inv, WSP!TypeOK, WSP!ChainOrLoop, WSP!LoopIsSilent, WSP!LostIsKnown,
     WSP!WriteIsCounted, WSP!DisconnectOnlyWhenLost, WSP!IsOpen, WSP!connection, WSP!chain,
     WSP!writes, WSP!ends, WSP!reads

LEMMA NextClientInv == WSP!Inv /\ [Next]_vars => WSP!Inv'
  BY StepOfClient, EndsProgramInv, ClientBounds, WSP!NextInv

LEMMA InitClientInv == Init => WSP!Inv
<1>1. Init => WSP!Init
  BY DEF Init, SC!Init, SC!WS!Init, WSP!Init
<1> QED BY <1>1, ClientBounds, WSP!InitInv

LEMMA AlwaysClientInv == Spec => []WSP!Inv
  BY InitClientInv, NextClientInv, PTL DEF Spec

LEMMA InitConnection == Init => SC!WS!C!Init
  BY DEF Init, SC!Init, SC!WS!Init, SC!WS!C!Init, SC!WS!ConnectionPhase

LEMMA NextConnection == WSP!Inv /\ [Next]_vars => [SC!WS!C!Next]_(SC!WS!C!vars)
<1> SUFFICES ASSUME WSP!Inv, [Next]_vars PROVE [SC!WS!C!Next]_(SC!WS!C!vars)
  OBVIOUS
<1>1. CASE [WSP!Next]_(WSP!vars)
  <2>1. [WSP!C!Next]_(WSP!C!vars)
    BY <1>1, ClientBounds, WSP!NextRefines
  <2> QED BY <2>1 DEF WSP!C!Next, WSP!C!vars, WSP!C!Connect, WSP!C!Answer, WSP!C!Message, WSP!C!Close, WSP!C!End,
             WSP!C!Report, WSP!C!Crash, WSP!ConnectionPhase, SC!WS!C!Next, SC!WS!C!vars,
             SC!WS!C!Connect, SC!WS!C!Answer, SC!WS!C!Message, SC!WS!C!Close, SC!WS!C!End, SC!WS!C!Report,
             SC!WS!C!Crash, SC!WS!ConnectionPhase
<1>2. CASE EndsProgram /\ Next
  <2>1. SC!WS!C!Crash \/ UNCHANGED SC!WS!C!vars
    BY <1>2 DEF EndsProgram, WSP!connection, WSP!chain, WSP!reads, WSP!ends, SC!WS!C!Crash,
       SC!WS!C!vars, SC!WS!ConnectionPhase
  <2> QED BY <1>2, <2>1 DEF Next, SC!WS!C!Next
<1>3. CASE UNCHANGED vars
  BY <1>3 DEF vars, client, SC!WS!C!vars, SC!WS!ConnectionPhase
<1> QED BY <1>1, <1>2, <1>3, StepOfClient

(* Whatever the program and the server do, the callbacks of the connection *)
(* come in the order Connection promises.                                  *)
THEOREM MonitorKeepsConnection == Spec => SC!WS!ImplementsConnection
  BY InitConnection, NextConnection, AlwaysClientInv, PTL
     DEF Spec, SC!WS!ImplementsConnection, SC!WS!C!Spec

(* The variables of StompClient and of the program have their types.       *)
OwnTypes ==
    /\ {connected_, subscribed_, disconnected_, calling, accepted, conforms, badLength} \subseteq BOOLEAN
    /\ token \in Tokens \union {NoToken}
    /\ connectTold \in {"no", "ok", "error"}
    /\ onDisconnects \in Nat
    /\ sent \subseteq Tokens \union {"STOMP"}
    /\ acknowledged \subseteq Tokens
    /\ phase \in {"configure", "configured", "running", "returned"}
    /\ timer \in {"none", "pending", "fired"}
    /\ {answering, malformed} \subseteq BOOLEAN

CountTypes ==
    /\ phase # "configure" => passengers \in [Layout -> -MaxPassengers..MaxPassengers]
    /\ ledger \in [Layout -> -MaxPassengers..MaxPassengers]

LEMMA TypesAreThese == WSP!Inv /\ OwnTypes /\ CountTypes => TypeOK
  BY DEF WSP!Inv, WSP!TypeOK, WSP!NextStep, OwnTypes, CountTypes, TypeOK, SC!TypeOK, SC!WS!TypeOK,
     SC!WS!NextStep

LEMMA InitTypes == Init => OwnTypes /\ CountTypes
<1> SUFFICES ASSUME Init PROVE OwnTypes /\ CountTypes
  OBVIOUS
<1>1. 0 \in -MaxPassengers..MaxPassengers
  BY MonitorAssumption
<1>2. CountTypes
  BY <1>1 DEF Init, CountTypes
<1> QED BY <1>2 DEF Init, SC!Init, OwnTypes

LEMMA NextOwnTypes == OwnTypes /\ [Next]_vars => OwnTypes'
<1> SUFFICES ASSUME OwnTypes, [Next]_vars PROVE OwnTypes'
  OBVIOUS
<1> USE DEF OwnTypes, monitor, SC!client, SC!flags, SC!told, SC!server
<1>1. CASE UNCHANGED vars
  BY <1>1 DEF vars, client
<1>2. CASE ConfigureThrows \/ Run \/ Return \/ OnTimerInHandshake \/ OnConnectOverlaps
  BY <1>2 DEF ConfigureThrows, Run, Return, OnTimerInHandshake, OnConnectOverlaps, Crash, client
<1>3. CASE Configure
  BY <1>3 DEF Configure, SC!Connect
<1>4. CASE OnTimer
  BY <1>4 DEF OnTimer, CloseClient, SC!Close
<1>5. CASE ClientStep
  <2>1. CASE SC!OnWsFailed \/ SC!OnHandshake \/ SC!OnWsConnect
    BY <1>5, <2>1 DEF ClientStep, SC!OnWsFailed, SC!OnHandshake, SC!OnWsConnect
  <2>2. CASE SC!OnClose \/ SC!Below
    BY <1>5, <2>2 DEF ClientStep, SC!OnClose, SC!FlagSet, SC!Below
  <2>3. CASE SC!OnDisconnect
    BY <1>5, <2>3 DEF ClientStep, SC!OnDisconnect
  <2> QED BY <1>5, <2>1, <2>2, <2>3 DEF ClientStep
<1>6. CASE OnConnect
  BY <1>6 DEF OnConnect, client, SC!Subscribe, SC!SubscribeAs, SC!SendSubscribe
<1>7. ASSUME NEW frame \in SC!Frames, NEW throws, SC!MessageHandler(frame, throws)
      PROVE  /\ {connected_, subscribed_, disconnected_, calling, accepted, conforms, badLength}' \subseteq BOOLEAN
             /\ connectTold' \in {"no", "ok", "error"}
             /\ acknowledged' \subseteq Tokens
             /\ UNCHANGED <<token, onDisconnects, sent>>
  <2>1. frame.command = "RECEIPT" => frame.token \in Tokens
    BY DEF SC!Frames
  <2> QED BY <1>7, <2>1 DEF SC!MessageHandler, SC!SubscribedBy, SC!ConnectToldBy
<1>8. ASSUME NEW frame \in SC!Frames, OnFrame(frame) PROVE OwnTypes'
  BY <1>7, <1>8 DEF OnFrame
<1>9. ASSUME NEW frame \in SC!Frames, NEW m \in Messages, OnMessage(frame, m) PROVE OwnTypes'
  BY <1>7, <1>9 DEF OnMessage
<1> QED BY <1>1, <1>2, <1>3, <1>4, <1>5, <1>6, <1>8, <1>9 DEF Next

(* The bound on the counts is in the guard of OnMessage.                   *)
LEMMA NextCountTypes == Inv /\ CountTypes /\ [Next]_vars => CountTypes'
<1> SUFFICES ASSUME Inv, CountTypes, [Next]_vars PROVE CountTypes'
  OBVIOUS
<1>1. CASE Configure
  <2>1. 0 \in -MaxPassengers..MaxPassengers
    BY MonitorAssumption
  <2> QED BY <1>1, <2>1 DEF Configure, CountTypes
<1>2. ASSUME NEW frame \in SC!Frames, NEW m \in Messages, OnMessage(frame, m)
      PROVE  CountTypes'
  <2>1. Inv' /\ phase' = "running"
    BY <1>2, OnMessageInv DEF OnMessage, Handling
  <2>2. passengers' \in [Layout -> Int] /\ ledger' \in [Layout -> Int]
    BY <2>1 DEF Inv, CountsAreInts
  <2>3. \A s \in Layout : /\ passengers'[s] \in -MaxPassengers..MaxPassengers
                          /\ ledger'[s] \in -MaxPassengers..MaxPassengers
    BY <1>2, <2>2 DEF OnMessage
  <2> QED BY <2>2, <2>3 DEF CountTypes
<1>3. ASSUME UNCHANGED <<passengers, ledger>>, phase' # "configure" => phase # "configure"
      PROVE  CountTypes'
  BY <1>3 DEF CountTypes
<1>4. CASE ConfigureThrows \/ Run \/ Return \/ OnTimerInHandshake \/ OnConnectOverlaps
  BY <1>3, <1>4 DEF ConfigureThrows, Run, Return, Handling, OnTimerInHandshake,
     OnConnectOverlaps, monitor
<1>5. CASE OnTimer \/ ClientStep \/ OnConnect \/ UNCHANGED vars
  BY <1>3, <1>5 DEF OnTimer, ClientStep, OnConnect, vars, monitor
<1>6. ASSUME NEW frame, OnFrame(frame) PROVE CountTypes'
  BY <1>3, <1>6 DEF OnFrame
<1> QED BY <1>1, <1>2, <1>4, <1>5, <1>6 DEF Next

(* Every variable has its type, those of the two clients and the counts    *)
(* of all stations included.                                               *)
THEOREM TypeCorrect == Spec => []TypeOK
<1>1. Init => Inv /\ OwnTypes /\ CountTypes
  BY InitInv, InitTypes
<1>2. Inv /\ OwnTypes /\ CountTypes /\ [Next]_vars => (Inv /\ OwnTypes /\ CountTypes)'
  BY NextInv, NextOwnTypes, NextCountTypes
<1> QED BY <1>1, <1>2, AlwaysClientInv, TypesAreThese, PTL DEF Spec
-----------------------------------------------------------------------------
(* A connection the flags tell of is one whose end will still be told: the *)
(* read that learns of it, or the close, is pending.                       *)
EndWillBeTold ==
    /\ closed_ => closing \/ disconnected_
    /\ SC!IsConnected => reading \/ closing

(* io_context::run does not return before that.                            *)
ReturnInv ==
    /\ EndWillBeTold
    /\ phase = "returned" => ~answering
    /\ ReturnedDisconnected

LEMMA ClientStepEndsIt ==
    ASSUME WSP!Inv, EndWillBeTold, ClientStep PROVE EndWillBeTold'
<1> USE DEF EndWillBeTold, SC!IsConnected, SC!WS!reads, SC!WS!ends, SC!flags, SC!client
<1>1. CASE SC!OnWsFailed
  BY <1>1 DEF SC!OnWsFailed, SC!WS!Fail, SC!WS!OnHandshakeError
<1>2. CASE SC!OnHandshake
  BY <1>2 DEF SC!OnHandshake, SC!WS!OnHandshake, SC!WS!Listening
<1>3. CASE SC!OnWsConnect
  BY <1>3 DEF SC!OnWsConnect, SC!WS!Send
<1>4. CASE SC!OnClose
  BY <1>4 DEF SC!OnClose, SC!FlagSet, SC!WS!OnClose
<1>5. CASE SC!OnDisconnect
  <2>1. /\ disconnects' = IF closed_ THEN disconnects ELSE disconnects + 1
        /\ UNCHANGED <<closing, closed_, connected_>>
    BY <1>5 DEF SC!OnDisconnect, SC!WS!OnReadAborted, SC!WS!Reports
  <2>2. disconnects \in Nat
    BY DEF WSP!Inv, WSP!TypeOK
  <2>3. CASE disconnects' > disconnects /\ SC!MayReport
    <3>1. disconnected_' = TRUE
      BY <1>5, <2>3, Zenon DEF SC!OnDisconnect
    <3> QED BY <2>1, <3>1
  <2>4. CASE ~(disconnects' > disconnects /\ SC!MayReport)
    <3>1. disconnected_' <=> disconnected_
      BY <1>5, <2>4 DEF SC!OnDisconnect
    <3>2. closed_ \/ ~SC!IsConnected
      BY <2>1, <2>2, <2>4 DEF SC!MayReport
    <3> QED BY <2>1, <3>1, <3>2
  <2> QED BY <2>3, <2>4
<1>6. CASE SC!Below
  BY <1>6 DEF SC!Below, SC!WS!Advance, SC!WS!OnReadError, SC!WS!OnWrite, SC!WS!OnWriteError
<1> QED BY <1>1, <1>2, <1>3, <1>4, <1>5, <1>6 DEF ClientStep

LEMMA NextReturnInv == WSP!Inv /\ ReturnInv /\ [Next]_vars => ReturnInv'
<1> SUFFICES ASSUME WSP!Inv, ReturnInv, [Next]_vars PROVE ReturnInv'
  OBVIOUS
<1>1. ASSUME UNCHANGED <<connected_, disconnected_, closed_, closing, reading, stream, phase,
                         answering>>
      PROVE  ReturnInv'
  BY <1>1 DEF ReturnInv, EndWillBeTold, ReturnedDisconnected, SC!IsConnected
<1>2. CASE UNCHANGED vars \/ ConfigureThrows \/ OnTimerInHandshake
  BY <1>1, <1>2 DEF vars, client, ConfigureThrows, OnTimerInHandshake, Crash, monitor
<1>3. CASE Configure
  BY <1>3 DEF Configure, SC!Connect, SC!WS!Connect, SC!flags, ReturnInv, EndWillBeTold,
     ReturnedDisconnected, SC!IsConnected
<1>4. CASE Run
  BY <1>4 DEF Run, client, ReturnInv, EndWillBeTold, ReturnedDisconnected, SC!IsConnected
<1>5. CASE Return
  <2>1. ~reading /\ ~closing /\ ~answering /\ UNCHANGED <<client, answering>>
    BY <1>5 DEF Return, Handling
  <2>2. stream # "open" /\ ~SC!IsConnected
    BY <2>1 DEF WSP!Inv, WSP!LoopIsSilent, WSP!IsOpen, ReturnInv, EndWillBeTold
  <2> QED BY <2>1, <2>2 DEF client, ReturnInv, EndWillBeTold, ReturnedDisconnected,
             SC!IsConnected
<1>6. ASSUME phase' = "running", EndWillBeTold' PROVE ReturnInv'
  BY <1>6 DEF ReturnInv, ReturnedDisconnected
<1>7. CASE OnTimer
  BY <1>6, <1>7 DEF OnTimer, Handling, CloseClient, SC!Close, SC!WS!Close, SC!WS!reads,
     SC!client, SC!flags, ReturnInv, EndWillBeTold, SC!IsConnected
<1>8. CASE ClientStep
  BY <1>6, <1>8, ClientStepEndsIt DEF ClientStep, Handling, monitor, ReturnInv
<1>9. CASE OnConnect \/ OnConnectOverlaps
  <2>1. UNCHANGED <<connected_, disconnected_, closed_, closing, reading, stream, phase>>
    BY <1>9 DEF OnConnect, OnConnectOverlaps, Crash, client, SC!Subscribe, SC!SubscribeAs,
       SC!SendSubscribe, SC!WS!Send, SC!WS!reads, SC!WS!ends, SC!flags
  <2>2. answering
    BY <1>9 DEF OnConnect, OnConnectOverlaps
  <2> QED BY <2>1, <2>2 DEF ReturnInv, EndWillBeTold, ReturnedDisconnected, SC!IsConnected
<1>10. ASSUME NEW frame, NEW throws, SC!MessageHandler(frame, throws) PROVE EndWillBeTold'
  BY <1>10 DEF SC!MessageHandler, SC!WS!OnMessage, SC!WS!OnMessageThrows, SC!WS!vars,
     SC!WS!connection, SC!WS!reads, SC!WS!ends, ReturnInv, EndWillBeTold, SC!IsConnected
<1>11. ASSUME NEW frame, OnFrame(frame) PROVE ReturnInv'
  BY <1>6, <1>10, <1>11 DEF OnFrame, Handling
<1>12. ASSUME NEW frame, NEW m, OnMessage(frame, m) PROVE ReturnInv'
  BY <1>6, <1>10, <1>12 DEF OnMessage, Handling
<1> QED BY <1>2, <1>3, <1>4, <1>5, <1>7, <1>8, <1>9, <1>11, <1>12 DEF Next

(* When run has returned, the client does not say that it is connected,    *)
(* and the stream is not open.                                             *)
THEOREM ReturnsDisconnected == Spec => []ReturnedDisconnected
<1>1. Init => ReturnInv
  BY DEF Init, SC!Init, SC!WS!Init, ReturnInv, EndWillBeTold, ReturnedDisconnected,
     SC!IsConnected
<1>2. ReturnInv => ReturnedDisconnected BY DEF ReturnInv
<1> QED BY <1>1, <1>2, AlwaysClientInv, NextReturnInv, PTL DEF Spec
=============================================================================
