------------------------- MODULE StompClientProofs -------------------------
(***************************************************************************)
(* Proofs about StompClient, for any number of connections, subscriptions  *)
(* and closes, any server, and any ids. They need a few facts about the    *)
(* WebSocketClient below, which are invariants of it with both handlers    *)
(* given.                                                                  *)
(***************************************************************************)
EXTENDS StompClient, TLAPS

(* The client below, and what is proved of every such client.              *)
WSP == INSTANCE WebSocketClientProofs WITH
        MaxSends <- MaxConnects + MaxSubscribes,
        ConnectHandlers <- {TRUE}, SendHandlers <- {TRUE}

(* The callbacks of the WebSocketClient are given whenever it calls one.   *)
CallbacksGiven == (step # "idle" => onConnect_) /\ writing \in {"no", "onSend"}

CountsAreNumbers == disconnects \in Nat /\ onDisconnects \in Nat

(* A Close is pending until OnClose has set the flag.                      *)
CloseIsNoticed == closed_ => closing \/ disconnected_

(* The flags, which no Connect resets, do not outlive their connection:    *)
(* the handler that would tell of its end is still to come.                *)
FlagsAreOfThisConnection ==
    /\ IsConnected => reading \/ closing
    /\ accepted => connected_

(* A subscription the server knows of has left its ids.                    *)
SentHasToken == sent \intersect Tokens # {} => token # NoToken

ReportedBefore == onDisconnects # 0 => disconnected_

Inv ==
    /\ CallbacksGiven /\ CountsAreNumbers /\ CloseIsNoticed
    /\ FlagsAreOfThisConnection /\ SentHasToken /\ ReportedBefore
    /\ AgreesWithServer /\ OnlyBadFramesCrash

LEMMA InitInv == Init => Inv
  BY TokensAssumption
     DEF Init, WS!Init, Inv, CallbacksGiven, CountsAreNumbers, CloseIsNoticed,
         FlagsAreOfThisConnection, SentHasToken, ReportedBefore, AgreesWithServer,
         OnlyBadFramesCrash, IsConnected, IsSubscribed

(* Steps that leave the flags and the server alone.                        *)
LEMMA BelowInv ==
    ASSUME Inv, Running,
           OnWsFailed \/ OnHandshake \/ Close \/ Below
    PROVE  Inv'
<1> USE DEF Inv, CallbacksGiven, CountsAreNumbers, CloseIsNoticed, FlagsAreOfThisConnection,
        SentHasToken, ReportedBefore, AgreesWithServer, OnlyBadFramesCrash, IsConnected,
        IsSubscribed, Running, WS!Running, flags, told, server, client,
        WS!chain, WS!reads, WS!writes, WS!ends, WS!NextStep, WS!Answered
<1>1. ASSUME NEW at \in DOMAIN WS!NextStep, WS!Fail(at), OnWsFailed PROVE Inv'
  BY <1>1 DEF OnWsFailed, WS!Fail
<1>2. CASE OnWsFailed /\ WS!OnHandshakeError
  BY <1>2 DEF OnWsFailed, WS!OnHandshakeError
<1>3. CASE OnHandshake
  BY <1>3 DEF OnHandshake, WS!OnHandshake, WS!Listening
<1>4. CASE Close
  BY <1>4 DEF Close, WS!Close
<1>5. ASSUME NEW at \in DOMAIN WS!NextStep, WS!Advance(at), Below PROVE Inv'
  BY <1>5 DEF Below, WS!Advance
<1>6. CASE Below /\ WS!OnReadError
  BY <1>6 DEF Below, WS!OnReadError
<1>7. CASE Below /\ WS!OnWrite
  BY <1>7 DEF Below, WS!OnWrite, WS!WriteDone
<1>8. CASE Below /\ WS!OnWriteError
  BY <1>8 DEF Below, WS!OnWriteError, WS!WriteDone
<1> QED BY <1>1, <1>2, <1>3, <1>4, <1>5, <1>6, <1>7, <1>8 DEF OnWsFailed, Below

(* Connect may start only when the flags tell of no connection.            *)
LEMMA ConnectInv == Inv /\ Running /\ Connect => Inv'
  BY TokensAssumption
     DEF Connect, WS!Connect, Inv, CallbacksGiven, CountsAreNumbers, CloseIsNoticed,
         FlagsAreOfThisConnection, SentHasToken, ReportedBefore, AgreesWithServer,
         OnlyBadFramesCrash, IsConnected, IsSubscribed, Running, WS!Running, flags, WS!writes

(* The ends of a connection: one of the two handlers sets the flag.        *)
LEMMA EndInv == Inv /\ Running /\ (OnClose \/ OnDisconnect) => Inv'
<1> USE DEF Inv, CallbacksGiven, CountsAreNumbers, CloseIsNoticed, FlagsAreOfThisConnection,
        SentHasToken, ReportedBefore, AgreesWithServer, OnlyBadFramesCrash, IsConnected,
        IsSubscribed, Running, WS!Running, told, server,
        WS!chain, WS!reads, WS!writes, WS!ends
<1>1. ASSUME Inv, Running, OnClose PROVE Inv'
  BY <1>1 DEF OnClose, FlagSet, WS!OnClose
<1>2. ASSUME Inv, Running, OnDisconnect PROVE Inv'
  <2>1. /\ ~reading' /\ disconnects' = IF closed_ THEN disconnects ELSE disconnects + 1
        /\ UNCHANGED <<step, onConnect_, writing, closing, closed_, status, connected_,
                       subscribed_, token, connectTold, sent, accepted, acknowledged, conforms>>
    BY <1>2 DEF OnDisconnect, WS!OnReadAborted, WS!Reports
  <2>2. CASE disconnects' > disconnects /\ MayReport
    <3>1. disconnected_' = TRUE /\ onDisconnects' = onDisconnects + 1
      BY <1>2, <2>2, Zenon DEF OnDisconnect
    <3> QED BY <1>2, <2>1, <3>1
  <2>3. CASE ~(disconnects' > disconnects /\ MayReport)
    <3>1. (disconnected_' <=> disconnected_) /\ onDisconnects' = onDisconnects
      BY <1>2, <2>3 DEF OnDisconnect
    <3>2. closed_ \/ ~IsConnected
      BY <1>2, <2>1, <2>3 DEF MayReport
    <3> QED BY <1>2, <2>1, <3>1, <3>2
  <2> QED BY <2>2, <2>3
<1> QED BY <1>1, <1>2

(* Frames of the client.                                                   *)
LEMMA SendInv == Inv /\ Running /\ (OnWsConnect \/ Subscribe) => Inv'
<1> USE DEF Inv, CallbacksGiven, CountsAreNumbers, CloseIsNoticed, FlagsAreOfThisConnection,
        SentHasToken, ReportedBefore, AgreesWithServer, OnlyBadFramesCrash, IsConnected,
        IsSubscribed, Running, WS!Running, flags, told, WS!Send, WS!chain, WS!reads, WS!ends
<1>1. ASSUME Inv, Running, OnWsConnect PROVE Inv'
  BY <1>1, TokensAssumption DEF OnWsConnect
<1>2. ASSUME Inv, Running, NEW t \in Tokens, ~subscribed_, SubscribeAs(t) PROVE Inv'
  BY <1>2, TokensAssumption DEF SubscribeAs, SendSubscribe
<1> QED BY <1>1, <1>2 DEF Subscribe

(* A frame in the order of the protocol never finds a callback missing,    *)
(* and a receipt that subscribes is one the server sent for these ids.     *)
LEMMA MessageInv ==
    ASSUME Inv, Running, NEW frame \in Frames, MessageHandler(frame, FALSE)
    PROVE  Inv'
<1> USE DEF WS!chain, WS!reads, WS!writes, WS!ends, WS!connection, WS!vars, Running, WS!Running
<1>1. /\ UNCHANGED <<step, onConnect_, writing, disconnects, closed_, closing, reading>>
      /\ reading
      /\ UNCHANGED <<disconnected_, token, onDisconnects, sent>>
      /\ status' = IF ConstructorThrows(frame) \/ CallsEmpty(frame)
                   THEN "crashed" ELSE "running"
  BY DEF MessageHandler, WS!OnMessage, WS!OnMessageThrows
<1>2. /\ connected_' = (connected_ \/ frame.command = "CONNECTED")
      /\ subscribed_' = SubscribedBy(frame)
      /\ conforms' = (conforms /\ InProtocol(frame))
      /\ badLength' = (badLength \/ ConstructorThrows(frame))
      /\ accepted' = (accepted \/ frame.command = "CONNECTED")
      /\ acknowledged' = IF frame.command = "RECEIPT"
                         THEN acknowledged \union {frame.token} ELSE acknowledged
      /\ connectTold' = ConnectToldBy(frame)
  BY DEF MessageHandler
<1>3. AgreesWithServer'
  <2> SUFFICES ASSUME conforms'
               PROVE  /\ IsConnected' \/ connectTold' = "ok" => accepted'
                      /\ IsSubscribed' => accepted' /\ token \in acknowledged'
    BY <1>1 DEF AgreesWithServer
  <2>1. conforms /\ InProtocol(frame)
    BY <1>2
  <2>2. IsConnected' \/ connectTold' = "ok" => accepted'
    BY <1>1, <1>2, <2>1 DEF Inv, AgreesWithServer, IsConnected, ConnectToldBy
  <2>3. CASE subscribed_
    <3>1. IsSubscribed' => accepted /\ token \in acknowledged
      BY <1>1, <2>1, <2>3 DEF Inv, AgreesWithServer, IsSubscribed
    <3>2. (accepted => accepted') /\ acknowledged \subseteq acknowledged'
      BY <1>2
    <3> QED BY <2>2, <3>1, <3>2
  <2>4. CASE ~subscribed_
    <3>1. IsSubscribed' => frame.command = "RECEIPT" /\ frame.token = token
      BY <1>2, <2>4 DEF IsSubscribed, SubscribedBy
    <3>2. frame.command = "RECEIPT" => accepted
      BY <2>1 DEF InProtocol
    <3> QED BY <1>2, <2>2, <3>1, <3>2
  <2> QED BY <2>2, <2>3, <2>4
<1>4. OnlyBadFramesCrash'
  <2>1. CallsEmpty(frame) => ~InProtocol(frame)
    <3> SUFFICES ASSUME CallsEmpty(frame), InProtocol(frame) PROVE FALSE
      OBVIOUS
    <3>1. token = NoToken /\ frame.command = "MESSAGE" /\ frame.token \in sent
      BY DEF CallsEmpty, InProtocol
    <3>2. frame.token \in Tokens
      BY <3>1 DEF Frames
    <3> QED BY <3>1, <3>2 DEF Inv, SentHasToken
  <2> QED BY <1>1, <1>2, <2>1 DEF OnlyBadFramesCrash
<1>5. /\ CallbacksGiven' /\ CountsAreNumbers' /\ CloseIsNoticed' /\ FlagsAreOfThisConnection'
      /\ SentHasToken' /\ ReportedBefore'
  BY <1>1, <1>2 DEF Inv, CallbacksGiven, CountsAreNumbers, CloseIsNoticed,
         FlagsAreOfThisConnection, SentHasToken, ReportedBefore, IsConnected
<1> QED BY <1>3, <1>4, <1>5 DEF Inv

LEMMA NextInv == Inv /\ [Next]_vars => Inv'
<1> SUFFICES ASSUME Inv, [Next]_vars PROVE Inv'
  OBVIOUS
<1>1. CASE Next
  BY <1>1, BelowInv, ConnectInv, EndInv, SendInv, MessageInv DEF Next
<1>2. CASE UNCHANGED vars
  BY <1>2 DEF vars, client, flags, told, server, WS!vars, WS!connection, WS!chain, WS!reads,
         WS!writes, WS!ends, Inv, CallbacksGiven, CountsAreNumbers, CloseIsNoticed,
         FlagsAreOfThisConnection, SentHasToken, ReportedBefore, AgreesWithServer,
         OnlyBadFramesCrash, IsConnected, IsSubscribed
<1> QED BY <1>1, <1>2

LEMMA AlwaysInv == Spec => []Inv
  BY InitInv, NextInv, PTL DEF Spec

(* What IsConnected, IsSubscribed and onConnect_ tell the user the server  *)
(* has granted on the present connection.                                  *)
THEOREM FlagsAgreeWithServer == Spec => []AgreesWithServer
<1>1. Inv => AgreesWithServer BY DEF Inv
<1> QED BY AlwaysInv, <1>1, PTL

(* The program ends only after a frame out of the order of the protocol,   *)
(* or one whose content-length is no number.                               *)
THEOREM ProtocolNeverCrashes == Spec => []OnlyBadFramesCrash
<1>1. Inv => OnlyBadFramesCrash BY DEF Inv
<1> QED BY AlwaysInv, <1>1, PTL

(* onDisconnect_ is called at most once, for a connection the server had   *)
(* accepted and the user had not closed.                                   *)
THEOREM DisconnectReportedOnce == Spec => ReportedOnce
<1>1. ASSUME Inv, [Next]_vars
      PROVE  [onDisconnects' # onDisconnects =>
                  onDisconnects' = 1 /\ ~closed_ /\ (conforms => accepted)]_vars
  <2> SUFFICES ASSUME Next, onDisconnects' # onDisconnects
               PROVE  onDisconnects' = 1 /\ ~closed_ /\ (conforms => accepted)
    BY <1>1
  <2>1. OnDisconnect
    BY DEF Next, Connect, OnWsFailed, OnHandshake, OnWsConnect, Close, OnClose, Below,
           Subscribe, SubscribeAs, SendSubscribe, MessageHandler, told, client
  <2>2. onDisconnects' = onDisconnects + 1 /\ MayReport /\ disconnects' > disconnects
    BY <2>1 DEF OnDisconnect
  <2>3. ~closed_
    BY <1>1, <2>1, <2>2 DEF OnDisconnect, WS!OnReadAborted, WS!Reports, Inv, CountsAreNumbers
  <2>4. onDisconnects = 0 /\ (conforms => accepted)
    BY <1>1, <2>2 DEF MayReport, Inv, ReportedBefore, AgreesWithServer, IsConnected
  <2> QED BY <2>2, <2>3, <2>4
<1> QED BY AlwaysInv, <1>1, PTL DEF Spec, ReportedOnce
-----------------------------------------------------------------------------
(* The WebSocketClient below.                                              *)

LEMMA ClientBounds == WSP!BoundsAssumption
  BY TokensAssumption DEF WSP!BoundsAssumption

(* Every action is one of the WebSocketClient.                             *)
LEMMA StepOfClient == [Next]_vars => [WSP!Next]_(WSP!vars)
<1> SUFFICES ASSUME [Next]_vars PROVE [WSP!Next]_(WSP!vars)
  OBVIOUS
<1> USE DEF WSP!Next, WSP!chain, WSP!writes, WSP!ends, WSP!reads, WSP!connection, WSP!vars,
        WS!chain, WS!writes, WS!ends, WS!reads, WS!connection, WS!vars,
        WSP!NextStep, WS!NextStep, WSP!Answered, WS!Answered
<1>1. CASE UNCHANGED vars
  BY <1>1 DEF vars
<1>2. Next => WSP!Running
  BY DEF Next, Running, WS!Running, WSP!Running
<1>3. ASSUME Next, WS!Connect \/ WS!Send \/ WS!Close PROVE WSP!Next
  BY <1>2, <1>3 DEF WS!Connect, WSP!Connect, WS!Send, WSP!Send, WS!Close, WSP!Close
<1>4. ASSUME Next, \/ \E at \in DOMAIN WS!NextStep : WS!Advance(at) \/ WS!Fail(at)
                   \/ WS!OnHandshake \/ WS!OnHandshakeError
      PROVE  WSP!Next
  BY <1>2, <1>4 DEF WS!Advance, WSP!Advance, WS!Fail, WSP!Fail, WS!OnHandshake,
     WSP!OnHandshake, WS!Listening, WSP!Listening, WS!OnHandshakeError, WSP!OnHandshakeError
<1>5. ASSUME Next, WS!OnMessage \/ WS!OnMessageThrows \/ WS!OnReadError \/ WS!OnReadAborted
      PROVE  WSP!Next
  BY <1>2, <1>5 DEF WS!OnMessage, WSP!OnMessage, WS!OnMessageThrows, WSP!OnMessageThrows,
     WS!OnReadError, WSP!OnReadError, WS!OnReadAborted, WSP!OnReadAborted, WS!Reports, WSP!Reports
<1>6. ASSUME Next, WS!OnWrite \/ WS!OnWriteError \/ WS!OnClose PROVE WSP!Next
  BY <1>2, <1>6 DEF WS!OnWrite, WSP!OnWrite, WS!OnWriteError, WSP!OnWriteError,
     WS!WriteDone, WSP!WriteDone, WS!OnClose, WSP!OnClose, WS!StreamClosed, WSP!StreamClosed
<1>7. ASSUME Next PROVE WSP!Next
  <2>1. CASE Connect \/ OnWsConnect \/ Close \/ Subscribe
    BY <1>3, <1>7, <2>1 DEF Connect, OnWsConnect, Close, Subscribe, SubscribeAs, SendSubscribe
  <2>2. CASE OnWsFailed \/ OnHandshake
    BY <1>4, <1>7, <2>2 DEF OnWsFailed, OnHandshake
  <2>3. CASE OnClose \/ OnDisconnect
    BY <1>5, <1>6, <1>7, <2>3 DEF OnClose, OnDisconnect
  <2>4. CASE Below
    BY <1>4, <1>5, <1>6, <1>7, <2>4 DEF Below
  <2>5. ASSUME NEW frame, MessageHandler(frame, FALSE) PROVE WSP!Next
    BY <1>5, <1>7, <2>5 DEF MessageHandler
  <2> QED BY <1>7, <2>1, <2>2, <2>3, <2>4, <2>5 DEF Next
<1> QED BY <1>1, <1>7

LEMMA InitOfClient == Init => WSP!Init
  BY DEF Init, WS!Init, WSP!Init

LEMMA AlwaysClientInv == Spec => []WSP!Inv
<1>1. Init => WSP!Inv
  BY InitOfClient, ClientBounds, WSP!InitInv
<1>2. WSP!Inv /\ [Next]_vars => WSP!Inv'
  BY StepOfClient, ClientBounds, WSP!NextInv
<1> QED BY <1>1, <1>2, PTL DEF Spec

(* Every step of the STOMP client is one that a user of WebSocketClient    *)
(* may take, so the callbacks come to it in the order Connection promises. *)
THEOREM ClientKeepsConnection == Spec => WS!ImplementsConnection
<1>1. Init => WSP!C!Init
  BY InitOfClient, ClientBounds, WSP!InitRefines
<1>2. WSP!Inv /\ [Next]_vars => [WSP!C!Next]_(WSP!C!vars)
  BY StepOfClient, ClientBounds, WSP!NextRefines
<1>3. Init => WS!C!Init
  BY <1>1 DEF WS!C!Init, WSP!C!Init, WS!ConnectionPhase, WSP!ConnectionPhase
<1>4. WSP!Inv /\ [Next]_vars => [WS!C!Next]_(WS!C!vars)
  BY <1>2 DEF WSP!C!Next, WSP!C!vars, WSP!C!Connect, WSP!C!Answer, WSP!C!Message, WSP!C!Close, WSP!C!End,
     WSP!C!Report, WSP!C!Crash, WSP!ConnectionPhase, WS!C!Next, WS!C!vars, WS!C!Connect,
     WS!C!Answer, WS!C!Message, WS!C!Close, WS!C!End, WS!C!Report, WS!C!Crash, WS!ConnectionPhase
<1> QED BY <1>3, <1>4, AlwaysClientInv, PTL DEF Spec, WS!ImplementsConnection, WS!C!Spec
=============================================================================
