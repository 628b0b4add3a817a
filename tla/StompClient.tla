---------------------------- MODULE StompClient ----------------------------
(***************************************************************************)
(* Template class StompClient over WebSocketClient: every action is one of *)
(* the WebSocketClient with what the callbacks of this class do in it.     *)
(*                                                                         *)
(* The server is external: while the stream can be read, it may send any   *)
(* frame at any time; `conforms` tells whether all its frames were in the  *)
(* order of the STOMP protocol. A frame can be answered as soon as its     *)
(* async_write has begun.                                                  *)
(***************************************************************************)
EXTENDS Naturals

CONSTANTS
    MaxConnects,    \* bound: calls of Connect
    MaxSubscribes,  \* bound: calls of Subscribe that send a frame
    MaxCloses,      \* bound: calls of Close
    Tokens,         \* pairs of a subscription id and a receipt id that may be drawn
    NoToken         \* the empty ids of a new client

ASSUME TokensAssumption ==
    /\ MaxConnects \in Nat /\ MaxSubscribes \in Nat /\ MaxCloses \in Nat
    /\ NoToken \notin Tokens /\ "STOMP" \notin Tokens

VARIABLES
    \* of WebSocketClient
    step, stream, reading, writing, closing, closed_, onConnect_, status,
    connects, sends, closes, answered, heard, onSends, disconnects, lost,
    \* of StompClient
    connected_, subscribed_, disconnected_,
    token,          \* subscriptionId_ and receiptId_; onSubscribe_ and onMessage_ are set with them
    calling,        \* OnWsConnect is about to be called by the handler that ran last
    connectTold,    \* history: how onConnect_ was called since Connect: "no", "ok" or "error"
    onDisconnects,  \* history: calls of onDisconnect_
    \* of the server, for the present connection
    sent,           \* frames it may have got: "STOMP", and the tokens of SUBSCRIBE frames
    accepted,       \* it has sent CONNECTED
    acknowledged,   \* tokens it has sent a RECEIPT for
    conforms,       \* history: all its frames were in the order of the protocol
    badLength       \* history: it has sent a frame whose content-length is no number

WS == INSTANCE WebSocketClient WITH
        MaxSends <- MaxConnects + MaxSubscribes,
        ConnectHandlers <- {TRUE}, SendHandlers <- {TRUE}

flags == <<connected_, subscribed_, disconnected_>>
told == <<connectTold, onDisconnects>>
server == <<sent, accepted, acknowledged, conforms, badLength>>
client == <<flags, token, calling, told, server>>
vars == <<WS!vars, client>>

Init ==
    /\ WS!Init
    /\ connected_ = FALSE /\ subscribed_ = FALSE /\ disconnected_ = FALSE
    /\ token = NoToken
    /\ calling = FALSE
    /\ connectTold = "no" /\ onDisconnects = 0
    /\ sent = {} /\ accepted = FALSE /\ acknowledged = {}
    /\ conforms = TRUE /\ badLength = FALSE

Running == WS!Running
IsConnected == connected_ /\ ~disconnected_
IsSubscribed == subscribed_ /\ ~disconnected_
-----------------------------------------------------------------------------
(* Connection.                                                             *)

(* No flag is reset.                                                       *)
Connect ==
    /\ ~calling /\ WS!Connect
    /\ connectTold' = "no"
    /\ sent' = {} /\ accepted' = FALSE /\ acknowledged' = {}
    /\ UNCHANGED <<flags, token, calling, onDisconnects, conforms, badLength>>

OnWsFailed ==
    /\ ~calling
    /\ (\E at \in DOMAIN WS!NextStep : WS!Fail(at)) \/ WS!OnHandshakeError
    /\ connectTold' = "error"
    /\ UNCHANGED <<flags, token, calling, onDisconnects, server>>

OnHandshake ==
    /\ ~calling /\ WS!OnHandshake
    /\ calling' = TRUE
    /\ UNCHANGED <<flags, token, told, server>>

(* The last call of that handler: no other step comes between them.        *)
OnWsConnect ==
    /\ calling
    /\ WS!Send
    /\ calling' = FALSE
    /\ sent' = sent \union {"STOMP"}
    /\ UNCHANGED <<flags, token, told, accepted, acknowledged, conforms, badLength>>

Close ==
    /\ ~calling /\ WS!Close
    /\ UNCHANGED client

(* Faulty variant: the flag is left.                                       *)
FlagLeft == disconnected_' = disconnected_

FlagSet == disconnected_' = TRUE

(* Also when there was nothing to close.                                   *)
OnClose ==
    /\ ~calling /\ WS!OnClose
    /\ FlagSet
    /\ UNCHANGED <<connected_, subscribed_, token, calling, told, server>>

(* Faulty variant: disconnected_ is not looked at.                         *)
WasConnected == connected_

MayReport == IsConnected

(* The end of the read loop; WebSocketClient may or may not report it.     *)
OnDisconnect ==
    /\ ~calling /\ WS!OnReadAborted
    /\ LET reported == disconnects' > disconnects /\ MayReport IN
        /\ disconnected_' = (disconnected_ \/ reported)
        /\ onDisconnects' = IF reported THEN onDisconnects + 1 ELSE onDisconnects
    /\ UNCHANGED <<connected_, subscribed_, token, calling, connectTold, server>>

(* What happens below without a callback that does anything: onSend is     *)
(* called without an error only, and both handlers given for it do nothing *)
(* then.                                                                   *)
Below ==
    /\ ~calling
    /\ \/ \E at \in DOMAIN WS!NextStep : WS!Advance(at)
       \/ WS!OnReadError \/ WS!OnWrite \/ WS!OnWriteError
    /\ UNCHANGED client
-----------------------------------------------------------------------------
(* Subscription.                                                           *)

(* The frame of SUBSCRIBE t reaches the server if the stream is open.      *)
SendSubscribe(t) ==
    /\ WS!Send
    /\ sent' = IF stream = "open" THEN sent \union {t} ELSE sent
    /\ UNCHANGED <<flags, calling, told, accepted, acknowledged, conforms, badLength>>

(* The user subscribes when no connection attempt is running; the bound    *)
(* leaves room for the STOMP frames of the attempts to come.               *)
MaySubscribe == ~calling /\ step = "idle" /\ sends < connects + MaxSubscribes

SubscribeAs(t) == token' = t /\ SendSubscribe(t)

(* Once subscribed a call only returns the ids. They are drawn at random,  *)
(* and may be the last ones again.                                         *)
Subscribe ==
    /\ MaySubscribe /\ ~subscribed_
    /\ \E t \in Tokens : SubscribeAs(t)
-----------------------------------------------------------------------------
(* MessageHandler, for one frame of the server.                            *)

(* GARBLED is a frame that StompFrame stores an error for; BADLENGTH one   *)
(* of any command whose content-length is no number; OTHER has one of the  *)
(* commands of a client.                                                   *)
Frames ==
    [command : {"CONNECTED", "ERROR", "OTHER", "GARBLED", "BADLENGTH"}, token : {NoToken}]
        \union [command : {"RECEIPT", "MESSAGE"}, token : Tokens]

(* A frame the server may send at this point of the protocol. ERROR, and a *)
(* frame that StompFrame does not accept, may come at any time.            *)
InProtocol(frame) ==
    \/ frame.command \in {"ERROR", "GARBLED", "BADLENGTH"}
    \/ frame.command = "CONNECTED" /\ "STOMP" \in sent /\ ~accepted
    \/ frame.command \in {"RECEIPT", "MESSAGE"} /\ accepted /\ frame.token \in sent

(* The constructor of StompFrame throws what std::stoi throws for such a   *)
(* length; nothing catches it.                                             *)
ConstructorThrows(frame) == frame.command = "BADLENGTH"

(* Faulty variant: a receipt is not compared with receiptId_.              *)
SubscribedByAny(frame) == subscribed_ \/ frame.command = "RECEIPT"

SubscribedBy(frame) ==
    subscribed_ \/ (frame.command = "RECEIPT" /\ frame.token = token)

(* CONNECTED and the errors before it answer Connect; later errors go to   *)
(* onSubscribe_ or onMessage_, or to nobody.                               *)
ConnectToldBy(frame) ==
    CASE frame.command = "CONNECTED" -> "ok"
      [] frame.command \in {"ERROR", "GARBLED"} /\ ~connected_ -> "error"
      [] OTHER -> connectTold

(* Faulty variant: onMessage_ gets the errors that answer no call, too.    *)
CallsEmptyOnError(frame) ==
    /\ token = NoToken
    /\ \/ frame.command \in {"MESSAGE", "OTHER"}
       \/ frame.command \in {"ERROR", "GARBLED"} /\ connected_

(* onMessage_ is called without looking whether there is one.              *)
CallsEmpty(frame) ==
    token = NoToken /\ frame.command \in {"MESSAGE", "OTHER"}

(* throws: the function called with the frame, given by the user, throws.  *)
MessageHandler(frame, throws) ==
    /\ ~calling
    /\ IF ConstructorThrows(frame) \/ CallsEmpty(frame) \/ throws
       THEN WS!OnMessageThrows ELSE WS!OnMessage
    /\ connected_' = (connected_ \/ frame.command = "CONNECTED")
    /\ subscribed_' = SubscribedBy(frame)
    /\ connectTold' = ConnectToldBy(frame)
    /\ conforms' = (conforms /\ InProtocol(frame))
    /\ badLength' = (badLength \/ ConstructorThrows(frame))
    /\ accepted' = (accepted \/ frame.command = "CONNECTED")
    /\ acknowledged' = IF frame.command = "RECEIPT"
                       THEN acknowledged \union {frame.token} ELSE acknowledged
    /\ UNCHANGED <<disconnected_, token, calling, onDisconnects, sent>>
-----------------------------------------------------------------------------
Next ==
    /\ Running
    /\ \/ Connect \/ OnWsFailed \/ OnHandshake \/ OnWsConnect
       \/ Close \/ OnClose \/ OnDisconnect \/ Below
       \/ Subscribe
       \/ \E frame \in Frames : MessageHandler(frame, FALSE)

(* The part of the fairness of WebSocketClient that the properties need:   *)
(* an aborted read and a close end, and a handler runs to its end.         *)
Fairness ==
    /\ WF_vars(Running /\ OnWsConnect)
    /\ WF_vars(Running /\ OnDisconnect)
    /\ WF_vars(Running /\ OnClose)

Spec == Init /\ [][Next]_vars /\ Fairness
-----------------------------------------------------------------------------
(* Properties.                                                             *)

(* Every variable has its type; no frame has an empty id.                  *)
TypeOK ==
    /\ WS!TypeOK
    /\ {connected_, subscribed_, disconnected_, calling} \subseteq BOOLEAN
    /\ {accepted, conforms, badLength} \subseteq BOOLEAN
    /\ token \in Tokens \union {NoToken}
    /\ connectTold \in {"no", "ok", "error"}
    /\ onDisconnects \in Nat
    /\ sent \subseteq Tokens \union {"STOMP"}
    /\ acknowledged \subseteq Tokens

(* IsConnected, IsSubscribed and onConnect_ tell the user what the server  *)
(* has granted on the present connection, though no flag is ever reset:    *)
(* not of an earlier connection, nor of a subscription that was replaced.  *)
AgreesWithServer ==
    conforms =>
        /\ IsConnected \/ connectTold = "ok" => accepted
        /\ IsSubscribed => accepted /\ token \in acknowledged

(* onDisconnect_ is called at most once, for a connection the server had   *)
(* accepted and the user had not closed.                                   *)
ReportedOnce ==
    [][onDisconnects' # onDisconnects =>
            onDisconnects' = 1 /\ ~closed_ /\ (conforms => accepted)]_vars

(* Only two things the server does end the program: a frame out of the     *)
(* order of the protocol, and one whose content-length is no number. The   *)
(* function for messages is in place whenever a server in order sends one. *)
OnlyBadFramesCrash == status = "crashed" => ~conforms \/ badLength

(* However a connection ends, IsConnected gets to know of it.              *)
EndIsNoticed ==
    (IsConnected /\ stream # "open") ~> (~IsConnected \/ status = "crashed")
=============================================================================
