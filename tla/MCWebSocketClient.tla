------------------------- MODULE MCWebSocketClient -------------------------
(***************************************************************************)
(* Two connections, two messages and two closes: a second attempt after a  *)
(* failed, lost or closed connection, a message sent before, while and     *)
(* after the connection is open, and a Close before the connection opens   *)
(* followed by one after it opened.                                        *)
(***************************************************************************)
EXTENDS WebSocketClient

Always == {TRUE}
Optional == {TRUE, FALSE}
=============================================================================
