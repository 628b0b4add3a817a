--------------------------- MODULE MCStompClient ---------------------------
(***************************************************************************)
(* Two connections, two subscriptions and one close: a subscription that   *)
(* replaces one not yet acknowledged, a receipt that is late, a second     *)
(* connection after the first was lost or closed with its flags still set. *)
(***************************************************************************)
EXTENDS StompClient
=============================================================================
