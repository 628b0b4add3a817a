----------------------------- MODULE Connection -----------------------------
(***************************************************************************)
(* What class WebSocketClient promises of one connection, without streams  *)
(* and handlers (websocket-client.h, the comments of Connect and Close):   *)
(* onConnect, if it was given, is called once when the connection fails or *)
(* succeeds, onMessage only after that and while the connection is open,   *)
(* and onDisconnect once, when it has ended without the user's Close.      *)
(* WebSocketClient.tla is shown to implement it.                           *)
(***************************************************************************)
EXTENDS Naturals

VARIABLES
    wanted,     \* the user gave onConnect to the last Connect
    phase,      \* "idle", "connecting", "open", or "ended" and not yet told so
    answered,   \* onConnect was called since the last Connect
    heard,      \* flips with each call of onMessage
    reports,    \* calls of onDisconnect since the last Connect
    closed,     \* the user has called Close since the last Connect
    alive       \* FALSE once a callback that was not given was called

vars == <<wanted, phase, answered, heard, reports, closed, alive>>

Init ==
    /\ wanted = FALSE
    /\ phase = "idle"
    /\ answered = TRUE
    /\ heard = FALSE
    /\ reports = 0
    /\ closed = FALSE
    /\ alive = TRUE

(* An earlier connection has ended, and its end was told.                  *)
Connect ==
    /\ phase = "idle"
    /\ phase' = "connecting"
    /\ wanted' \in BOOLEAN
    /\ answered' = FALSE
    /\ reports' = 0
    /\ closed' = FALSE
    /\ UNCHANGED <<heard, alive>>

(* onConnect is called if it was given. If it was not, a failure may crash *)
(* the program.                                                            *)
Answer ==
    /\ phase = "connecting"
    /\ phase' \in {"open", "idle"}
    /\ answered' = wanted
    /\ alive' \in BOOLEAN
    /\ ~alive' => phase' = "idle" /\ ~wanted
    /\ UNCHANGED <<wanted, heard, reports, closed>>

(* onMessage, also between Close and the end; it may throw.                *)
Message ==
    /\ phase = "open"
    /\ heard' = ~heard
    /\ alive' \in BOOLEAN
    /\ UNCHANGED <<wanted, phase, answered, reports, closed>>

Close ==
    /\ closed' = TRUE
    /\ UNCHANGED <<wanted, phase, answered, heard, reports, alive>>

End ==
    /\ phase = "open"
    /\ phase' = "ended"
    /\ UNCHANGED <<wanted, answered, heard, reports, closed, alive>>

(* onDisconnect, the first and only time, unless the user has closed.      *)
Report ==
    /\ phase = "ended"
    /\ phase' = "idle"
    /\ reports' = IF closed THEN 0 ELSE 1
    /\ UNCHANGED <<wanted, answered, heard, closed, alive>>

(* A handler throws that calls none of these callbacks.                    *)
Crash ==
    /\ alive' = FALSE
    /\ UNCHANGED <<wanted, phase, answered, heard, reports, closed>>

Next == alive /\ (Connect \/ Answer \/ Message \/ Close \/ End \/ Report \/ Crash)

Spec == Init /\ [][Next]_vars
=============================================================================
