-------------------------- MODULE MCNetworkMonitor --------------------------
(***************************************************************************)
(* A layout of one station and messages about it and about another, up to  *)
(* one more entry than exits or the reverse; a second CONNECTED may make   *)
(* the monitor subscribe twice.                                            *)
(***************************************************************************)
EXTENDS NetworkMonitor

CONSTANTS a, b

MCLayout == {a}
MCStation == {a, b}
=============================================================================
