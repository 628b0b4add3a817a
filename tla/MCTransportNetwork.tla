------------------------- MODULE MCTransportNetwork -------------------------
(***************************************************************************)
(* A small network for TLC. The red line runs both ways between s1 and s3. *)
(* The blue line shares edges with it; the first stop of its second route  *)
(* may be unknown, and AddLine then fails half way, between two routes it  *)
(* could add. Both lines meet an unknown last stop too, and crash.         *)
(***************************************************************************)
EXTENDS TransportNetwork

CONSTANTS s1, s2, s3

MCStation == {s1, s2, s3}

There  == [id |-> "there", lineId |-> "red", stops |-> <<s1, s2, s3>>]
Back   == [id |-> "back", lineId |-> "red", stops |-> <<s3, s2, s1>>]
Branch == [id |-> "branch", lineId |-> "blue", stops |-> <<s1, s2>>]
Feeder == [id |-> "feeder", lineId |-> "blue", stops |-> <<s3, s1>>]

Spur   == [id |-> "spur", lineId |-> "blue", stops |-> <<s2, s1>>]

MCLines == {<<There, Back>>, <<Branch, Feeder, Spur>>}
MCTimes == {1, 2}
=============================================================================
