--------------------------- MODULE MCNetworkLoad ---------------------------
(***************************************************************************)
(* Documents of three stations for TLC. Each choice of stations, of lines  *)
(* and of times makes a document: some cannot be read, repeat a station or *)
(* a route, stop where there is no station, split a line over two items,   *)
(* give the times of a pair twice, or of a pair that is not adjacent.      *)
(***************************************************************************)
EXTENDS NetworkLoad

CONSTANTS s1, s2, s3

MCStation == {s1, s2, s3}

Route(id, line, stops) == [id |-> id, lineId |-> line, stops |-> stops]

There == Route("there", "red", <<s1, s2, s3>>)
Back  == Route("back", "red", <<s3, s2>>)
Short == Route("short", "red", <<s1, s2>>)
Loop  == Route("loop", "blue", <<s2, s3, s1>>)

Red      == [lineId |-> "red", routes |-> <<There, Back>>]
MoreRed  == [lineId |-> "red", routes |-> <<Short>>]
Blue     == [lineId |-> "blue", routes |-> <<Loop>>]
Repeated == [lineId |-> "blue", routes |-> <<Loop, Loop>>]
NoRoute  == [lineId |-> "green", routes |-> <<>>]

Time(a, b, t) == [from |-> a, to |-> b, travelTime |-> t]

StationItems == { <<s1, s2, s3>>, <<s2, s1>>, <<s1, s2, s1>>, <<s1, Malformed, s2>> }
LineItems    == { <<Red, Blue>>, <<Red, Blue, MoreRed>>, <<Repeated, Red>>,
                  <<Red, Malformed>>, <<NoRoute, MoreRed>> }
TimeItems    == { <<>>, <<Time(s2, s3, 1), Time(s3, s2, 2)>>, <<Time(s1, s3, 1)>>,
                  <<Time(s2, s1, 1), Malformed>> }

MCDocuments == [stations : StationItems, lines : LineItems, times : TimeItems]

MCLines == { <<There, Back>>, <<There, Back, Short>>, <<Short>>, <<Loop>>, <<Loop, Loop>> }
MCTimes == {1, 2}
=============================================================================
