--------------------------- MODULE MCRouteSearch ---------------------------
(***************************************************************************)
(* A network of four stations for TLC: the red line runs both ways between *)
(* a and c, blue goes the short way from a to c and on to d, green joins b *)
(* to d, and nothing stops at e, which the network does not know. Ways from *)
(* a to d differ in hops, in changes of line, and share edges.             *)
(***************************************************************************)
EXTENDS RoutePlanner

CONSTANTS a, b, c, d, e

MCKnown == {a, b, c, d}
MCStation == MCKnown \union {e}

On(s, route, line) == [stationId |-> s, routeId |-> route, lineId |-> line]

RedThere == { <<a, On(b, "there", "red")>>, <<b, On(c, "there", "red")>> }
RedBack  == { <<c, On(b, "back", "red")>>, <<b, On(a, "back", "red")>> }
Blue     == { <<a, On(c, "express", "blue")>>, <<c, On(d, "express", "blue")>> }
Green    == { <<b, On(d, "local", "green")>> }
Shared   == { <<c, On(d, "link", "green")>> }

MCArcs == RedThere \union RedBack \union Blue \union Green \union Shared
MCRouteStop == {arc[2] : arc \in MCArcs}

(* The travel times TransportNetwork gives out are symmetric where both    *)
(* edges exist; here the red edges back have the times of those there.     *)
Joined == {{arc[1], arc[2].stationId} : arc \in MCArcs}

TimesFrom(choices) ==
    { [p \in MCStation \X MCStation |-> IF {p[1], p[2]} \in Joined THEN t[{p[1], p[2]}] ELSE 0]
        : t \in [Joined -> choices] }

(* Less than, more than the penalty; no time, as in an edge never timed.   *)
MCTimes == { t \in TimesFrom({0, 1, 5}) :
               t[<<a, b>>] = 1 /\ t[<<b, d>>] # 0 /\ t[<<c, d>>] # 0 }

CountsFrom(choices) ==
    { [s \in MCStation |-> IF s = e THEN 0 ELSE n[s]] : n \in [MCKnown -> choices] }

Asked(times, counts) == [useDistance : {TRUE}, travelTime : times, count : counts]

(* One crowd and every time; every crowd, where the way from a over b to d *)
(* takes 5 and the one over c a fifth longer, or 9 and the other 10.       *)
CrowdAtB == [s \in MCStation |-> IF s = b THEN 2 ELSE IF s = e THEN 0 ELSE 1]
Close == { t \in MCTimes :
             /\ t[<<b, c>>] = 1
             /\ <<t[<<b, d>>], t[<<a, c>>], t[<<c, d>>]>> \in {<<1, 5, 1>>, <<5, 5, 5>>} }

MCQueries == Asked(MCTimes, {CrowdAtB}) \union Asked(Close, CountsFrom({0, 2}))

(* With these queries no sum wraps: no hop costs more than 8.              *)
ASSUME MCFits == Queries = MCQueries => PlanFits(8)

NegativeQueries == Asked(Close, CountsFrom({-1, 2}))
=============================================================================
