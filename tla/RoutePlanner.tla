---------------------------- MODULE RoutePlanner ----------------------------
(***************************************************************************)
(* TransportNetwork::GetFastestTravelRoute and GetQuietTravelRoute, which  *)
(* call GetOptimalTravelRoute, of RouteSearch.tla, once or twice. Both     *)
(* search for the fastest route first.                                     *)
(***************************************************************************)
EXTENDS RouteSearch

ASSUME PlanAssumption == \A q \in Queries : q.useDistance

(* The second search looks at the counts of every query.                   *)
PlanFits(w) == TimesFit(w) /\ \A q \in Queries : CountsFit(q, w)

VARIABLES
    call,       \* the search that runs, "fastest" or "quietest", or "returned"
    fastest,    \* fastestRoute, once it was found
    answer      \* the route returned

plan == <<call, fastest, answer>>

FoundRoute == [steps |-> steps, totalTravelTime |-> total]
NoRoute == [steps |-> <<>>, totalTravelTime |-> 0]

PlanInit ==
    /\ Init
    /\ call = "fastest"
    /\ fastest = NoRoute
    /\ answer = NoRoute

Search == Next /\ UNCHANGED plan

(* The call was GetFastestTravelRoute.                                     *)
ReturnFastest ==
    /\ phase = "done" /\ call = "fastest"
    /\ answer' = FoundRoute
    /\ call' = "returned"
    /\ UNCHANGED <<vars, fastest>>

(* The call is GetQuietTravelRoute: the same stations, with new maps.      *)
SearchQuietest ==
    /\ phase = "done" /\ call = "fastest"
    /\ fastest' = FoundRoute
    /\ call' = "quietest"
    /\ useDistance' = FALSE
    /\ metricFromA' = [n \in {Start} |-> 0]
    /\ distanceFromA' = [n \in {Start} |-> 0]
    /\ stationIdToParent' = [n \in {} |-> Start]
    /\ nodesToVisit' = {[graphStop |-> Start, metric |-> 0]}
    /\ phase' = "search"
    /\ currentStop' = Start
    /\ endStop' = Start
    /\ steps' = <<>>
    /\ total' = 0
    /\ UNCHANGED <<stationA, stationB, travelTime, count, answer>>

(* Faulty variant: up to twice the time is accepted.                       *)
QuickWithinTwice == total < 2 * fastest.totalTravelTime

(* Faulty variant: the quietest route must take no longer.                 *)
NoSlower == total <= fastest.totalTravelTime

(* fastest * 1.2 > quietest, in double. Where the two sides are equal, at  *)
(* multiples of 5, the product is rounded to the exact integer.            *)
QuickEnough == 5 * total < 6 * fastest.totalTravelTime

ReturnQuiet ==
    /\ phase = "done" /\ call = "quietest"
    /\ answer' = IF QuickEnough THEN FoundRoute ELSE fastest
    /\ call' = "returned"
    /\ UNCHANGED <<vars, fastest>>

PlanNext == Search \/ ReturnFastest \/ SearchQuietest \/ ReturnQuiet

planVars == <<vars, plan>>

(* The call runs on one thread without waiting for anything.               *)
PlanSpec == PlanInit /\ [][PlanNext]_planVars /\ WF_planVars(PlanNext)
-----------------------------------------------------------------------------
(* Properties.                                                             *)

(* Every variable has its type.                                            *)
PlanTypeOK ==
    /\ TypeOK
    /\ call \in {"fastest", "quietest", "returned"}
    /\ call = "fastest" => useDistance
    /\ fastest.totalTravelTime \in UnsignedInt
    /\ answer.totalTravelTime \in UnsignedInt

(* The least time from stationA to stationB, over every walk.              *)
TimesToB == {w[2] : w \in {v \in WalkTimes : v[1].stationId = stationB}}

(* Either call returns a route whenever there is one, and it takes at most *)
(* a fifth longer than any other: the fastest of all, not only the fastest *)
(* found, and the time is the one in the answer, changes of line included. *)
NeverMuchSlower ==
    call = "returned" /\ stationA # stationB =>
       \A time \in TimesToB : answer.steps # <<>> /\ 5 * answer.totalTravelTime <= 6 * time

(* The passengers at the stations of a route, twice where one changes.     *)
Crowd(route) ==
    LET at(i) == [stationId |-> route[i].to, routeId |-> route[i].routeId,
                  lineId |-> route[i].lineId]
        stop(i) == IF i = 0 THEN Start ELSE at(i)
        crowd[i \in 0..Len(route)] ==
           IF i = 0 THEN 0 ELSE crowd[i - 1] + Weight(stop(i - 1), at(i))
    IN  crowd[Len(route)]

(* GetQuietTravelRoute returns a route past the fewest passengers there    *)
(* can be, unless the one it found takes at least a fifth longer than the  *)
(* fastest; then it returns a fastest one.                                 *)
QuietIsQuietest ==
    call = "returned" /\ ~useDistance /\ stationA # stationB =>
       \/ \A w \in WalkCosts : w[1].stationId = stationB => Crowd(answer.steps) <= w[2]
       \/ /\ 5 * total >= 6 * answer.totalTravelTime
          /\ \A time \in TimesToB : answer.totalTravelTime <= time

(* The call returns when it is given a known station.                      *)
PlanReturns == stationA \in Known => <>(call = "returned")
=============================================================================
