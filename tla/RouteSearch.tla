---------------------------- MODULE RouteSearch ----------------------------
(***************************************************************************)
(* TransportNetwork::GetOptimalTravelRoute: the search for the fastest or  *)
(* the quietest way from stationA to stationB over the graph that          *)
(* TransportNetwork.tla keeps. One step visits the top of the queue, picks *)
(* the best stop at the destination, or goes back one stop from there.     *)
(*                                                                         *)
(* The nodes of the search are stops: a station and the route and line one *)
(* arrives by. The metric is an unsigned int, whose modulus 2^32 is the    *)
(* constant Modulus. The queue never holds a stop twice with one metric    *)
(* (it is pushed with strictly smaller ones), so a set stands for it; which *)
(* of several tops is visited first, and which of several best stops comes *)
(* first in the sorted vector, is left open.                               *)
(***************************************************************************)
EXTENDS Integers, Sequences, FiniteSets

CONSTANTS
    Station,     \* the station ids callers may use
    Known,       \* the stations of the network
    RouteStop,   \* [stationId, routeId, lineId], a station and a route that stops there
    Arcs,        \* <<s, n>>: the edge from s to n.stationId has n's route and line
    None,        \* no route, no line
    Penalty,     \* penalty_: the cost in time of changing lines
    Modulus,     \* one more than the largest unsigned int
    Queries      \* [useDistance, travelTime, count]: what is asked for, in which network

ASSUME GraphAssumption ==
    /\ Known \subseteq Station
    /\ \A n \in RouteStop : /\ n = [stationId |-> n.stationId, routeId |-> n.routeId,
                                    lineId |-> n.lineId]
                            /\ n.stationId \in Known
                            /\ n.routeId # None
                            /\ n.lineId # None
    /\ Arcs \subseteq Known \X RouteStop
    /\ \A arc \in Arcs : arc[1] # arc[2].stationId

ASSUME NumberAssumption ==
    /\ Penalty \in Nat
    /\ Modulus \in Nat \ {0}
    /\ Queries \subseteq [useDistance : BOOLEAN,
                           travelTime : [Station \X Station -> 0..Modulus - 1],
                           count : [Station -> Int]]

(* Numbers for which no sum of hops wraps, and none is negative: no hop    *)
(* takes longer than w, a change of line included, and w times the stops   *)
(* stays below the modulus.                                                *)
TimesFit(w) ==
    /\ w \in Nat
    /\ IsFiniteSet(RouteStop)
    /\ w * (Cardinality(RouteStop) + 2) < Modulus
    /\ \A q \in Queries, arc \in Arcs :
          q.travelTime[<<arc[1], arc[2].stationId>>] + Penalty <= w

(* Nor does a hop pass more than w passengers, counted twice at a change.  *)
CountsFit(q, w) ==
    \A arc \in Arcs : /\ q.count[arc[2].stationId] \in Nat
                      /\ 2 * q.count[arc[2].stationId] <= w

(* Only the search for the quietest route looks at the counts.             *)
NumbersFit(w) == TimesFit(w) /\ \A q \in Queries : ~q.useDistance => CountsFit(q, w)

VARIABLES
    stationA, stationB, useDistance,    \* the arguments of the call
    travelTime, count,                  \* what the graph holds during the call
    metricFromA, distanceFromA, stationIdToParent,  \* the maps, functions on the stops seen
    nodesToVisit,   \* the queue, a set of [graphStop, metric]
    phase,          \* "search", "walk", "done", or "crashed"
    currentStop,    \* the stop the way back has reached
    endStop,        \* the stop it started from, pathsToB[0]
    steps,          \* route.steps, in the order of travel
    total           \* route.totalTravelTime

arguments == <<stationA, stationB, useDistance, travelTime, count>>
maps == <<metricFromA, distanceFromA, stationIdToParent, nodesToVisit>>
wayBack == <<currentStop, endStop, steps, total>>
vars == <<arguments, maps, phase, wayBack>>

Start == [stationId |-> stationA, routeId |-> None, lineId |-> None]
-----------------------------------------------------------------------------
(* The edges of the search.                                                *)

Successors(stop) == {n \in RouteStop : <<stop.stationId, n>> \in Arcs}

Changes(stop, n) ==
    /\ stop.routeId # None
    /\ stop.routeId # n.routeId
    /\ stop.lineId # n.lineId

HopTime(stop, n) ==
    travelTime[<<stop.stationId, n.stationId>>] + IF Changes(stop, n) THEN Penalty ELSE 0

Weight(stop, n) ==
    IF useDistance THEN HopTime(stop, n)
    ELSE count[n.stationId] + IF Changes(stop, n) THEN count[n.stationId] ELSE 0

(* Arithmetic on unsigned int; a negative sum wraps to a large number.     *)
NeighborMetric(stop, metric, n) == (metric + Weight(stop, n)) % Modulus

(* Faulty variant: the penalty is added to the metric only.                *)
DistanceWithoutPenalty(stop, n) ==
    (distanceFromA[stop] + travelTime[<<stop.stationId, n.stationId>>]) % Modulus

NeighborDistance(stop, n) == (distanceFromA[stop] + HopTime(stop, n)) % Modulus

(* Faulty variant: a stop once seen is never improved.                     *)
FirstSeen(stop, metric) == {n \in Successors(stop) : n \notin DOMAIN metricFromA}

(* Faulty variant: an equal metric counts as an improvement.               *)
NotWorse(stop, metric) ==
    {n \in Successors(stop) :
       n \notin DOMAIN metricFromA \/ NeighborMetric(stop, metric, n) <= metricFromA[n]}

Improved(stop, metric) ==
    {n \in Successors(stop) :
       n \notin DOMAIN metricFromA \/ NeighborMetric(stop, metric, n) < metricFromA[n]}

(* Faulty variant: every neighbour gets the parent, improved or not.       *)
ParentsOfAll(stop, better) ==
    [n \in DOMAIN stationIdToParent \union Successors(stop) |->
       IF n \in Successors(stop) THEN stop ELSE stationIdToParent[n]]

(* Faulty variant: a stop seen for the first time gets no parent.          *)
ParentsReplaced(stop, better) ==
    [n \in DOMAIN stationIdToParent |-> IF n \in better THEN stop ELSE stationIdToParent[n]]

ParentsAfter(stop, better) ==
    [n \in DOMAIN stationIdToParent \union better |->
       IF n \in better THEN stop ELSE stationIdToParent[n]]

Tops == {e \in nodesToVisit : \A f \in nodesToVisit : e.metric <= f.metric}

SeenAt(station) == {n \in DOMAIN metricFromA : n.stationId = station}

(* Faulty variant: the stops at the destination are not sorted.            *)
Unsorted(stops) == stops

Best(stops) == {n \in stops : \A m \in stops : metricFromA[n] <= metricFromA[m]}
-----------------------------------------------------------------------------
Init ==
    /\ stationA \in Station
    /\ stationB \in Station
    /\ \E q \in Queries : /\ useDistance = q.useDistance
                         /\ travelTime = q.travelTime
                         /\ count = q.count
    /\ metricFromA = [n \in {Start} |-> 0]
    /\ distanceFromA = [n \in {Start} |-> 0]
    /\ stationIdToParent = [n \in {} |-> Start]
    /\ nodesToVisit = {[graphStop |-> Start, metric |-> 0]}
    /\ phase = "search"
    /\ currentStop = Start
    /\ endStop = Start
    /\ steps = <<>>
    /\ total = 0

(* One step from a station to itself, known or not.                        *)
SameStation ==
    /\ phase = "search"
    /\ stationA = stationB
    /\ phase' = "done"
    /\ steps' = <<[from |-> stationA, to |-> stationA, lineId |-> None, routeId |-> None,
                   travelTime |-> 0]>>
    /\ UNCHANGED <<arguments, maps, currentStop, endStop, total>>

(* The distance to a stop is the distance now to the one visited, its      *)
(* metric the metric of the entry taken from the queue.                    *)
Visit(e) ==
    /\ phase = "search"
    /\ stationA # stationB
    /\ e \in Tops
    /\ e.graphStop.stationId \in Known
    /\ LET stop   == e.graphStop
           better == Improved(stop, e.metric)
           seen   == DOMAIN metricFromA \union better
       IN  /\ metricFromA' = [n \in seen |-> IF n \in better
                                THEN NeighborMetric(stop, e.metric, n) ELSE metricFromA[n]]
           /\ distanceFromA' = [n \in seen |-> IF n \in better
                                THEN NeighborDistance(stop, n) ELSE distanceFromA[n]]
           /\ stationIdToParent' = ParentsAfter(stop, better)
           /\ nodesToVisit' = (nodesToVisit \ {e}) \union
                {[graphStop |-> n, metric |-> NeighborMetric(stop, e.metric, n)] : n \in better}
    /\ UNCHANGED <<arguments, phase, wayBack>>

(* The node of an unknown station is a null pointer.                       *)
VisitUnknown(e) ==
    /\ phase = "search"
    /\ stationA # stationB
    /\ e \in Tops
    /\ e.graphStop.stationId \notin Known
    /\ phase' = "crashed"
    /\ UNCHANGED <<arguments, maps, wayBack>>

(* pathsToB, sorted: the way back starts from a best stop at stationB.     *)
PickEnd ==
    /\ phase = "search"
    /\ stationA # stationB
    /\ nodesToVisit = {}
    /\ \E n \in Best(SeenAt(stationB)) :
          /\ currentStop' = n
          /\ endStop' = n
    /\ phase' = "walk"
    /\ UNCHANGED <<arguments, maps, steps, total>>

(* stationB was not reached: a route without steps.                        *)
NoPath ==
    /\ phase = "search"
    /\ stationA # stationB
    /\ nodesToVisit = {}
    /\ SeenAt(stationB) = {}
    /\ phase' = "done"
    /\ UNCHANGED <<arguments, maps, wayBack>>

(* Bound: the way back is not followed further than this many steps.       *)
MaxSteps == Cardinality(RouteStop) + 1

(* Faulty variant: a step has the route one arrives by before it.          *)
StepFrom(stop) ==
    LET parent == stationIdToParent[stop] IN
    [from |-> parent.stationId, to |-> stop.stationId,
     lineId |-> parent.lineId, routeId |-> parent.routeId,
     travelTime |-> (distanceFromA[stop] - distanceFromA[parent]) % Modulus]

StepTo(stop) ==
    LET parent == stationIdToParent[stop] IN
    [from |-> parent.stationId, to |-> stop.stationId,
     lineId |-> stop.lineId, routeId |-> stop.routeId,
     travelTime |-> (distanceFromA[stop] - distanceFromA[parent]) % Modulus]

WalkBack ==
    /\ phase = "walk"
    /\ currentStop.stationId # stationA
    /\ Len(steps) < MaxSteps
    /\ steps' = <<StepTo(currentStop)>> \o steps
    /\ currentStop' = stationIdToParent[currentStop]
    /\ UNCHANGED <<arguments, maps, phase, endStop, total>>

Arrive ==
    /\ phase = "walk"
    /\ currentStop.stationId = stationA
    /\ phase' = "done"
    /\ total' = distanceFromA[endStop]
    /\ UNCHANGED <<arguments, maps, currentStop, endStop, steps>>

Next ==
    \/ SameStation
    \/ \E e \in nodesToVisit : Visit(e) \/ VisitUnknown(e)
    \/ PickEnd
    \/ NoPath
    \/ WalkBack
    \/ Arrive

(* The call runs on one thread without waiting for anything.               *)
Spec == Init /\ [][Next]_vars /\ WF_vars(Next)
-----------------------------------------------------------------------------
(* Properties.                                                             *)

UnsignedInt == 0..Modulus - 1

(* Every variable has its type; every stop seen but the first has a parent *)
(* that was seen.                                                          *)
TypeOK ==
    /\ stationA \in Station /\ stationB \in Station
    /\ useDistance \in BOOLEAN
    /\ travelTime \in [Station \X Station -> UnsignedInt] /\ count \in [Station -> Int]
    /\ DOMAIN metricFromA \subseteq {Start} \union RouteStop
    /\ Start \in DOMAIN metricFromA
    /\ metricFromA \in [DOMAIN metricFromA -> UnsignedInt]
    /\ distanceFromA \in [DOMAIN metricFromA -> UnsignedInt]
    /\ stationIdToParent \in [DOMAIN metricFromA \ {Start} -> DOMAIN metricFromA]
    /\ nodesToVisit \subseteq [graphStop : DOMAIN metricFromA, metric : UnsignedInt]
    /\ phase \in {"search", "walk", "done", "crashed"}
    /\ currentStop \in DOMAIN metricFromA
    /\ endStop \in DOMAIN metricFromA

Searched == phase \in {"walk", "done"} /\ stationA # stationB

(* Whatever the numbers, also negative counts and sums that wrap: when the *)
(* queue is empty no edge could still lower the metric of a stop.          *)
NothingLeftToRelax ==
    Searched => \A stop \in DOMAIN metricFromA : \A n \in Successors(stop) :
       /\ n \in DOMAIN metricFromA
       /\ metricFromA[n] <= NeighborMetric(stop, metricFromA[stop], n)

(* When the search is over, the metric and the distance of a stop are      *)
(* those of its parent plus the hop between them, although parents were    *)
(* improved, and stale entries visited, after the stop was reached.        *)
ParentsAgree ==
    Searched => \A n \in DOMAIN stationIdToParent :
       LET parent == stationIdToParent[n] IN
       /\ metricFromA[n] = metricFromA[parent] + Weight(parent, n)
       /\ distanceFromA[n] = distanceFromA[parent] + HopTime(parent, n)

(* Reference: what it costs to reach each stop, over every walk of at most *)
(* as many hops as there are stops, when the hops have these costs.        *)
WalksWith(cost) ==
    LET walks[k \in 0..Cardinality(RouteStop)] ==
          IF k = 0 THEN {<<Start, 0>>}
          ELSE LET shorter == walks[k - 1] IN
               shorter \union UNION { {<<n, w[2] + cost[<<w[1], n>>]>> : n \in Successors(w[1])}
                                       : w \in shorter }
    IN  walks[Cardinality(RouteStop)]

Hops == ({Start} \union RouteStop) \X RouteStop
WalkCosts == WalksWith([hop \in Hops |-> Weight(hop[1], hop[2])])
WalkTimes == WalksWith([hop \in Hops |-> HopTime(hop[1], hop[2])])

SumOfSteps ==
    LET sum[i \in 0..Len(steps)] == IF i = 0 THEN 0 ELSE sum[i - 1] + steps[i].travelTime
    IN  sum[Len(steps)]

(* The route returned leads from stationA to stationB, each step over an   *)
(* edge that has the step's route, and its total travel time is the sum of *)
(* the times of its steps.                                                 *)
RouteIsConnected ==
    phase = "done" /\ stationA # stationB /\ steps # <<>> =>
       /\ steps[1].from = stationA
       /\ steps[Len(steps)].to = stationB
       /\ \A i \in 2..Len(steps) : steps[i].from = steps[i - 1].to
       /\ \A step \in {steps[i] : i \in DOMAIN steps} :
             <<step.from, [stationId |-> step.to, routeId |-> step.routeId,
                           lineId |-> step.lineId]>> \in Arcs
       /\ total = SumOfSteps

(* The fastest route takes the least time to stationB; there is a route    *)
(* whenever stationB can be reached.                                       *)
FastestIsLeast ==
    phase = "done" /\ useDistance /\ stationA # stationB =>
       \A w \in WalkCosts : w[1].stationId = stationB => steps # <<>> /\ total <= w[2]

(* The way back visits no stop twice: it reaches stationA.                 *)
WayBackIsAcyclic == stationA # stationB => Len(steps) <= Cardinality(RouteStop)
=============================================================================
