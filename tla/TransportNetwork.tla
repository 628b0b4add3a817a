-------------------------- MODULE TransportNetwork --------------------------
(***************************************************************************)
(* Class TransportNetwork: the graph of stations that the monitor keeps,   *)
(* with one directed edge per pair of stations some route joins, the       *)
(* routes and the travel time on each edge, and the passenger count of     *)
(* each station. One action per public method that changes the graph, one  *)
(* operator per query. Path search is in RouteSearch.tla.                  *)
(***************************************************************************)
EXTENDS Integers, Sequences, FiniteSets

CONSTANTS
    Station,        \* the station ids callers may use
    Lines,          \* the lines callers may add, each a sequence of routes
    Times,          \* the travel times callers may set
    MaxPassengers   \* bound: |passengers_| of a station

(* Route.stops is a sequence of stops that each appear only once; the ids  *)
(* in a route are not constrained.                                         *)
ASSUME LinesAssumption ==
    \A line \in Lines :
       /\ DOMAIN line = 1..Len(line)
       /\ \A r \in DOMAIN line :
             LET stops == line[r].stops IN
             /\ stops \in Seq(Station)
             /\ \A i, j \in DOMAIN stops : stops[i] = stops[j] => i = j

ASSUME TimesAssumption == Times \subseteq Nat /\ MaxPassengers \in Nat

VARIABLES
    passengers, \* passengers_ of every node; its domain is the keys of stationIdToNode_
    edges,      \* <<from, to>> :> [routes, travelTime], the nodes' toStationIdToEdge_
    incoming,   \* the <<from, to>> with an entry in to's fromStationIdToEdge_
    status,     \* "running", or "crashed" after a null node was dereferenced
    call,       \* history: the last call, with its arguments
    result,     \* what it returned
    accepted    \* history: the lines AddLine returned true for

vars == <<passengers, edges, incoming, status, call, result, accepted>>

stationIdToNode == DOMAIN passengers

Label(route) == <<route.lineId, route.id>>
Labels == UNION { {Label(line[r]) : r \in DOMAIN line} : line \in Lines }
Edge == [routes : SUBSET Labels, travelTime : Nat]
-----------------------------------------------------------------------------
(* Queries.                                                                *)

(* Faulty variant: the line alone is compared.                             *)
HasRouteOfLine(e, line, route) ==
    e \in DOMAIN edges /\ \E label \in edges[e].routes : label[1] = line

HasRoute(e, line, route) == e \in DOMAIN edges /\ <<line, route>> \in edges[e].routes

GetTravelTimeDirectional(a, b) ==
    IF a # b /\ <<a, b>> \in DOMAIN edges THEN edges[<<a, b>>].travelTime ELSE 0

GetTravelTime(a, b) ==
    LET there == GetTravelTimeDirectional(a, b)
        back  == GetTravelTimeDirectional(b, a)
    IN  IF there > back THEN there ELSE back

GetRoutesServingStation(s) ==
    { label[2] : label \in UNION { edges[e].routes : e \in
        {f \in DOMAIN edges : f[1] = s} \union {f \in incoming : f[2] = s} } }

NotFound == -1  \* the walk along a route met a station with no next edge
Endless  == -2  \* the walk never ends: more hops than there are stations

(* The stations an edge with the route leads to from s.                    *)
Ahead(line, route, s) == {t \in Station : HasRoute(<<s, t>>, line, route)}

(* GetTravelTime along a route: from a station follow, at each one, an     *)
(* edge that has the route, up to b. Of several such edges the hash map's  *)
(* order picks one.                                                        *)
RouteWalk(line, route, b) ==
    LET walk[left \in 0..Cardinality(Station) + 1] ==
          [s \in Station |->
             IF s = b THEN 0
             ELSE IF left = 0 THEN Endless
             ELSE IF Ahead(line, route, s) = {} THEN NotFound
             ELSE LET t    == CHOOSE t \in Ahead(line, route, s) : TRUE
                      rest == walk[left - 1][t]
                  IN  IF rest < 0 THEN rest ELSE edges[<<s, t>>].travelTime + rest]
    IN  walk

GetRouteTravelTime(line, route, a, b) ==
    LET time == RouteWalk(line, route, b)[Cardinality(Station) + 1][a]
    IN  IF time = NotFound THEN 0 ELSE time
-----------------------------------------------------------------------------
(* AddLine visits the hops of a line route by route, stop by stop. A hop   *)
(* is the index of its route and the index of the stop it leads to.        *)

Hops(line) == UNION { {r} \X (2..Len(line[r].stops)) : r \in DOMAIN line }
Before(g, h) == g[1] < h[1] \/ (g[1] = h[1] /\ g[2] < h[2])

Ends(line, h) == <<line[h[1]].stops[h[2] - 1], line[h[1]].stops[h[2]]>>

(* Faulty variant: the line and the route are swapped.                     *)
SwappedLabel(line, h) == <<line[h[1]].id, line[h[1]].lineId>>

HopLabel(line, h) == Label(line[h[1]])

(* Faulty variant: an edge that some route has is refused to every other.  *)
RejectsSharedEdges(line, h) ==
    \/ Ends(line, h)[1] \notin stationIdToNode
    \/ Ends(line, h) \in DOMAIN edges
    \/ \E g \in Hops(line) : Before(g, h) /\ Ends(line, g) = Ends(line, h)

(* The previous stop is unknown, or the edge already has the route: the    *)
(* method returns false without looking at the later hops.                 *)
Rejects(line, h) ==
    \/ Ends(line, h)[1] \notin stationIdToNode
    \/ HasRoute(Ends(line, h), line[h[1]].lineId, line[h[1]].id)
    \/ \E g \in Hops(line) : /\ Before(g, h)
                             /\ Ends(line, g) = Ends(line, h)
                             /\ HopLabel(line, g) = HopLabel(line, h)

(* Faulty variant: an unknown stop goes unnoticed.                         *)
CrashesNever(line, h) == FALSE

(* The stop the hop leads to is unknown: the check that follows its lookup *)
(* tests the previous stop's node again, and the null node is used.        *)
Crashes(line, h) == ~Rejects(line, h) /\ Ends(line, h)[2] \notin stationIdToNode

(* Faulty variant: a failing hop is skipped, the later ones are visited.   *)
AllThatSucceed(line, h) == {g \in Hops(line) : ~Rejects(line, g) /\ ~Crashes(line, g)}

HopsBefore(line, h) == {g \in Hops(line) : Before(g, h)}

AllSucceed(line, hops) == \A g \in hops : ~Rejects(line, g) /\ ~Crashes(line, g)

(* GetOrMakeEdge: a new edge has no route and, value-initialised, time 0.  *)
EdgeAt(e) == IF e \in DOMAIN edges THEN edges[e] ELSE [routes |-> {}, travelTime |-> 0]

WithHops(line, hops) ==
    [e \in DOMAIN edges \union {Ends(line, h) : h \in hops} |->
       [EdgeAt(e) EXCEPT !.routes =
          @ \union {HopLabel(line, h) : h \in {g \in hops : Ends(line, g) = e}}]]

(* Faulty variant: the edges are made, their far ends are not told.        *)
NotIncoming(line, hops) == {}

Incoming(line, hops) == {Ends(line, h) : h \in hops}
-----------------------------------------------------------------------------
Init ==
    /\ passengers = [s \in {} |-> 0]
    /\ edges = [e \in {} |-> [routes |-> {}, travelTime |-> 0]]
    /\ incoming = {}
    /\ status = "running"
    /\ call = <<"none">>
    /\ result = TRUE
    /\ accepted = {}

AddStation(s) ==
    /\ status = "running"
    /\ call' = <<"AddStation", s>>
    /\ result' = (s \notin stationIdToNode)
    /\ passengers' = [x \in stationIdToNode \union {s} |->
                        IF x \in stationIdToNode THEN passengers[x] ELSE 0]
    /\ UNCHANGED <<edges, incoming, status, accepted>>

(* AddLine returns true, returns false at a hop after completing those     *)
(* before it, or crashes at a hop.                                         *)
AddLine(line) ==
    /\ status = "running"
    /\ call' = <<"AddLine", line>>
    /\ AllSucceed(line, Hops(line))
    /\ edges' = WithHops(line, Hops(line))
    /\ incoming' = incoming \union Incoming(line, Hops(line))
    /\ result' = TRUE
    /\ accepted' = accepted \union {line}
    /\ UNCHANGED <<passengers, status>>

AddLineRejected(line, h) ==
    /\ status = "running"
    /\ call' = <<"AddLine", line>>
    /\ Rejects(line, h)
    /\ AllSucceed(line, HopsBefore(line, h))
    /\ edges' = WithHops(line, HopsBefore(line, h))
    /\ incoming' = incoming \union Incoming(line, HopsBefore(line, h))
    /\ result' = FALSE
    /\ UNCHANGED <<passengers, status, accepted>>

(* The edge of the hop is made and has the route, its far end is not told. *)
AddLineCrash(line, h) ==
    /\ status = "running"
    /\ call' = <<"AddLine", line>>
    /\ Crashes(line, h)
    /\ AllSucceed(line, HopsBefore(line, h))
    /\ edges' = WithHops(line, HopsBefore(line, h) \union {h})
    /\ incoming' = incoming \union Incoming(line, HopsBefore(line, h))
    /\ status' = "crashed"
    /\ UNCHANGED <<passengers, result, accepted>>

(* by is 1 for an In event and -1 for an Out event. passengers_ is an int: *)
(* its overflow is out of the bound MaxPassengers.                         *)
Recorded(s, by) ==
    [x \in stationIdToNode |-> IF x = s THEN passengers[x] + by ELSE passengers[x]]

RecordPassengerEvent(s, by) ==
    /\ status = "running"
    /\ call' = <<"RecordPassengerEvent", s, by>>
    /\ result' = (s \in stationIdToNode)
    /\ passengers' = Recorded(s, by)
    /\ s \in stationIdToNode => passengers[s] + by \in -MaxPassengers..MaxPassengers
    /\ UNCHANGED <<edges, incoming, status, accepted>>

(* Faulty variant: the edge back keeps its time.                           *)
OneDirection(a, b) == {<<a, b>>} \intersect DOMAIN edges

(* The edges SetTravelTimeDirectional finds, there and back.               *)
EdgesBetween(a, b) == {<<a, b>>, <<b, a>>} \intersect DOMAIN edges

SetTravelTime(a, b, t) ==
    /\ status = "running"
    /\ call' = <<"SetTravelTime", a, b, t>>
    /\ result' = (EdgesBetween(a, b) # {})
    /\ edges' = [e \in DOMAIN edges |->
                   IF e \in EdgesBetween(a, b) THEN [edges[e] EXCEPT !.travelTime = t]
                                               ELSE edges[e]]
    /\ UNCHANGED <<passengers, incoming, status, accepted>>

Next ==
    \/ \E s \in Station : AddStation(s)
    \/ \E line \in Lines : AddLine(line)
    \/ \E line \in Lines : \E h \in Hops(line) : AddLineRejected(line, h) \/ AddLineCrash(line, h)
    \/ \E s \in Station, by \in {1, -1} : RecordPassengerEvent(s, by)
    \/ \E a, b \in Station, t \in Times : SetTravelTime(a, b, t)

Spec == Init /\ [][Next]_vars
-----------------------------------------------------------------------------
(* Properties.                                                             *)

(* Every variable has its type.                                            *)
TypeOK ==
    /\ stationIdToNode \subseteq Station
    /\ passengers \in [stationIdToNode -> -MaxPassengers..MaxPassengers]
    /\ DOMAIN edges \subseteq Station \X Station
    /\ edges \in [DOMAIN edges -> Edge]
    /\ incoming \subseteq Station \X Station
    /\ status \in {"running", "crashed"}
    /\ result \in BOOLEAN
    /\ accepted \subseteq Lines

(* While the process runs, an edge joins two different stations of the     *)
(* network, so that the search that follows edges never meets a null node, *)
(* and each station knows exactly the edges that lead to it (AddLine,      *)
(* AddIncomingEdge).                                                       *)
GraphIsConsistent ==
    status = "running" =>
       /\ \A e \in DOMAIN edges : e[1] # e[2] /\ {e[1], e[2]} \subseteq stationIdToNode
       /\ incoming = DOMAIN edges

(* Two edges that join the same stations have the same travel time, unless *)
(* one was added after the time was set and still has none: this is why    *)
(* GetTravelTime may answer with the larger of the two.                    *)
DirectionsAgree ==
    \A a, b \in Station : {<<a, b>>, <<b, a>>} \subseteq DOMAIN edges =>
       LET there == edges[<<a, b>>].travelTime
           back  == edges[<<b, a>>].travelTime
       IN  there = back \/ there = 0 \/ back = 0

(* What AddLine leaves behind, accepted or not, is a leading part of the   *)
(* line in the order of its hops, also when it crashes.                    *)
LinesArePrefixes ==
    \A line \in Lines : \A g, h \in Hops(line) :
       /\ Before(g, h)
       /\ HasRoute(Ends(line, h), line[h[1]].lineId, line[h[1]].id)
       => HasRoute(Ends(line, g), line[g[1]].lineId, line[g[1]].id)

(* Every stop of an accepted line is served by the route that stops there, *)
(* the last stop too, and a station is served by no route that does not    *)
(* stop there (GetRoutesServingStation, while the process runs).           *)
ServingIsExact ==
    status = "running" =>
       /\ \A line \in accepted : \A h \in Hops(line) : \A s \in {Ends(line, h)[1], Ends(line, h)[2]} :
             line[h[1]].id \in GetRoutesServingStation(s)
       /\ \A s \in Station : \A id \in GetRoutesServingStation(s) :
             \E line \in Lines : \E h \in Hops(line) :
                line[h[1]].id = id /\ s \in {Ends(line, h)[1], Ends(line, h)[2]}

TimeAlong(stops, i, j) ==
    LET upTo[k \in i..j] == IF k = i THEN 0
                            ELSE upTo[k - 1] + edges[<<stops[k - 1], stops[k]>>].travelTime
    IN  upTo[j]

(* On an accepted route the travel time from stop i to stop j is the sum   *)
(* of the times of the hops between them, and 0 backwards; the walk always *)
(* ends (GetTravelTime with a line and a route).                           *)
RouteTimeIsCumulative ==
    \A line \in accepted : \A r \in DOMAIN line :
       LET stops == line[r].stops IN
       \A i, j \in DOMAIN stops :
          GetRouteTravelTime(line[r].lineId, line[r].id, stops[i], stops[j])
            = IF i <= j THEN TimeAlong(stops, i, j) ELSE 0

(* A line is in the network as a whole exactly when AddLine has returned   *)
(* true for it: however often one that failed half way is added again, its *)
(* stops known by then, what it left behind is never completed.            *)
WholeWhenAccepted ==
    status = "running" =>
       \A line \in Lines : Hops(line) # {} =>
          (line \in accepted <=> \A h \in Hops(line) :
              HasRoute(Ends(line, h), line[h[1]].lineId, line[h[1]].id))

(* The graph implements the interface: one travel time for each pair of    *)
(* adjacent stations whatever the two edges hold, counts, routes served,   *)
(* and the values returned.                                                *)
API == INSTANCE NetworkAPI WITH
    count    <- passengers,
    adjacent <- DOMAIN edges \union {<<e[2], e[1]>> : e \in DOMAIN edges},
    time     <- [p \in Station \X Station |-> GetTravelTime(p[1], p[2])],
    serving  <- [s \in Station |-> GetRoutesServingStation(s)],
    alive    <- status = "running"

ImplementsAPI == API!Spec

(* transport-network.h says that the travel time is the same for all       *)
(* routes connecting the two stations directly.                            *)
SameTimeOnEveryRoute ==
    \A e \in DOMAIN edges : \A label \in edges[e].routes :
       GetRouteTravelTime(label[1], label[2], e[1], e[2]) = GetTravelTime(e[1], e[2])
=============================================================================
