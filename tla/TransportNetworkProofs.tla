----------------------- MODULE TransportNetworkProofs -----------------------
(***************************************************************************)
(* Proofs about TransportNetwork, for any stations, lines and travel       *)
(* times: the type and consistency of the graph, the routes on its edges,  *)
(* the travel times along them, and the interface it implements. Then      *)
(* about NetworkLoad, which fills the network, for any documents.          *)
(***************************************************************************)
EXTENDS NetworkLoad, Induction, FiniteSetTheorems, TLAPS

(* The inductive invariant: each part needs the type of the edges, and the *)
(* agreement of directions needs nothing else.                             *)
Inv == TypeOK /\ GraphIsConsistent /\ DirectionsAgree

(* A hop of a line joins two different stops, and its label is a label of  *)
(* the lines.                                                              *)
LEMMA HopFacts ==
    ASSUME NEW line \in Lines, NEW h \in Hops(line)
    PROVE  /\ Ends(line, h) \in Station \X Station
           /\ Ends(line, h)[1] # Ends(line, h)[2]
           /\ HopLabel(line, h) \in Labels
<1>1. PICK r \in DOMAIN line : h \in {r} \X (2..Len(line[r].stops))
  BY DEF Hops
<1>2. h = <<r, h[2]>> /\ h[1] = r /\ h[2] \in 2..Len(line[r].stops)
  BY <1>1
<1>3. /\ line[r].stops \in Seq(Station)
      /\ \A i, j \in DOMAIN line[r].stops : line[r].stops[i] = line[r].stops[j] => i = j
  BY LinesAssumption
<1>4. /\ h[2] - 1 \in DOMAIN line[r].stops
      /\ h[2] \in DOMAIN line[r].stops
      /\ h[2] - 1 # h[2]
  BY <1>2, <1>3
<1>5. HopLabel(line, h) \in Labels
  BY <1>2 DEF HopLabel, Labels, Label
<1> QED
  BY <1>2, <1>3, <1>4, <1>5 DEF Ends

(* A hop that succeeds joins two stations of the network.                  *)
LEMMA SucceedingKnown ==
    ASSUME NEW line \in Lines, NEW hops \in SUBSET Hops(line), AllSucceed(line, hops),
           NEW h \in hops
    PROVE  Ends(line, h)[1] \in stationIdToNode /\ Ends(line, h)[2] \in stationIdToNode
  BY DEF AllSucceed, Rejects, Crashes

(* The edges after adding hops that join known stations.                   *)
LEMMA WithHopsFacts ==
    ASSUME TypeOK, NEW line \in Lines, NEW hops \in SUBSET Hops(line)
    PROVE  LET new == WithHops(line, hops) IN
           /\ DOMAIN new = DOMAIN edges \union Incoming(line, hops)
           /\ DOMAIN new \subseteq Station \X Station
           /\ new \in [DOMAIN new -> Edge]
           /\ \A e \in DOMAIN new : new[e].travelTime = EdgeAt(e).travelTime
<1> DEFINE new == WithHops(line, hops)
<1>1. DOMAIN new = DOMAIN edges \union Incoming(line, hops)
  BY DEF WithHops, Incoming
<1>2. DOMAIN new \subseteq Station \X Station
  BY <1>1, HopFacts DEF Incoming, TypeOK
<1>3. ASSUME NEW e \in DOMAIN new
      PROVE  new[e] \in Edge /\ new[e].travelTime = EdgeAt(e).travelTime
  <2> DEFINE labels == {HopLabel(line, h) : h \in {g \in hops : Ends(line, g) = e}}
  <2>1. labels \subseteq Labels
    BY HopFacts
  <2>2. EdgeAt(e) \in Edge
    BY DEF EdgeAt, TypeOK, Edge
  <2>3. new[e] = [EdgeAt(e) EXCEPT !.routes = @ \union labels]
    BY <1>1 DEF WithHops, Incoming
  <2> HIDE DEF labels
  <2> QED
    BY <2>1, <2>2, <2>3 DEF Edge
<1>4. new = [e \in DOMAIN new |-> new[e]]
  BY DEF WithHops
<1> HIDE DEF new
<1>5. new \in [DOMAIN new -> Edge]
  BY <1>3, <1>4
<1> QED
  BY <1>1, <1>2, <1>3, <1>5 DEF new

(* The initial network is well typed and consistent.                       *)
LEMMA InitInv == Init => Inv
  BY DEF Init, Inv, TypeOK, GraphIsConsistent, DirectionsAgree, stationIdToNode

LEMMA AddStationInv ==
    ASSUME Inv, NEW s \in Station, AddStation(s)
    PROVE  Inv'
<1> USE DEF Inv, AddStation, stationIdToNode
<1>1. TypeOK'
  BY TimesAssumption DEF TypeOK, Edge
<1>2. GraphIsConsistent'
  BY DEF GraphIsConsistent
<1>3. DirectionsAgree'
  BY DEF DirectionsAgree
<1> QED BY <1>1, <1>2, <1>3

(* What AddLine does to the graph, when it returns and when it crashes:    *)
(* told are the hops whose far ends are told.                              *)
LEMMA HopsAddedTypes ==
    ASSUME Inv, NEW line \in Lines, NEW hops \in SUBSET Hops(line), NEW told \in SUBSET hops,
           edges' = WithHops(line, hops),
           incoming' = incoming \union Incoming(line, told),
           UNCHANGED passengers, status' \in {"running", "crashed"},
           result' \in BOOLEAN, accepted' \subseteq Lines
    PROVE  TypeOK' /\ DirectionsAgree'
<1>1. /\ DOMAIN edges' = DOMAIN edges \union Incoming(line, hops)
      /\ DOMAIN edges' \subseteq Station \X Station
      /\ edges' \in [DOMAIN edges' -> Edge]
      /\ \A e \in DOMAIN edges' : edges'[e].travelTime = EdgeAt(e).travelTime
  BY WithHopsFacts DEF Inv
<1>2. TypeOK'
  <2>1. incoming' \subseteq Station \X Station
    BY HopFacts DEF Inv, TypeOK, Incoming
  <2> QED
    BY <1>1, <2>1 DEF Inv, TypeOK, stationIdToNode, Edge, Labels
<1>3. DirectionsAgree'
  BY <1>1 DEF Inv, DirectionsAgree, EdgeAt
<1> QED BY <1>2, <1>3

(* What both AddLine and AddLineRejected do to the graph.                  *)
LEMMA HopsAddedInv ==
    ASSUME Inv, NEW line \in Lines, NEW hops \in SUBSET Hops(line), AllSucceed(line, hops),
           edges' = WithHops(line, hops),
           incoming' = incoming \union Incoming(line, hops),
           UNCHANGED <<passengers, status>>,
           result' \in BOOLEAN, accepted' \subseteq Lines
    PROVE  Inv'
<1>1. DOMAIN edges' = DOMAIN edges \union Incoming(line, hops)
  BY WithHopsFacts DEF Inv
<1>2. status' \in {"running", "crashed"}
  BY DEF Inv, TypeOK
<1>3. TypeOK' /\ DirectionsAgree'
  BY <1>2, HopsAddedTypes
<1>4. GraphIsConsistent'
  <2>1. \A e \in Incoming(line, hops) : e[1] # e[2] /\ {e[1], e[2]} \subseteq stationIdToNode
    BY HopFacts, SucceedingKnown DEF Incoming
  <2> QED
    BY <1>1, <2>1 DEF Inv, GraphIsConsistent, stationIdToNode
<1> QED BY <1>3, <1>4 DEF Inv

LEMMA AddLineCrashInv ==
    ASSUME Inv, NEW line \in Lines, NEW h \in Hops(line), AddLineCrash(line, h)
    PROVE  Inv'
<1> DEFINE hops == HopsBefore(line, h) \union {h}
<1>1. hops \in SUBSET Hops(line) /\ HopsBefore(line, h) \in SUBSET hops
  BY DEF HopsBefore
<1>2. TypeOK' /\ DirectionsAgree'
  BY <1>1, HopsAddedTypes DEF AddLineCrash, Inv, TypeOK
<1>3. GraphIsConsistent'
  BY DEF AddLineCrash, GraphIsConsistent
<1> QED BY <1>2, <1>3 DEF Inv

LEMMA RecordPassengerEventInv ==
    ASSUME Inv, NEW s \in Station, NEW by \in {1, -1}, RecordPassengerEvent(s, by)
    PROVE  Inv'
<1> USE DEF Inv, RecordPassengerEvent, Recorded, stationIdToNode
<1>1. TypeOK'
  BY TimesAssumption DEF TypeOK, Edge
<1>2. GraphIsConsistent'
  BY DEF GraphIsConsistent
<1>3. DirectionsAgree'
  BY DEF DirectionsAgree
<1> QED BY <1>1, <1>2, <1>3

LEMMA SetTravelTimeInv ==
    ASSUME Inv, NEW a \in Station, NEW b \in Station, NEW t \in Times, SetTravelTime(a, b, t)
    PROVE  Inv'
<1>1. /\ DOMAIN edges' = DOMAIN edges
      /\ \A e \in DOMAIN edges :
            edges'[e] = IF e \in EdgesBetween(a, b) THEN [edges[e] EXCEPT !.travelTime = t]
                                                    ELSE edges[e]
  BY DEF SetTravelTime
<1>2. UNCHANGED <<passengers, incoming, status, accepted>> /\ result' \in BOOLEAN
  BY DEF SetTravelTime
<1>3. t \in Nat
  BY TimesAssumption
<1>4. \A e \in DOMAIN edges : /\ edges'[e] \in Edge
                              /\ edges'[e].travelTime = IF e \in EdgesBetween(a, b) THEN t
                                                        ELSE edges[e].travelTime
  BY <1>1, <1>3 DEF Inv, TypeOK, Edge
<1>5. TypeOK'
  <2>1. edges' = [e \in DOMAIN edges' |-> edges'[e]]
    BY DEF SetTravelTime
  <2>2. edges' \in [DOMAIN edges' -> Edge]
    BY <1>1, <1>4, <2>1
  <2> QED
    BY <1>1, <1>2, <2>2 DEF Inv, TypeOK, stationIdToNode, Edge, Labels
<1>6. GraphIsConsistent'
  BY <1>1, <1>2 DEF Inv, GraphIsConsistent, stationIdToNode
<1>7. DirectionsAgree'
  <2> SUFFICES ASSUME NEW x \in Station, NEW y \in Station,
                      <<x, y>> \in DOMAIN edges, <<y, x>> \in DOMAIN edges
               PROVE  LET there == edges'[<<x, y>>].travelTime
                          back  == edges'[<<y, x>>].travelTime
                      IN  there = back \/ there = 0 \/ back = 0
    BY <1>1 DEF DirectionsAgree
  <2>1. <<x, y>> \in EdgesBetween(a, b) <=> <<y, x>> \in EdgesBetween(a, b)
    BY DEF EdgesBetween
  <2> QED
    BY <1>4, <2>1 DEF Inv, DirectionsAgree
<1> QED BY <1>5, <1>6, <1>7 DEF Inv

(* Every step of the network preserves its type and its consistency.       *)
LEMMA NextInv == Inv /\ [Next]_vars => Inv'
<1> SUFFICES ASSUME Inv, [Next]_vars PROVE Inv'
  OBVIOUS
<1>1. ASSUME NEW s \in Station, AddStation(s) PROVE Inv'
  BY <1>1, AddStationInv
<1>2. ASSUME NEW line \in Lines, AddLine(line) PROVE Inv'
  BY <1>2, HopsAddedInv DEF AddLine, Inv, TypeOK
<1>3. ASSUME NEW line \in Lines, NEW h \in Hops(line), AddLineRejected(line, h) PROVE Inv'
  <2>1. HopsBefore(line, h) \in SUBSET Hops(line)
    BY DEF HopsBefore
  <2> QED
    BY <1>3, <2>1, HopsAddedInv DEF AddLineRejected, Inv, TypeOK
<1>7. ASSUME NEW line \in Lines, NEW h \in Hops(line), AddLineCrash(line, h) PROVE Inv'
  BY <1>7, AddLineCrashInv
<1>4. ASSUME NEW s \in Station, NEW by \in {1, -1}, RecordPassengerEvent(s, by) PROVE Inv'
  BY <1>4, RecordPassengerEventInv
<1>5. ASSUME NEW a \in Station, NEW b \in Station, NEW t \in Times, SetTravelTime(a, b, t)
      PROVE  Inv'
  BY <1>5, SetTravelTimeInv
<1>6. CASE UNCHANGED vars
  BY <1>6 DEF vars, Inv, TypeOK, GraphIsConsistent, DirectionsAgree, stationIdToNode, Edge, Labels
<1> QED
  BY <1>1, <1>2, <1>3, <1>4, <1>5, <1>6, <1>7 DEF Next

(* Every variable has its type, whatever is added in whatever order.       *)
THEOREM TypeCorrect == Spec => []TypeOK
<1>1. Inv => TypeOK BY DEF Inv
<1> QED BY InitInv, NextInv, <1>1, PTL DEF Spec

(* Whatever lines are added, accepted or not, edges join known stations    *)
(* and both ends know them, as long as the process runs.                   *)
THEOREM GraphCorrect == Spec => []GraphIsConsistent
<1>1. Inv => GraphIsConsistent BY DEF Inv
<1> QED BY InitInv, NextInv, <1>1, PTL DEF Spec

(* The times of the two edges between two stations never disagree, except  *)
(* that one may be missing (SetTravelTime before AddLine).                 *)
THEOREM TimesAgree == Spec => []DirectionsAgree
<1>1. Inv => DirectionsAgree BY DEF Inv
<1> QED BY InitInv, NextInv, <1>1, PTL DEF Spec
-----------------------------------------------------------------------------
(* The routes on the edges.                                                *)

OnEdge(e, label) == e \in DOMAIN edges /\ label \in edges[e].routes

(* With a hop of a line, every earlier one.                                *)
Leading(line, hops) == \A h \in hops : \A g \in Hops(line) : Before(g, h) => g \in hops

(* What a step does to the routes: nothing, or it adds leading hops of one *)
(* line, none of which was there, and accepts the line if these are all    *)
(* and the process goes on.                                                *)
AddsHops(line, hops) ==
    /\ \A e, label : OnEdge(e, label)' <=>
          OnEdge(e, label) \/ \E h \in hops : e = Ends(line, h) /\ label = HopLabel(line, h)
    /\ Leading(line, hops)
    /\ \A h \in hops : ~OnEdge(Ends(line, h), HopLabel(line, h))
    /\ \/ accepted' = accepted /\ (status' = "running" => hops # Hops(line))
       \/ accepted' = accepted \union {line} /\ hops = Hops(line)

KeepsRoutes ==
    /\ \A e, label : OnEdge(e, label)' <=> OnEdge(e, label)
    /\ accepted' = accepted

LEMMA BeforeIsTransitive ==
    ASSUME NEW line \in Lines, NEW f \in Hops(line), NEW g \in Hops(line), NEW h \in Hops(line),
           Before(f, g), Before(g, h)
    PROVE  Before(f, h)
<1>1. \A x \in Hops(line) : x[1] \in Int /\ x[2] \in Int
  BY LinesAssumption DEF Hops
<1>2. f[1] < h[1] \/ (f[1] = h[1] /\ f[2] < h[2])
  BY <1>1 DEF Before
<1> QED BY <1>2 DEF Before

LEMMA HopsAddedRoutes ==
    ASSUME TypeOK, NEW line \in Lines, NEW hops \in SUBSET Hops(line),
           \A h \in hops : ~Rejects(line, h),
           edges' = WithHops(line, hops), Leading(line, hops),
           \/ accepted' = accepted /\ (status' = "running" => hops # Hops(line))
           \/ accepted' = accepted \union {line} /\ hops = Hops(line)
    PROVE  AddsHops(line, hops)
<1>1. \A e \in DOMAIN edges' : edges'[e].routes = EdgeAt(e).routes
         \union {HopLabel(line, h) : h \in {g \in hops : Ends(line, g) = e}}
  BY DEF WithHops, EdgeAt, TypeOK, Edge
<1>2. DOMAIN edges' = DOMAIN edges \union {Ends(line, h) : h \in hops}
  BY DEF WithHops
<1>3. \A e, label : OnEdge(e, label)' <=>
         OnEdge(e, label) \/ \E h \in hops : e = Ends(line, h) /\ label = HopLabel(line, h)
  BY <1>1, <1>2 DEF OnEdge, EdgeAt
<1>4. \A h \in hops : ~OnEdge(Ends(line, h), HopLabel(line, h))
  BY DEF Rejects, HasRoute, OnEdge, HopLabel, Label
<1> QED BY <1>3, <1>4 DEF AddsHops

(* The hops visited before one of them are leading ones, with it or not.   *)
LEMMA HopsBeforeLead ==
    ASSUME NEW line \in Lines, NEW h \in Hops(line)
    PROVE  /\ HopsBefore(line, h) \in SUBSET Hops(line) /\ h \notin HopsBefore(line, h)
           /\ Leading(line, HopsBefore(line, h))
           /\ Leading(line, HopsBefore(line, h) \union {h})
<1>1. h[1] \in Int /\ h[2] \in Int
  BY LinesAssumption DEF Hops
<1>2. h \notin HopsBefore(line, h)
  BY <1>1 DEF HopsBefore, Before
<1> QED BY <1>2, BeforeIsTransitive DEF Leading, HopsBefore

LEMMA RoutesAfterStep ==
    ASSUME Inv, [Next]_vars
    PROVE  KeepsRoutes \/ \E line \in Lines : \E hops \in SUBSET Hops(line) : AddsHops(line, hops)
<1>1. ASSUME UNCHANGED <<edges, accepted>> PROVE KeepsRoutes
  BY <1>1 DEF KeepsRoutes, OnEdge
<1>2. ASSUME NEW s \in Station, AddStation(s) PROVE KeepsRoutes
  BY <1>1, <1>2 DEF AddStation
<1>3. ASSUME NEW line \in Lines, AddLine(line) PROVE AddsHops(line, Hops(line))
  BY <1>3, HopsAddedRoutes DEF AddLine, AllSucceed, Leading, Inv
<1>4. ASSUME NEW line \in Lines, NEW h \in Hops(line), AddLineRejected(line, h)
      PROVE  AddsHops(line, HopsBefore(line, h))
  <2>1. HopsBefore(line, h) # Hops(line)
    BY HopsBeforeLead
  <2>2. \A g \in HopsBefore(line, h) : ~Rejects(line, g)
    BY <1>4 DEF AddLineRejected, AllSucceed
  <2> QED BY <1>4, <2>1, <2>2, HopsBeforeLead, HopsAddedRoutes DEF AddLineRejected, Inv
<1>5. ASSUME NEW line \in Lines, NEW h \in Hops(line), AddLineCrash(line, h)
      PROVE  AddsHops(line, HopsBefore(line, h) \union {h})
  <2>1. \A g \in HopsBefore(line, h) \union {h} : ~Rejects(line, g)
    BY <1>5 DEF AddLineCrash, AllSucceed, Crashes
  <2> QED BY <1>5, <2>1, HopsBeforeLead, HopsAddedRoutes DEF AddLineCrash, Inv
<1>6. ASSUME NEW s \in Station, NEW by \in {1, -1}, RecordPassengerEvent(s, by) PROVE KeepsRoutes
  BY <1>1, <1>6 DEF RecordPassengerEvent
<1>7. ASSUME NEW a \in Station, NEW b \in Station, NEW t \in Times, SetTravelTime(a, b, t)
      PROVE  KeepsRoutes
  <2>1. /\ DOMAIN edges' = DOMAIN edges
        /\ \A e \in DOMAIN edges : edges'[e].routes = edges[e].routes
    BY <1>7 DEF SetTravelTime, Inv, TypeOK, Edge
  <2> QED BY <1>7, <2>1 DEF SetTravelTime, KeepsRoutes, OnEdge
<1>8. CASE UNCHANGED vars
  BY <1>1, <1>8 DEF vars
<1>9. \A line \in Lines : \A h \in Hops(line) : /\ HopsBefore(line, h) \in SUBSET Hops(line)
                                                /\ HopsBefore(line, h) \union {h} \in SUBSET Hops(line)
  BY DEF HopsBefore
<1> QED BY <1>2, <1>3, <1>4, <1>5, <1>6, <1>7, <1>8, <1>9 DEF Next

(* The routes on the edges are those of the hops of lines, and those of    *)
(* accepted lines are all there.                                           *)
RoutesComeFromLines ==
    \A e, label : OnEdge(e, label) =>
       \E line \in Lines : \E h \in Hops(line) : e = Ends(line, h) /\ label = HopLabel(line, h)

AcceptedIsThere ==
    \A line \in accepted : \A h \in Hops(line) : OnEdge(Ends(line, h), HopLabel(line, h))

RoutesInv == Inv /\ RoutesComeFromLines /\ AcceptedIsThere

LEMMA RoutesInvHolds == Spec => []RoutesInv
<1>1. Init => RoutesInv
  <2>1. Init => RoutesComeFromLines /\ AcceptedIsThere
    BY DEF Init, RoutesComeFromLines, AcceptedIsThere, OnEdge
  <2> QED BY <2>1, InitInv DEF RoutesInv
<1>2. RoutesInv /\ [Next]_vars => RoutesInv'
  <2> SUFFICES ASSUME RoutesInv, [Next]_vars PROVE RoutesInv'
    OBVIOUS
  <2>1. Inv /\ Inv'
    BY NextInv DEF RoutesInv
  <2>2. CASE KeepsRoutes
    BY <2>1, <2>2 DEF KeepsRoutes, RoutesInv, RoutesComeFromLines, AcceptedIsThere
  <2>3. ASSUME NEW line \in Lines, NEW hops \in SUBSET Hops(line), AddsHops(line, hops)
        PROVE  RoutesInv'
    <3>1. RoutesComeFromLines'
      BY <2>3 DEF AddsHops, RoutesInv, RoutesComeFromLines
    <3>2. AcceptedIsThere'
      BY <2>3 DEF AddsHops, RoutesInv, AcceptedIsThere
    <3> QED BY <2>1, <3>1, <3>2 DEF RoutesInv
  <2> QED BY <2>1, <2>2, <2>3, RoutesAfterStep
<1> QED BY <1>1, <1>2, PTL DEF Spec

(* Every stop of an accepted line is served by its route, and a station by *)
(* no route that does not stop there, for any lines.                       *)
THEOREM ServesExactly == Spec => []ServingIsExact
<1>1. ASSUME RoutesInv PROVE ServingIsExact
  <2> SUFFICES ASSUME status = "running" PROVE ServingIsExact
    BY DEF ServingIsExact
  <2>1. \A s, id : id \in GetRoutesServingStation(s) <=>
           \E e, label : OnEdge(e, label) /\ (s = e[1] \/ s = e[2]) /\ id = label[2]
    BY <1>1 DEF RoutesInv, Inv, GraphIsConsistent, GetRoutesServingStation, OnEdge
  <2>2. \A line \in Lines : \A h \in Hops(line) : HopLabel(line, h)[2] = line[h[1]].id
    BY DEF HopLabel, Label
  <2>3. accepted \subseteq Lines
    BY <1>1 DEF RoutesInv, Inv, TypeOK
  <2>4. ASSUME NEW line \in accepted, NEW h \in Hops(line), NEW s \in {Ends(line, h)[1], Ends(line, h)[2]}
        PROVE  line[h[1]].id \in GetRoutesServingStation(s)
    <3>1. OnEdge(Ends(line, h), HopLabel(line, h))
      BY <1>1 DEF RoutesInv, AcceptedIsThere
    <3> QED BY <2>1, <2>2, <2>3, <3>1
  <2>5. ASSUME NEW s \in Station, NEW id \in GetRoutesServingStation(s)
        PROVE  \E line \in Lines : \E h \in Hops(line) :
                  line[h[1]].id = id /\ s \in {Ends(line, h)[1], Ends(line, h)[2]}
    <3>1. PICK e, label : OnEdge(e, label) /\ (s = e[1] \/ s = e[2]) /\ id = label[2]
      BY <2>1, <2>5
    <3> QED BY <1>1, <2>2, <3>1 DEF RoutesInv, RoutesComeFromLines
  <2> QED BY <2>4, <2>5 DEF ServingIsExact
<1> QED BY RoutesInvHolds, <1>1, PTL

(* No two routes, of one line or of two, have both ids in common.          *)
RoutesAreDistinct ==
    \A k, l \in Lines : \A q \in DOMAIN k, r \in DOMAIN l :
       Label(k[q]) = Label(l[r]) => k = l /\ q = r

(* Then a hop is all there is on its edge with its label.                  *)
LEMMA HopIsUnique ==
    ASSUME RoutesAreDistinct, NEW k \in Lines, NEW g \in Hops(k), NEW l \in Lines, NEW h \in Hops(l),
           Ends(k, g) = Ends(l, h), HopLabel(k, g) = HopLabel(l, h)
    PROVE  k = l /\ g = h
<1>1. /\ g[1] \in DOMAIN k /\ g[2] \in 2..Len(k[g[1]].stops) /\ g = <<g[1], g[2]>>
      /\ h[1] \in DOMAIN l /\ h[2] \in 2..Len(l[h[1]].stops) /\ h = <<h[1], h[2]>>
  BY DEF Hops
<1>2. k = l /\ g[1] = h[1]
  BY <1>1 DEF RoutesAreDistinct, HopLabel
<1>3. /\ l[h[1]].stops \in Seq(Station)
      /\ \A i, j \in DOMAIN l[h[1]].stops : l[h[1]].stops[i] = l[h[1]].stops[j] => i = j
  BY <1>1, LinesAssumption
<1>4. g[2] \in DOMAIN l[h[1]].stops /\ h[2] \in DOMAIN l[h[1]].stops
  BY <1>1, <1>2, <1>3
<1>5. l[h[1]].stops[g[2]] = l[h[1]].stops[h[2]]
  BY <1>2 DEF Ends
<1>6. g[2] = h[2]
  BY <1>3, <1>4, <1>5
<1> QED BY <1>1, <1>2, <1>6

(* Where routes are distinct, what is left of a line, after any number of  *)
(* attempts to add it, is a leading part of it.                            *)
THEOREM LeftoversArePrefixes ==
    ASSUME RoutesAreDistinct
    PROVE  Spec => []LinesArePrefixes
<1> DEFINE There(line, h) == OnEdge(Ends(line, h), HopLabel(line, h))
<1>1. LinesArePrefixes <=> \A line \in Lines : \A g, h \in Hops(line) :
         Before(g, h) /\ There(line, h) => There(line, g)
  BY DEF LinesArePrefixes, HasRoute, OnEdge, HopLabel, Label
<1>2. (LinesArePrefixes <=> \A line \in Lines : \A g, h \in Hops(line) :
         Before(g, h) /\ There(line, h) => There(line, g))'
  BY DEF LinesArePrefixes, HasRoute, OnEdge, HopLabel, Label
<1>3. Init => LinesArePrefixes
  BY DEF Init, LinesArePrefixes, HasRoute
<1>4. ASSUME Inv, LinesArePrefixes, [Next]_vars PROVE LinesArePrefixes'
  <2>1. CASE KeepsRoutes
    BY <1>1, <1>2, <1>4, <2>1 DEF KeepsRoutes
  <2>2. ASSUME NEW line \in Lines, NEW hops \in SUBSET Hops(line), AddsHops(line, hops)
        PROVE  LinesArePrefixes'
    <3>1. \A k \in Lines : \A g \in Hops(k) : There(k, g)' <=> There(k, g) \/ (k = line /\ g \in hops)
      BY <2>2, HopIsUnique DEF AddsHops
    <3>2. Leading(line, hops)
      BY <2>2 DEF AddsHops
    <3> HIDE DEF There
    <3> QED BY <1>1, <1>2, <1>4, <3>1, <3>2 DEF Leading
  <2> QED BY <1>4, <2>1, <2>2, RoutesAfterStep
<1> QED BY InitInv, NextInv, <1>3, <1>4, PTL DEF Spec

(* Of two hops of a line, AddLine visits one first.                        *)
LEMMA BeforeIsTotal ==
    ASSUME NEW line \in Lines, NEW g \in Hops(line), NEW h \in Hops(line), g # h
    PROVE  Before(g, h) \/ Before(h, g)
<1>1. \A x \in Hops(line) : x = <<x[1], x[2]>> /\ x[1] \in Int /\ x[2] \in Int
  BY LinesAssumption DEF Hops
<1> QED BY <1>1 DEF Before

(* Where routes are distinct, a line is in the network as a whole exactly  *)
(* when AddLine returned true for it: what a refused line left behind is   *)
(* never completed, however often the line is added again.                 *)
THEOREM WholeLinesWereAccepted ==
    ASSUME RoutesAreDistinct
    PROVE  Spec => []WholeWhenAccepted
<1> DEFINE There(line, h) == OnEdge(Ends(line, h), HopLabel(line, h))
           Whole(line) == \A h \in Hops(line) : There(line, h)
           Claim == \A line \in Lines : Hops(line) # {} => (line \in accepted <=> Whole(line))
<1>1. WholeWhenAccepted <=> (status = "running" => Claim)
  BY DEF WholeWhenAccepted, HasRoute, OnEdge, HopLabel, Label
<1>2. (WholeWhenAccepted <=> (status = "running" => Claim))'
  BY DEF WholeWhenAccepted, HasRoute, OnEdge, HopLabel, Label
<1>3. LinesArePrefixes => \A line \in Lines : \A g, h \in Hops(line) :
         Before(g, h) /\ There(line, h) => There(line, g)
  BY DEF LinesArePrefixes, HasRoute, OnEdge, HopLabel, Label
<1>4. Init => WholeWhenAccepted
  BY DEF Init, WholeWhenAccepted, HasRoute
<1>5. ASSUME Inv, LinesArePrefixes, WholeWhenAccepted, [Next]_vars PROVE WholeWhenAccepted'
  <2> SUFFICES ASSUME status' = "running" PROVE Claim'
    BY <1>2
  <2>1. Claim
    <3>1. status = "running"
      BY <1>5 DEF Next, AddStation, AddLine, AddLineRejected, AddLineCrash, RecordPassengerEvent,
                  SetTravelTime, vars
    <3> QED BY <1>1, <1>5, <3>1
  <2>2. CASE KeepsRoutes
    BY <2>1, <2>2 DEF KeepsRoutes
  <2>3. ASSUME NEW line \in Lines, NEW hops \in SUBSET Hops(line), AddsHops(line, hops)
        PROVE  Claim'
    <3>1. \A k \in Lines : \A g \in Hops(k) : There(k, g)' <=> There(k, g) \/ (k = line /\ g \in hops)
      BY <2>3, HopIsUnique DEF AddsHops
    <3>2. /\ Leading(line, hops)
          /\ \A h \in hops : ~There(line, h)
          /\ \/ accepted' = accepted /\ hops # Hops(line)
             \/ accepted' = accepted \union {line} /\ hops = Hops(line)
      BY <2>3 DEF AddsHops
    <3> HIDE DEF There
    <3>3. ASSUME NEW k \in Lines, k # line, Hops(k) # {} PROVE k \in accepted' <=> Whole(k)'
      BY <2>1, <3>1, <3>2, <3>3
    <3>4. CASE hops = Hops(line)
      BY <2>1, <3>1, <3>2, <3>3, <3>4
    <3>5. CASE hops = {} /\ hops # Hops(line)
      BY <2>1, <3>1, <3>2, <3>5
    <3>6. ASSUME NEW g \in hops, hops # Hops(line), Hops(line) # {}
          PROVE  line \notin accepted' /\ ~Whole(line)'
      <4>1. PICK h \in Hops(line) : h \notin hops
        BY <3>6
      <4>2. Before(g, h)
        BY <3>2, <4>1, BeforeIsTotal DEF Leading
      <4>3. ~There(line, g) /\ ~There(line, h)
        BY <1>3, <1>5, <3>2, <4>2
      <4> QED BY <2>1, <3>1, <3>2, <3>6, <4>1, <4>3
    <3> QED BY <3>2, <3>3, <3>4, <3>5, <3>6
  <2> QED BY <1>5, <2>2, <2>3, RoutesAfterStep
<1> QED BY InitInv, NextInv, LeftoversArePrefixes, <1>4, <1>5, PTL DEF Spec
-----------------------------------------------------------------------------
(* Travel times along a route. The walk and the sum of times satisfy their *)
(* recursive definitions, because functions that satisfy them exist.       *)

(* What the walk finds from s, when it finds rest one hop further.         *)
OneHop(line, route, b, s, rest) ==
    IF s = b THEN 0
    ELSE IF Ahead(line, route, s) = {} THEN NotFound
    ELSE LET t == CHOOSE t \in Ahead(line, route, s) : TRUE
         IN  IF rest[t] < 0 THEN rest[t] ELSE edges[<<s, t>>].travelTime + rest[t]

(* The walk takes one hop after another.                                   *)
LEMMA RouteWalkDef ==
    ASSUME TypeOK, IsFiniteSet(Station), NEW line, NEW route, NEW b
    PROVE  LET walk == RouteWalk(line, route, b) IN
           \A left \in 0..Cardinality(Station) + 1 : \A s \in Station :
              /\ walk[left][s] \in Int
              /\ left = 0 => walk[left][s] = IF s = b THEN 0 ELSE Endless
              /\ left > 0 => walk[left][s] = OneHop(line, route, b, s, walk[left - 1])
<1> DEFINE N == Cardinality(Station) + 1
           base == [s \in Station |-> IF s = b THEN 0 ELSE Endless]
           step == [p \in Nat \X [Station -> Int] |->
                      [s \in Station |-> OneHop(line, route, b, s, p[2])]]
           Body(w) == [left \in 0..N |-> [s \in Station |->
             IF s = b THEN 0
             ELSE IF left = 0 THEN Endless
             ELSE IF Ahead(line, route, s) = {} THEN NotFound
             ELSE LET t    == CHOOSE t \in Ahead(line, route, s) : TRUE
                      rest == w[left - 1][t]
                  IN  IF rest < 0 THEN rest ELSE edges[<<s, t>>].travelTime + rest]]
<1>1. N \in Nat
  BY FS_CardinalityType
<1>2. ASSUME NEW s \in Station, NEW rest \in [Station -> Int]
      PROVE  OneHop(line, route, b, s, rest) \in Int
  <2>1. CASE s = b \/ Ahead(line, route, s) = {}
    BY <2>1 DEF OneHop, NotFound
  <2>2. CASE s # b /\ Ahead(line, route, s) # {}
    <3> DEFINE t == CHOOSE t \in Ahead(line, route, s) : TRUE
    <3>1. t \in Station /\ <<s, t>> \in DOMAIN edges
      BY <2>2 DEF Ahead, HasRoute
    <3>2. edges[<<s, t>>].travelTime \in Nat /\ rest[t] \in Int
      BY <3>1 DEF TypeOK, Edge
    <3> QED BY <2>2, <3>2 DEF OneHop
  <2> QED BY <2>1, <2>2
<1>3. base \in [Station -> Int]
  BY DEF Endless
<1>4. step \in [Nat \X [Station -> Int] -> [Station -> Int]]
  BY <1>2
<1>5. \A p \in Nat \X [Station -> Int] : \A s \in Station : 
         step[p][s] = OneHop(line, route, b, s, p[2])
  OBVIOUS
<1>16. \A s \in Station : base[s] = IF s = b THEN 0 ELSE Endless
  OBVIOUS
<1> HIDE DEF N, step, base
<1>6. PICK f : Iterates(f, [Station -> Int], base, step, N)
  BY <1>1, <1>3, <1>4, RecursionExists
<1>7. /\ f \in [0..N -> [Station -> Int]]
      /\ \A s \in Station : f[0][s] = IF s = b THEN 0 ELSE Endless
      /\ \A k \in 1..N : \A s \in Station : f[k][s] = OneHop(line, route, b, s, f[k - 1])
  <2>1. f \in [0..N -> [Station -> Int]] /\ f[0] = base
    BY <1>6 DEF Iterates
  <2>2. ASSUME NEW k \in 1..N PROVE \A s \in Station : f[k][s] = OneHop(line, route, b, s, f[k - 1])
    <3>1. <<k, f[k - 1]>> \in Nat \X [Station -> Int] /\ f[k] = step[<<k, f[k - 1]>>]
      BY <1>1, <1>6, <2>1 DEF Iterates
    <3> QED BY <1>5, <3>1
  <2> QED BY <1>16, <2>1, <2>2
<1>8. \A w : /\ DOMAIN Body(w) = 0..N /\ \A k \in 0..N : DOMAIN Body(w)[k] = Station
             /\ Body(w) = [k \in 0..N |-> Body(w)[k]]
             /\ \A k \in 0..N : Body(w)[k] = [s \in Station |-> Body(w)[k][s]]
  OBVIOUS
<1>9. \A w : \A s \in Station : Body(w)[0][s] = IF s = b THEN 0 ELSE Endless
  BY <1>1
<1>10. \A w : \A k \in 1..N : \A s \in Station :
          Body(w)[k][s] = OneHop(line, route, b, s, w[k - 1])
  BY <1>1 DEF OneHop
<1>11. RouteWalk(line, route, b) = CHOOSE w : w = Body(w)
  BY DEF RouteWalk, N
<1> HIDE DEF Body
<1>12. f = Body(f)
  <2>1. ASSUME NEW k \in 0..N PROVE f[k] = Body(f)[k]
    <3>1. ASSUME NEW s \in Station PROVE f[k][s] = Body(f)[k][s]
      <4>1. CASE k = 0
        BY <1>7, <1>9, <4>1
      <4>2. CASE k \in 1..N
        BY <1>7, <1>10, <4>2
      <4> QED BY <1>1, <4>1, <4>2
    <3>2. f[k] \in [Station -> Int]
      BY <1>7
    <3> QED BY <1>8, <3>1, <3>2
  <2>2. f = [k \in 0..N |-> f[k]]
    BY <1>7
  <2>3. f = [k \in 0..N |-> Body(f)[k]]
    BY <2>1, <2>2
  <2> QED BY <1>8, <2>3
<1> DEFINE walk == RouteWalk(line, route, b)
<1>13. walk = Body(walk)
  BY <1>11, <1>12, Zenon
<1> HIDE DEF walk
<1>14. \A left \in 0..N : walk[left] \in [Station -> Int]
  <2> DEFINE T == {left \in Nat : left \in 0..N => walk[left] \in [Station -> Int]}
  <2>1. \A left \in 0..N : walk[left] = [s \in Station |-> walk[left][s]]
    BY <1>8, <1>13
  <2>2. 0 \in T
    <3>1. \A s \in Station : walk[0][s] \in Int
      BY <1>9, <1>13 DEF Endless
    <3> QED BY <1>1, <2>1, <3>1
  <2>3. ASSUME NEW n \in T PROVE n + 1 \in T
    <3>1. CASE n + 1 \in 1..N
      <4>1. walk[n] \in [Station -> Int]
        BY <1>1, <3>1
      <4>2. \A s \in Station : walk[n + 1][s] = OneHop(line, route, b, s, walk[n])
        BY <1>10, <1>13, <3>1
      <4>3. \A s \in Station : walk[n + 1][s] \in Int
        BY <1>2, <4>1, <4>2
      <4>4. walk[n + 1] = [s \in Station |-> walk[n + 1][s]]
        BY <1>1, <2>1, <3>1
      <4> QED BY <4>3, <4>4
    <3> QED BY <1>1, <3>1
  <2> HIDE DEF T
  <2>4. T = Nat
    BY <2>2, <2>3, SetInduction DEF T
  <2> QED BY <1>1, <2>4 DEF T
<1>15. \A left \in 0..N : \A s \in Station :
          /\ walk[left][s] \in Int
          /\ left = 0 => walk[left][s] = IF s = b THEN 0 ELSE Endless
          /\ left > 0 => walk[left][s] = OneHop(line, route, b, s, walk[left - 1])
  BY <1>1, <1>9, <1>10, <1>13, <1>14
<1> QED BY <1>15 DEF walk, N

(* The time of the hop that leads to each stop.                            *)
HopTimes(stops, i, j) == [k \in i + 1..j |-> edges[<<stops[k - 1], stops[k]>>].travelTime]

(* The sum of the times of the hops from stop i to stop j.                 *)
LEMMA TimeAlongDef ==
    ASSUME NEW stops, NEW i \in Nat, NEW j \in Nat, i <= j, HopTimes(stops, i, j) \in [i + 1..j -> Nat]
    PROVE  \E upTo : Sums(upTo, HopTimes(stops, i, j), i, j) /\ TimeAlong(stops, i, j) = upTo[j]
<1> DEFINE term == HopTimes(stops, i, j)
           Body(w) == [k \in i..j |-> IF k = i THEN 0
                                      ELSE w[k - 1] + edges[<<stops[k - 1], stops[k]>>].travelTime]
           upTo == CHOOSE w : w = Body(w)
<1>1. \A k \in i + 1..j : term[k] = edges[<<stops[k - 1], stops[k]>>].travelTime
  BY DEF HopTimes
<1>2. TimeAlong(stops, i, j) = upTo[j]
  BY DEF TimeAlong
<1>3. PICK g : Sums(g, term, i, j)
  <2>1. term \in [i + 1..j -> Int]
    OBVIOUS
  <2> HIDE DEF term
  <2> QED BY <2>1, SumsExist
<1>4. \A w : Sums(w, term, i, j) <=> w = Body(w)
  <2> HIDE DEF term
  <2>1. ASSUME NEW w, Sums(w, term, i, j) PROVE w = Body(w)
    <3>1. \A k \in i..j : k # i => k \in i + 1..j
      OBVIOUS
    <3>2. \A k \in i..j : w[k] = Body(w)[k]
      BY <1>1, <2>1, <3>1 DEF Sums
    <3>3. w = [k \in i..j |-> w[k]]
      BY <2>1 DEF Sums
    <3> QED BY <3>2, <3>3
  <2>2. ASSUME NEW w, w = Body(w) PROVE Sums(w, term, i, j)
    <3>1. DOMAIN w = i..j /\ w[i] = 0
      BY <2>2
    <3>2. \A k \in i + 1..j : k \in i..j /\ k # i
      OBVIOUS
    <3>3. \A k \in i + 1..j : w[k] = w[k - 1] + term[k]
      BY <1>1, <2>2, <3>2
    <3>4. w = [k \in i..j |-> w[k]]
      BY <2>2
    <3> QED BY <3>1, <3>3, <3>4 DEF Sums
  <2> QED BY <2>1, <2>2
<1> HIDE DEF Body, term
<1>5. upTo = Body(upTo)
  BY <1>3, <1>4, Zenon
<1> QED BY <1>2, <1>4, <1>5 DEF term

(* It may as well be taken from the last hop back to the first.            *)
LEMMA TimeAlongFirst ==
    ASSUME NEW stops, NEW i \in Nat, NEW j \in Nat, i <= j,
           \A k \in i + 1..j : edges[<<stops[k - 1], stops[k]>>].travelTime \in Nat
    PROVE  /\ TimeAlong(stops, i, j) \in Nat
           /\ i = j => TimeAlong(stops, i, j) = 0
           /\ i < j => TimeAlong(stops, i, j)
                          = edges[<<stops[i], stops[i + 1]>>].travelTime + TimeAlong(stops, i + 1, j)
<1> DEFINE time(k) == edges[<<stops[k - 1], stops[k]>>].travelTime
<1>1. HopTimes(stops, i, j) \in [i + 1..j -> Nat] /\ \A k \in i + 1..j : HopTimes(stops, i, j)[k] = time(k)
  BY DEF HopTimes
<1>2. PICK u : Sums(u, HopTimes(stops, i, j), i, j) /\ TimeAlong(stops, i, j) = u[j]
  BY <1>1, TimeAlongDef
<1>3. u \in [i..j -> Nat]
  BY <1>1, <1>2, SumsType
<1>4. u[i] = 0 /\ \A k \in i + 1..j : u[k] = u[k - 1] + time(k)
  BY <1>1, <1>2 DEF Sums
<1>5. ASSUME i < j PROVE TimeAlong(stops, i, j) = time(i + 1) + TimeAlong(stops, i + 1, j)
  <2>1. i + 1 \in Nat /\ i + 1 <= j /\ \A k \in (i + 1) + 1..j : time(k) \in Nat
    BY <1>5
  <2>2. /\ HopTimes(stops, i + 1, j) \in [(i + 1) + 1..j -> Nat]
        /\ \A k \in (i + 1) + 1..j : HopTimes(stops, i + 1, j)[k] = time(k)
    BY <2>1 DEF HopTimes
  <2>3. PICK v : Sums(v, HopTimes(stops, i + 1, j), i + 1, j) /\ TimeAlong(stops, i + 1, j) = v[j]
    BY <2>1, <2>2, TimeAlongDef
  <2>4. v \in [i + 1..j -> Nat]
    BY <2>1, <2>2, <2>3, SumsType
  <2>5. v[i + 1] = 0 /\ \A k \in (i + 1) + 1..j : v[k] = v[k - 1] + time(k)
    BY <2>2, <2>3 DEF Sums
  <2>6. \A k \in i + 1..j : time(k) \in Nat
    OBVIOUS
  <2> HIDE DEF time
  <2> DEFINE T == {m \in Nat : i + 1 + m <= j => u[i + 1 + m] = time(i + 1) + v[i + 1 + m]}
  <2>7. 0 \in T
    <3>1. i + 1 \in i + 1..j /\ u[i + 1] = u[i] + time(i + 1)
      BY <1>4, <1>5
    <3>2. u[i + 1] = time(i + 1) + v[i + 1]
      BY <1>4, <2>5, <2>6, <3>1
    <3> QED BY <3>2
  <2>8. ASSUME NEW m \in T PROVE m + 1 \in T
    <3>1. ASSUME i + 1 + (m + 1) <= j PROVE u[i + 1 + (m + 1)] = time(i + 1) + v[i + 1 + (m + 1)]
      <4> DEFINE k == i + 1 + (m + 1)
      <4>1. k \in i + 1..j /\ k \in (i + 1) + 1..j /\ k - 1 = i + 1 + m /\ i + 1 \in i + 1..j
        BY <3>1
      <4>2. u[k - 1] = time(i + 1) + v[k - 1]
        BY <3>1, <4>1
      <4>3. u[k] = u[k - 1] + time(k) /\ v[k] = v[k - 1] + time(k)
        BY <1>4, <2>5, <4>1
      <4>4. v[k - 1] \in Nat /\ time(k) \in Nat /\ time(i + 1) \in Nat
        BY <2>4, <2>6, <4>1
      <4>5. u[k] = time(i + 1) + v[k]
        BY <4>2, <4>3, <4>4
      <4> QED BY <4>5
    <3> QED BY <3>1
  <2>9. T = Nat
    <3> HIDE DEF T
    <3> QED BY <2>7, <2>8, SetInduction DEF T
  <2>10. j - i - 1 \in Nat /\ i + 1 + (j - i - 1) = j
    BY <1>5
  <2>11. j - i - 1 \in T
    BY <2>9, <2>10
  <2>12. u[j] = time(i + 1) + v[j]
    BY <2>10, <2>11
  <2> QED BY <1>2, <2>3, <2>12
<1>6. time(i + 1) = edges[<<stops[i], stops[i + 1]>>].travelTime
  OBVIOUS
<1> HIDE DEF time
<1> QED BY <1>2, <1>3, <1>4, <1>5, <1>6

(* Where routes are distinct, an accepted route leads from each of its     *)
(* stops to the next one only, and from the last one nowhere.              *)
LEMMA AcceptedRouteAhead ==
    ASSUME RoutesInv, RoutesAreDistinct, NEW line \in accepted, NEW r \in DOMAIN line
    PROVE  LET stops == line[r].stops IN
           \A k \in 1..Len(stops) :
              /\ stops[k] \in Station
              /\ k < Len(stops) => /\ <<stops[k], stops[k + 1]>> \in DOMAIN edges
                                   /\ Ahead(line[r].lineId, line[r].id, stops[k]) = {stops[k + 1]}
              /\ k = Len(stops) => Ahead(line[r].lineId, line[r].id, stops[k]) = {}
<1> DEFINE stops == line[r].stops
           ahead(s) == Ahead(line[r].lineId, line[r].id, s)
<1>1. line \in Lines
  BY DEF RoutesInv, Inv, TypeOK
<1>2. stops \in Seq(Station) /\ \A m, n \in DOMAIN stops : stops[m] = stops[n] => m = n
  BY <1>1, LinesAssumption
<1>3. ASSUME NEW k \in 1..Len(stops), NEW t \in ahead(stops[k])
      PROVE  k < Len(stops) /\ t = stops[k + 1]
  <2>1. OnEdge(<<stops[k], t>>, Label(line[r]))
    BY <1>3 DEF Ahead, HasRoute, OnEdge, Label
  <2>9. PICK m \in Lines : \E h \in Hops(m) :
           <<stops[k], t>> = Ends(m, h) /\ Label(line[r]) = HopLabel(m, h)
    BY <2>1 DEF RoutesInv, RoutesComeFromLines
  <2>2. PICK h \in Hops(m) : <<stops[k], t>> = Ends(m, h) /\ Label(line[r]) = HopLabel(m, h)
    BY <2>9
  <2>3. h[1] \in DOMAIN m /\ h[2] \in 2..Len(m[h[1]].stops)
    BY DEF Hops
  <2>4. m = line /\ h[1] = r
    BY <1>1, <2>2, <2>3 DEF RoutesAreDistinct, HopLabel
  <2>5. h[2] \in 2..Len(stops) /\ stops[k] = stops[h[2] - 1] /\ t = stops[h[2]]
    BY <2>2, <2>3, <2>4 DEF Ends
  <2>6. k \in DOMAIN stops /\ h[2] - 1 \in DOMAIN stops
    BY <1>2, <2>5
  <2>7. k = h[2] - 1
    BY <1>2, <2>5, <2>6
  <2>8. Len(stops) \in Nat
    BY <1>2
  <2> HIDE DEF stops
  <2> QED BY <2>5, <2>7, <2>8
<1>4. ASSUME NEW k \in 1..Len(stops), k < Len(stops)
      PROVE  <<stops[k], stops[k + 1]>> \in DOMAIN edges /\ stops[k + 1] \in ahead(stops[k])
  <2>1. Len(stops) \in Nat
    BY <1>2
  <2>2. k + 1 \in 2..Len(stops) /\ (k + 1) - 1 = k
    BY <1>4, <2>1
  <2>3. <<r, k + 1>> \in Hops(line)
    BY <2>2 DEF Hops
  <2>4. Ends(line, <<r, k + 1>>) = <<stops[k], stops[k + 1]>> /\ HopLabel(line, <<r, k + 1>>) = Label(line[r])
    BY <2>2 DEF Ends, HopLabel
  <2>5. OnEdge(<<stops[k], stops[k + 1]>>, Label(line[r]))
    BY <2>3, <2>4 DEF RoutesInv, AcceptedIsThere
  <2>6. k + 1 \in 1..Len(stops)
    BY <2>2
  <2>7. stops[k + 1] \in Station
    BY <1>2, <2>6
  <2> QED BY <2>5, <2>7 DEF OnEdge, Ahead, HasRoute, Label
<1>5. \A k \in 1..Len(stops) : stops[k] \in Station
  BY <1>2
<1> HIDE DEF stops, ahead
<1>6. \A k \in 1..Len(stops) : k = Len(stops) => ahead(stops[k]) = {}
  <2>1. Len(stops) \in Nat
    BY <1>2
  <2> QED BY <1>3, <2>1
<1>7. \A k \in 1..Len(stops) : k < Len(stops) => ahead(stops[k]) = {stops[k + 1]}
  BY <1>3, <1>4
<1> QED BY <1>4, <1>5, <1>6, <1>7 DEF stops, ahead

(* The walk along an accepted route towards its stop j.                    *)
LEMMA WalkAlongRoute ==
    ASSUME RoutesInv, RoutesAreDistinct, IsFiniteSet(Station),
           NEW line \in accepted, NEW r \in DOMAIN line, NEW j \in DOMAIN line[r].stops
    PROVE  LET stops == line[r].stops
               last == Cardinality(Station) + 1
               walk == RouteWalk(line[r].lineId, line[r].id, stops[j])
           IN  /\ Len(stops) \in Nat /\ last \in Nat /\ Len(stops) < last
               /\ \A left \in 0..last : walk[left][stops[j]] = 0
               /\ \A left \in 1..last : \A k \in 1..Len(stops) : k # j =>
                     walk[left][stops[k]] =
                       IF k = Len(stops) THEN NotFound
                       ELSE LET rest == walk[left - 1][stops[k + 1]] IN
                            IF rest < 0 THEN rest ELSE edges[<<stops[k], stops[k + 1]>>].travelTime + rest
<1> DEFINE stops == line[r].stops
           last == Cardinality(Station) + 1
           ahead(s) == Ahead(line[r].lineId, line[r].id, s)
           walk == RouteWalk(line[r].lineId, line[r].id, stops[j])
<1>1. line \in Lines /\ TypeOK
  BY DEF RoutesInv, Inv, TypeOK
<1>2. stops \in Seq(Station) /\ \A m, n \in DOMAIN stops : stops[m] = stops[n] => m = n
  BY <1>1, LinesAssumption
<1>3. Len(stops) \in Nat /\ DOMAIN stops = 1..Len(stops) /\ stops \in [1..Len(stops) -> Station]
  BY <1>2
<1>4. Cardinality(Station) \in Nat /\ Len(stops) <= Cardinality(Station)
  <2>1. stops \in Injection(1..Len(stops), Station)
    BY <1>2, <1>3 DEF Injection, IsInjective
  <2>2. Cardinality(1..Len(stops)) <= Cardinality(Station)
    BY <2>1, FS_Injection
  <2>3. Cardinality(1..Len(stops)) = Len(stops)
    BY <1>3, FS_Interval
  <2> QED BY <2>2, <2>3, FS_CardinalityType
<1>5. \A k \in 1..Len(stops) :
         /\ stops[k] \in Station
         /\ k < Len(stops) => ahead(stops[k]) = {stops[k + 1]}
         /\ k = Len(stops) => ahead(stops[k]) = {}
  <2>1. ASSUME NEW k \in 1..Len(line[r].stops)
        PROVE  line[r].stops[k] \in Station
    BY AcceptedRouteAhead
  <2>2. ASSUME NEW k \in 1..Len(line[r].stops), k < Len(line[r].stops)
        PROVE  Ahead(line[r].lineId, line[r].id, line[r].stops[k]) = {line[r].stops[k + 1]}
    BY <2>2, AcceptedRouteAhead
  <2>3. ASSUME NEW k \in 1..Len(line[r].stops), k = Len(line[r].stops)
        PROVE  Ahead(line[r].lineId, line[r].id, line[r].stops[k]) = {}
    BY <2>3, AcceptedRouteAhead
  <2> QED BY <2>1, <2>2, <2>3
<1>6. \A left \in 0..last : \A s \in Station :
         /\ left = 0 => walk[left][s] = IF s = stops[j] THEN 0 ELSE Endless
         /\ left > 0 => walk[left][s] = OneHop(line[r].lineId, line[r].id, stops[j], s, walk[left - 1])
  BY <1>1, RouteWalkDef
<1> HIDE DEF walk
<1>7. ASSUME NEW left \in 0..last PROVE walk[left][stops[j]] = 0
  <2>1. stops[j] \in Station /\ (left = 0 \/ left > 0)
    BY <1>3, <1>4
  <2> QED BY <1>6, <2>1 DEF OneHop
<1>8. ASSUME NEW left \in 1..last, NEW k \in 1..Len(stops), k # j
      PROVE  walk[left][stops[k]] =
               IF k = Len(stops) THEN NotFound
               ELSE LET rest == walk[left - 1][stops[k + 1]] IN
                    IF rest < 0 THEN rest ELSE edges[<<stops[k], stops[k + 1]>>].travelTime + rest
  <2>1. stops[k] # stops[j]
    BY <1>2, <1>3, <1>8
  <2>2. walk[left][stops[k]] = OneHop(line[r].lineId, line[r].id, stops[j], stops[k], walk[left - 1])
    BY <1>4, <1>5, <1>6
  <2>3. CASE k = Len(stops)
    BY <1>5, <2>1, <2>2, <2>3 DEF OneHop
  <2>4. CASE k # Len(stops)
    <3>1. k < Len(stops)
      BY <1>3, <2>4
    <3>2. ahead(stops[k]) = {stops[k + 1]}
      BY <1>5, <3>1
    <3>3. ahead(stops[k]) # {} /\ (CHOOSE t \in ahead(stops[k]) : TRUE) = stops[k + 1]
      BY <3>2
    <3> QED BY <2>1, <2>2, <2>4, <3>3 DEF OneHop
  <2> QED BY <2>3, <2>4
<1> QED BY <1>3, <1>4, <1>7, <1>8 DEF walk

(* Where routes are distinct, the travel time along an accepted route adds *)
(* up hop by hop, and the search for the next stop ends: it never runs in  *)
(* a circle, for any number of stations, lines and calls.                  *)
THEOREM RouteTimesAddUp ==
    ASSUME RoutesAreDistinct, IsFiniteSet(Station)
    PROVE  Spec => []RouteTimeIsCumulative
<1>1. ASSUME RoutesInv PROVE RouteTimeIsCumulative
  <2> SUFFICES ASSUME NEW line \in accepted, NEW r \in DOMAIN line,
                      NEW i \in DOMAIN line[r].stops, NEW j \in DOMAIN line[r].stops
               PROVE  GetRouteTravelTime(line[r].lineId, line[r].id, line[r].stops[i], line[r].stops[j])
                        = IF i <= j THEN TimeAlong(line[r].stops, i, j) ELSE 0
    BY DEF RouteTimeIsCumulative
  <2> DEFINE stops == line[r].stops
             last == Cardinality(Station) + 1
             walk == RouteWalk(line[r].lineId, line[r].id, stops[j])
             time(k) == edges[<<stops[k], stops[k + 1]>>].travelTime
  <2>1. /\ Len(stops) \in Nat /\ last \in Nat /\ Len(stops) < last
        /\ \A left \in 0..last : walk[left][stops[j]] = 0
        /\ \A left \in 1..last : \A k \in 1..Len(stops) : k # j =>
              walk[left][stops[k]] =
                IF k = Len(stops) THEN NotFound
                ELSE LET rest == walk[left - 1][stops[k + 1]] IN IF rest < 0 THEN rest ELSE time(k) + rest
    BY <1>1, WalkAlongRoute
  <2>11. Len(stops) \in Nat /\ last \in Nat /\ Len(stops) < last
    BY <2>1
  <2>12. \A left \in 1..last : \A k \in 1..Len(stops) : k # j /\ k # Len(stops) =>
           walk[left][stops[k]] = IF walk[left - 1][stops[k + 1]] < 0 THEN walk[left - 1][stops[k + 1]]
                                  ELSE time(k) + walk[left - 1][stops[k + 1]]
    BY <2>1
  <2>2. line \in Lines
    BY <1>1 DEF RoutesInv, Inv, TypeOK
  <2>3. i \in 1..Len(stops) /\ j \in 1..Len(stops)
    BY <2>2, LinesAssumption
  <2>4. \A k \in 1..Len(stops) : k < Len(stops) => time(k) \in Nat
    <3>1. \A k \in 1..Len(stops) : k < Len(stops) => <<stops[k], stops[k + 1]>> \in DOMAIN edges
      BY <1>1, AcceptedRouteAhead
    <3> QED BY <1>1, <3>1 DEF RoutesInv, Inv, TypeOK, Edge
  <2>5. ASSUME NEW k \in 1..j
        PROVE  /\ TimeAlong(stops, k, j) \in Nat
               /\ k = j => TimeAlong(stops, k, j) = 0
               /\ k < j => TimeAlong(stops, k, j) = time(k) + TimeAlong(stops, k + 1, j)
    <3>1. \A m \in k + 1..j : edges[<<stops[m - 1], stops[m]>>].travelTime \in Nat
      <4>1. \A m \in k + 1..j : m - 1 \in 1..Len(stops) /\ m - 1 < Len(stops) /\ (m - 1) + 1 = m
        BY <2>1, <2>3
      <4> QED BY <2>4, <4>1
    <3>2. k \in Nat /\ j \in Nat /\ k <= j
      BY <2>3
    <3> QED BY <3>1, <3>2, TimeAlongFirst
  <2>6. GetRouteTravelTime(line[r].lineId, line[r].id, stops[i], stops[j])
          = IF walk[last][stops[i]] = NotFound THEN 0 ELSE walk[last][stops[i]]
    BY DEF GetRouteTravelTime
  <2> HIDE DEF stops, last, walk, time
  <2>7. ASSUME i <= j PROVE walk[last][stops[i]] = TimeAlong(stops, i, j)
    <3> DEFINE T == {d \in Nat : d < j => \A left \in 0..last : left >= d =>
                                    walk[left][stops[j - d]] = TimeAlong(stops, j - d, j)}
    <3>1. 0 \in T
      BY <2>1, <2>3, <2>5
    <3>2. ASSUME NEW d \in T PROVE d + 1 \in T
      <4>1. ASSUME d + 1 < j, NEW left \in 0..last, left >= d + 1
            PROVE  walk[left][stops[j - (d + 1)]] = TimeAlong(stops, j - (d + 1), j)
        <5> DEFINE k == j - (d + 1)
        <5>1. /\ k \in 1..j /\ k < j /\ k # j /\ k \in 1..Len(stops) /\ k # Len(stops)
              /\ k < Len(stops) /\ k + 1 = j - d /\ k + 1 \in 1..j /\ d < j
              /\ left \in 1..last /\ left - 1 \in 0..last /\ left - 1 >= d
          BY <2>11, <2>3, <4>1
        <5>2. walk[left - 1][stops[j - d]] = TimeAlong(stops, j - d, j)
          BY <5>1
        <5>7. walk[left - 1][stops[k + 1]] = TimeAlong(stops, k + 1, j)
          BY <5>1, <5>2
        <5>3. TimeAlong(stops, k + 1, j) \in Nat /\ time(k) \in Nat
          BY <2>4, <2>5, <5>1
        <5>4. TimeAlong(stops, k, j) = time(k) + TimeAlong(stops, k + 1, j)
          BY <2>5, <5>1
        <5> HIDE DEF k
        <5>5. walk[left][stops[k]] = time(k) + walk[left - 1][stops[k + 1]]
          <6>1. ~(walk[left - 1][stops[k + 1]] < 0)
            BY <5>3, <5>7
          <6> QED BY <2>12, <5>1, <6>1
        <5>6. walk[left][stops[k]] = TimeAlong(stops, k, j)
          BY <5>4, <5>5, <5>7
        <5> QED BY <5>6 DEF k
      <4> QED BY <4>1
    <3>3. T = Nat
      <4> HIDE DEF T
      <4> QED BY <3>1, <3>2, SetInduction DEF T
    <3>4. j - i \in Nat /\ j - i < j /\ j - (j - i) = i /\ last \in 0..last /\ last >= j - i
      BY <2>1, <2>3, <2>7
    <3>5. j - i \in T
      BY <3>3, <3>4
    <3> QED BY <3>4, <3>5
  <2>8. ASSUME i > j PROVE walk[last][stops[i]] = NotFound
    <3> DEFINE len == Len(stops)
               T == {d \in Nat : len - d > j => \A left \in 0..last : left > d =>
                                    walk[left][stops[len - d]] = NotFound}
    <3>1. 0 \in T
      BY <2>1, <2>3
    <3>2. ASSUME NEW d \in T PROVE d + 1 \in T
      <4>1. ASSUME len - (d + 1) > j, NEW left \in 0..last, left > d + 1
            PROVE  walk[left][stops[len - (d + 1)]] = NotFound
        <5> DEFINE k == len - (d + 1)
        <5>1. /\ k \in 1..Len(stops) /\ k # j /\ k # Len(stops) /\ k + 1 = len - d
              /\ left \in 1..last /\ left - 1 \in 0..last /\ left - 1 > d /\ len - d > j
          BY <2>11, <2>3, <4>1
        <5>2. walk[left - 1][stops[len - d]] = NotFound
          BY <5>1
        <5> HIDE DEF k
        <5>4. walk[left - 1][stops[k + 1]] = NotFound
          BY <5>1, <5>2
        <5>3. walk[left][stops[k]] = NotFound
          BY <2>12, <5>1, <5>4 DEF NotFound
        <5> QED BY <5>3 DEF k
      <4> QED BY <4>1
    <3>3. T = Nat
      <4> HIDE DEF T
      <4> QED BY <3>1, <3>2, SetInduction DEF T
    <3>4. len - i \in Nat /\ len - (len - i) = i /\ last \in 0..last /\ last > len - i
      BY <2>1, <2>3, <2>8
    <3>5. len - i \in T
      BY <3>3, <3>4
    <3> QED BY <2>8, <3>4, <3>5
  <2>9. CASE i <= j
    <3>1. i \in 1..j
      BY <2>3, <2>9
    <3>2. TimeAlong(stops, i, j) \in Nat
      BY <2>5, <3>1
    <3> QED BY <2>6, <2>7, <2>9, <3>2 DEF NotFound, stops
  <2>10. CASE i > j
    <3>1. ~(i <= j)
      BY <2>3, <2>10
    <3> QED BY <2>6, <2>8, <2>10, <3>1 DEF NotFound, stops
  <2> QED BY <2>3, <2>9, <2>10
<1> QED BY RoutesInvHolds, <1>1, PTL
-----------------------------------------------------------------------------
(* The graph implements NetworkAPI.                                        *)

(* The hop of the interface that a hop of a line stands for.               *)
HopOf(line, h) == [route |-> line[h[1]].id, from |-> Ends(line, h)[1], to |-> Ends(line, h)[2]]

LEMMA HopsCorrespond ==
    ASSUME NEW line \in Lines
    PROVE  API!HopsOf(line) = {HopOf(line, h) : h \in Hops(line)}
<1> DEFINE onRoute(r) == {[route |-> line[r].id, from |-> line[r].stops[i - 1],
                           to |-> line[r].stops[i]] : i \in 2..Len(line[r].stops)}
<1>1. API!HopsOf(line) = UNION {onRoute(r) : r \in DOMAIN line}
  BY DEF API!HopsOf
<1>2. ASSUME NEW x \in API!HopsOf(line) PROVE x \in {HopOf(line, h) : h \in Hops(line)}
  <2>1. PICK r \in DOMAIN line : x \in onRoute(r)
    BY <1>1
  <2>2. PICK i \in 2..Len(line[r].stops) :
           x = [route |-> line[r].id, from |-> line[r].stops[i - 1], to |-> line[r].stops[i]]
    BY <2>1
  <2>3. <<r, i>> \in Hops(line) /\ x = HopOf(line, <<r, i>>)
    BY <2>2 DEF Hops, HopOf, Ends
  <2> QED BY <2>3
<1>3. ASSUME NEW h \in Hops(line) PROVE HopOf(line, h) \in API!HopsOf(line)
  <2>1. PICK r \in DOMAIN line : h \in {r} \X (2..Len(line[r].stops))
    BY DEF Hops
  <2>2. h[1] = r /\ h[2] \in 2..Len(line[r].stops)
    BY <2>1
  <2>3. HopOf(line, h) \in onRoute(r)
    BY <2>2 DEF HopOf, Ends
  <2> QED BY <1>1, <2>3
<1> QED BY <1>2, <1>3

(* A route serves a station that an edge with the route leads away from,   *)
(* or one that knows of the edge.                                          *)
LEMMA ServingFacts ==
    ASSUME NEW s, NEW id
    PROVE  id \in GetRoutesServingStation(s)
             <=> \E e : /\ (e \in DOMAIN edges /\ e[1] = s) \/ (e \in incoming /\ e[2] = s)
                        /\ \E label \in edges[e].routes : id = label[2]
  BY DEF GetRoutesServingStation

LEMMA ServingFactsNext ==
    ASSUME NEW s \in Station, NEW id
    PROVE  id \in GetRoutesServingStation(s)'
             <=> \E e : /\ (e \in DOMAIN edges' /\ e[1] = s) \/ (e \in incoming' /\ e[2] = s)
                        /\ \E label \in edges'[e].routes : id = label[2]
  BY DEF GetRoutesServingStation

(* Adding hops to the graph connects the hops they stand for, and sets no  *)
(* travel time. The far ends that are told are those that are known.       *)
LEMMA HopsConnect ==
    ASSUME Inv, status = "running",
           NEW line \in Lines, NEW hops \in SUBSET Hops(line), NEW told \in SUBSET hops,
           \A h \in hops : /\ Ends(line, h)[1] \in stationIdToNode
                           /\ h \in told <=> Ends(line, h)[2] \in stationIdToNode,
           edges' = WithHops(line, hops),
           incoming' = incoming \union Incoming(line, told), UNCHANGED passengers
    PROVE  API!Connect({HopOf(line, h) : h \in hops})
<1> DEFINE part == {HopOf(line, h) : h \in hops}
           adjacent == DOMAIN edges \union {<<e[2], e[1]>> : e \in DOMAIN edges}
<1>1. /\ DOMAIN edges' = DOMAIN edges \union Incoming(line, hops)
      /\ \A e \in DOMAIN edges' : edges'[e].travelTime = EdgeAt(e).travelTime
  BY WithHopsFacts DEF Inv
<1>9. \A h \in hops : /\ HopOf(line, h).from = Ends(line, h)[1]
                      /\ HopOf(line, h).to = Ends(line, h)[2]
                      /\ <<Ends(line, h)[1], Ends(line, h)[2]>> = Ends(line, h)
  BY DEF HopOf, Ends
<1>2. Incoming(line, hops) = {<<h.from, h.to>> : h \in part}
  <2>1. \A h \in hops : <<HopOf(line, h).from, HopOf(line, h).to>> = Ends(line, h)
    BY <1>9
  <2> QED BY <2>1 DEF Incoming
<1>3. {<<e[2], e[1]>> : e \in Incoming(line, hops)} = {<<h.to, h.from>> : h \in part}
  <2>1. \A h \in hops : <<HopOf(line, h).to, HopOf(line, h).from>>
                          = <<Ends(line, h)[2], Ends(line, h)[1]>>
    BY <1>9
  <2> QED BY <2>1 DEF Incoming
<1>4. adjacent' = adjacent \union {<<h.from, h.to>> : h \in part}
                           \union {<<h.to, h.from>> : h \in part}
  BY <1>1, <1>2, <1>3
<1>12. /\ incoming = DOMAIN edges
       /\ \A e \in DOMAIN edges : e[1] \in stationIdToNode /\ e[2] \in stationIdToNode
  BY DEF Inv, GraphIsConsistent
<1>5. ASSUME NEW s \in Station
      PROVE  GetRoutesServingStation(s)'
               = GetRoutesServingStation(s)
                   \union {h.route : h \in {g \in part : s \in DOMAIN passengers \intersect {g.from, g.to}}}
  <2>1. ASSUME NEW e \in DOMAIN edges'
        PROVE  edges'[e].routes = EdgeAt(e).routes
                 \union {HopLabel(line, h) : h \in {g \in hops : Ends(line, g) = e}}
    BY <1>1 DEF WithHops, EdgeAt, Inv, TypeOK, Edge
  <2>2. \A h \in hops : HopLabel(line, h)[2] = HopOf(line, h).route
    BY DEF HopLabel, Label, HopOf
  <2>7. incoming' \subseteq DOMAIN edges'
        /\ \A e \in incoming' : e[2] \in stationIdToNode
    BY <1>1, <1>12 DEF Incoming
  <2>3. ASSUME NEW id \in GetRoutesServingStation(s)'
        PROVE  id \in GetRoutesServingStation(s)
                 \union {h.route : h \in {g \in part : s \in DOMAIN passengers \intersect {g.from, g.to}}}
    <3>1. PICK e : /\ (e \in DOMAIN edges' /\ e[1] = s) \/ (e \in incoming' /\ e[2] = s)
                   /\ \E label \in edges'[e].routes : id = label[2]
      BY <2>3, ServingFactsNext
    <3>5. e \in DOMAIN edges'
      BY <2>7, <3>1
    <3>2. PICK label \in edges'[e].routes : id = label[2]
      BY <3>1
    <3>3. CASE label \in EdgeAt(e).routes
      <4>1. e \in DOMAIN edges /\ label \in edges[e].routes
        BY <3>3 DEF EdgeAt
      <4>2. id \in GetRoutesServingStation(s)
        BY <1>12, <3>1, <3>2, <4>1, ServingFacts
      <4> QED BY <4>2
    <3>4. CASE \E h \in hops : Ends(line, h) = e /\ label = HopLabel(line, h)
      <4>1. PICK h \in hops : Ends(line, h) = e /\ label = HopLabel(line, h)
        BY <3>4
      <4>3. s \in DOMAIN passengers
        BY <2>7, <3>1, <4>1 DEF stationIdToNode
      <4>2. HopOf(line, h) \in {g \in part : s \in DOMAIN passengers \intersect {g.from, g.to}}
        BY <3>1, <4>1, <4>3 DEF HopOf
      <4> QED BY <2>2, <3>2, <4>1, <4>2
    <3> QED BY <2>1, <3>2, <3>3, <3>4, <3>5
  <2>4. ASSUME NEW id \in GetRoutesServingStation(s)
        PROVE  id \in GetRoutesServingStation(s)'
    <3>1. PICK e : /\ (e \in DOMAIN edges /\ e[1] = s) \/ (e \in incoming /\ e[2] = s)
                   /\ \E label \in edges[e].routes : id = label[2]
      BY <2>4, ServingFacts
    <3>2. e \in DOMAIN edges' /\ \A label \in edges[e].routes : label \in edges'[e].routes
      BY <1>1, <1>12, <2>1, <3>1 DEF EdgeAt
    <3> QED BY <3>1, <3>2, ServingFactsNext
  <2>5. ASSUME NEW h \in hops, s \in stationIdToNode, s = Ends(line, h)[1] \/ s = Ends(line, h)[2]
        PROVE  HopOf(line, h).route \in GetRoutesServingStation(s)'
    <3>1. /\ Ends(line, h) \in DOMAIN edges'
          /\ HopLabel(line, h) \in edges'[Ends(line, h)].routes
      BY <1>1, <2>1 DEF Incoming
    <3>2. s = Ends(line, h)[2] => Ends(line, h) \in incoming'
      BY <2>5 DEF Incoming
    <3> QED BY <2>2, <2>5, <3>1, <3>2, ServingFactsNext
  <2>6. ASSUME NEW g \in part, s \in DOMAIN passengers \intersect {g.from, g.to}
        PROVE  g.route \in GetRoutesServingStation(s)'
    <3>1. PICK h \in hops : g = HopOf(line, h)
      BY <2>6
    <3>2. s = Ends(line, h)[1] \/ s = Ends(line, h)[2]
      BY <2>6, <3>1 DEF HopOf
    <3> QED BY <2>5, <2>6, <3>1, <3>2 DEF stationIdToNode
  <2> QED BY <2>3, <2>4, <2>6
<1>6. \A a, b \in Station : GetTravelTime(a, b)' = GetTravelTime(a, b)
  <2>1. \A a, b \in Station : GetTravelTimeDirectional(a, b)' = GetTravelTimeDirectional(a, b)
    BY <1>1 DEF GetTravelTimeDirectional, EdgeAt
  <2> QED BY <2>1 DEF GetTravelTime
<1>7. [p \in Station \X Station |-> GetTravelTime(p[1], p[2])]'
        = [p \in Station \X Station |-> GetTravelTime(p[1], p[2])]
  BY <1>6
<1>8. [s \in Station |-> GetRoutesServingStation(s)]'
        = [s \in Station |-> [x \in Station |-> GetRoutesServingStation(x)][s]
             \union {h.route : h \in {g \in part : s \in DOMAIN passengers \intersect {g.from, g.to}}}]
  BY <1>5
<1>10. passengers' = passengers
  OBVIOUS
<1> HIDE DEF part
<1>11. API!Connect(part)
  BY <1>4, <1>7, <1>8, <1>10, Zenon DEF API!Connect, API!Known
<1> QED BY <1>11 DEF part

LEMMA InitMapped == Init => API!Init
<1> SUFFICES ASSUME Init PROVE API!Init
  OBVIOUS
<1>1. DOMAIN edges = {} /\ incoming = {}
  BY DEF Init
<1>2. DOMAIN edges \union {<<e[2], e[1]>> : e \in DOMAIN edges} = {}
  BY <1>1
<1>3. \A a, b \in Station : GetTravelTime(a, b) = 0
  BY <1>1 DEF GetTravelTime, GetTravelTimeDirectional
<1>4. \A s \in Station : GetRoutesServingStation(s) = {}
  BY <1>1 DEF GetRoutesServingStation
<1>5. [p \in Station \X Station |-> GetTravelTime(p[1], p[2])] = [p \in Station \X Station |-> 0]
  BY <1>3
<1>6. [s \in Station |-> GetRoutesServingStation(s)] = [s \in Station |-> {}]
  BY <1>4
<1>7. passengers = [s \in {} |-> 0] /\ (status = "running") = TRUE /\ result = TRUE /\ call = <<"none">>
  BY DEF Init
<1> QED BY <1>2, <1>5, <1>6, <1>7, Zenon DEF API!Init

(* What the caller sees of the graph follows from the graph alone.         *)
LEMMA GraphUnchanged ==
    ASSUME UNCHANGED <<edges, incoming, status>>
    PROVE  /\ UNCHANGED (DOMAIN edges \union {<<e[2], e[1]>> : e \in DOMAIN edges})
           /\ UNCHANGED [p \in Station \X Station |-> GetTravelTime(p[1], p[2])]
           /\ UNCHANGED [s \in Station |-> GetRoutesServingStation(s)]
           /\ UNCHANGED (status = "running")
  BY DEF GetTravelTime, GetTravelTimeDirectional, GetRoutesServingStation

LEMMA AddStationMapped ==
    ASSUME NEW s \in Station, AddStation(s)
    PROVE  API!AddStation(s)
<1>1. UNCHANGED <<edges, incoming, status>> /\ (status = "running") = TRUE
  BY DEF AddStation
<1>2. /\ call' = <<"AddStation", s>>
      /\ result' = (s \notin DOMAIN passengers)
      /\ passengers' = [x \in DOMAIN passengers \union {s} |->
                          IF x \in DOMAIN passengers THEN passengers[x] ELSE 0]
  BY DEF AddStation, stationIdToNode
<1> QED BY <1>1, <1>2, GraphUnchanged, Zenon DEF API!AddStation, API!Known

LEMMA RecordPassengerEventMapped ==
    ASSUME NEW s \in Station, NEW by \in {1, -1}, RecordPassengerEvent(s, by)
    PROVE  API!RecordPassenger(s, by)
<1>1. UNCHANGED <<edges, incoming, status>> /\ (status = "running") = TRUE
  BY DEF RecordPassengerEvent, Recorded
<1>2. /\ call' = <<"RecordPassengerEvent", s, by>>
      /\ result' = (s \in DOMAIN passengers)
      /\ passengers' = [x \in DOMAIN passengers |->
                          IF x = s THEN passengers[x] + by ELSE passengers[x]]
      /\ s \in DOMAIN passengers => passengers[s] + by \in -MaxPassengers..MaxPassengers
  BY DEF RecordPassengerEvent, Recorded, stationIdToNode
<1> QED BY <1>1, <1>2, GraphUnchanged, Zenon DEF API!RecordPassenger, API!Known

(* A travel time set on the edges there and back is the time of the pair,  *)
(* also where only one of them exists: the other direction counts as 0.    *)
LEMMA SetTravelTimeMapped ==
    ASSUME Inv, NEW a \in Station, NEW b \in Station, NEW t \in Times, SetTravelTime(a, b, t)
    PROVE  API!SetTravelTime(a, b, t)
<1> DEFINE adjacent == DOMAIN edges \union {<<e[2], e[1]>> : e \in DOMAIN edges}
           time == [p \in Station \X Station |-> GetTravelTime(p[1], p[2])]
<1>1. /\ DOMAIN edges' = DOMAIN edges
      /\ \A e \in DOMAIN edges : edges'[e].travelTime
            = IF e \in EdgesBetween(a, b) THEN t ELSE edges[e].travelTime
      /\ \A e \in DOMAIN edges : edges'[e].routes = edges[e].routes
  BY TimesAssumption DEF SetTravelTime, Inv, TypeOK, Edge
<1>2. UNCHANGED <<incoming, status, passengers>> /\ (status = "running") = TRUE
  BY DEF SetTravelTime
<1>3. \A x, y \in Station : <<x, y>> \in adjacent <=> <<x, y>> \in DOMAIN edges \/ <<y, x>> \in DOMAIN edges
  BY DEF Inv, TypeOK
<1>4. result' = (<<a, b>> \in adjacent)
  <2>1. result' = (EdgesBetween(a, b) # {})
    BY DEF SetTravelTime
  <2>2. EdgesBetween(a, b) # {} <=> <<a, b>> \in DOMAIN edges \/ <<b, a>> \in DOMAIN edges
    BY DEF EdgesBetween
  <2>3. (EdgesBetween(a, b) # {}) = (<<a, b>> \in adjacent)
    BY <1>3, <2>2
  <2> QED BY <2>1, <2>3
<1>5. ASSUME NEW x \in Station, NEW y \in Station
      PROVE  GetTravelTime(x, y)'
               = IF <<x, y>> \in {<<a, b>>, <<b, a>>} \intersect adjacent THEN t
                 ELSE GetTravelTime(x, y)
  <2>1. t \in Nat /\ \A e \in DOMAIN edges : edges[e].travelTime \in Nat
    BY TimesAssumption DEF Inv, TypeOK, Edge
  <2>2. \A e \in DOMAIN edges : e[1] # e[2]
    BY <1>2 DEF Inv, GraphIsConsistent
  <2>3. CASE <<x, y>> \in {<<a, b>>, <<b, a>>}
    <3>1. /\ <<x, y>> \in EdgesBetween(a, b) <=> <<x, y>> \in DOMAIN edges
          /\ <<y, x>> \in EdgesBetween(a, b) <=> <<y, x>> \in DOMAIN edges
      BY <2>3 DEF EdgesBetween
    <3>2. /\ GetTravelTimeDirectional(x, y)' = IF <<x, y>> \in DOMAIN edges THEN t ELSE 0
          /\ GetTravelTimeDirectional(y, x)' = IF <<y, x>> \in DOMAIN edges THEN t ELSE 0
      BY <1>1, <2>2, <3>1 DEF GetTravelTimeDirectional
    <3>3. <<x, y>> \notin adjacent => GetTravelTime(x, y) = 0
      BY <1>3 DEF GetTravelTime, GetTravelTimeDirectional
    <3> QED BY <1>3, <2>1, <2>3, <3>2, <3>3 DEF GetTravelTime
  <2>4. CASE <<x, y>> \notin {<<a, b>>, <<b, a>>}
    <3>1. <<x, y>> \notin EdgesBetween(a, b) /\ <<y, x>> \notin EdgesBetween(a, b)
      BY <2>4 DEF EdgesBetween
    <3>2. /\ GetTravelTimeDirectional(x, y)' = GetTravelTimeDirectional(x, y)
          /\ GetTravelTimeDirectional(y, x)' = GetTravelTimeDirectional(y, x)
      BY <1>1, <3>1 DEF GetTravelTimeDirectional
    <3> QED BY <2>4, <3>2 DEF GetTravelTime
  <2> QED BY <2>3, <2>4
<1>6. time' = [p \in Station \X Station |->
                 IF p \in {<<a, b>>, <<b, a>>} \intersect adjacent THEN t ELSE time[p]]
  <2>1. \A p \in Station \X Station : p = <<p[1], p[2]>> /\ p[1] \in Station /\ p[2] \in Station
    OBVIOUS
  <2>2. \A p \in Station \X Station :
           GetTravelTime(p[1], p[2])'
             = IF p \in {<<a, b>>, <<b, a>>} \intersect adjacent THEN t ELSE GetTravelTime(p[1], p[2])
    BY <1>5, <2>1
  <2> QED BY <2>2
<1>7. \A s \in Station : GetRoutesServingStation(s)' = GetRoutesServingStation(s)
  BY <1>1, <1>2 DEF Inv, GraphIsConsistent, GetRoutesServingStation
<1>8. [s \in Station |-> GetRoutesServingStation(s)]' = [s \in Station |-> GetRoutesServingStation(s)]
  BY <1>7
<1>9. adjacent' = adjacent
  BY <1>1
<1> HIDE DEF adjacent, time
<1>10. /\ (status = "running") = TRUE /\ (status = "running")' = (status = "running")
       /\ passengers' = passengers /\ call' = <<"SetTravelTime", a, b, t>>
  BY <1>2 DEF SetTravelTime
<1> USE DEF adjacent, time
<1> QED BY <1>4, <1>6, <1>8, <1>9, <1>10, Zenon DEF API!SetTravelTime

LEMMA AddLineMapped ==
    ASSUME Inv, NEW line \in Lines, AddLine(line)
    PROVE  API!AcceptLine(line)
<1>1. API!Connect({HopOf(line, h) : h \in Hops(line)})
  BY HopsConnect, SucceedingKnown DEF AddLine
<1>2. API!Connect(API!HopsOf(line))
  BY <1>1, HopsCorrespond
<1>3. \A h \in Hops(line) : /\ HopOf(line, h).from \in DOMAIN passengers
                            /\ HopOf(line, h).to \in DOMAIN passengers
  BY SucceedingKnown DEF AddLine, HopOf, stationIdToNode
<1>4. \A g \in API!HopsOf(line) : g.from \in DOMAIN passengers /\ g.to \in DOMAIN passengers
  BY <1>3, HopsCorrespond
<1>5. /\ (status = "running") = TRUE /\ (status = "running")' = (status = "running")
      /\ result' = TRUE /\ call' = <<"AddLine", line>>
  BY DEF AddLine
<1> QED BY <1>2, <1>4, <1>5, Zenon DEF API!AcceptLine, API!Known

(* The hop AddLine stops at is one the interface allows to be refused.     *)
LEMMA AddLineRejectedMapped ==
    ASSUME Inv, NEW line \in Lines, NEW h \in Hops(line), AddLineRejected(line, h)
    PROVE  API!RejectLine(line)
<1> DEFINE hops == HopsBefore(line, h)
           part == {HopOf(line, g) : g \in hops}
<1>1. hops \in SUBSET Hops(line)
  BY DEF HopsBefore
<1>2. API!Connect(part)
  BY <1>1, HopsConnect, SucceedingKnown DEF AddLineRejected
<1>3. \A g \in hops : /\ HopOf(line, g).from \in DOMAIN passengers
                      /\ HopOf(line, g).to \in DOMAIN passengers
  BY <1>1, SucceedingKnown DEF AddLineRejected, HopOf, stationIdToNode
<1>4. part \in SUBSET API!HopsOf(line) /\ HopOf(line, h) \in API!HopsOf(line)
  BY <1>1, HopsCorrespond
<1>5. \A g \in part : g.from \in DOMAIN passengers /\ g.to \in DOMAIN passengers
  BY <1>3
<1> DEFINE refused == HopOf(line, h)
<1>6. refused.from \notin DOMAIN passengers \/ API!IsIn(refused) \/ API!RouteTwice(line)
  <2>1. /\ refused.from = Ends(line, h)[1] /\ refused.to = Ends(line, h)[2]
        /\ <<refused.from, refused.to>> = Ends(line, h)
        /\ refused.route = line[h[1]].id /\ HopLabel(line, h)[2] = refused.route
        /\ refused.from \in Station /\ refused.to \in Station
    BY HopFacts DEF HopOf, Ends, HopLabel, Label
  <2>2. \/ Ends(line, h)[1] \notin stationIdToNode
        \/ Ends(line, h) \in DOMAIN edges /\ HopLabel(line, h) \in edges[Ends(line, h)].routes
        \/ \E g \in Hops(line) : /\ Before(g, h) /\ Ends(line, g) = Ends(line, h)
                                 /\ HopLabel(line, g) = HopLabel(line, h)
    BY DEF AddLineRejected, Rejects, HasRoute, HopLabel, Label
  <2>3. ASSUME Ends(line, h) \in DOMAIN edges, HopLabel(line, h) \in edges[Ends(line, h)].routes
        PROVE  API!IsIn(refused)
    <3>1. incoming = DOMAIN edges
      BY DEF AddLineRejected, Inv, GraphIsConsistent
    <3>2. \A s \in Station : s = Ends(line, h)[1] \/ s = Ends(line, h)[2] =>
             HopLabel(line, h)[2] \in GetRoutesServingStation(s)
      BY <2>3, <3>1, ServingFacts
    <3>3. /\ <<refused.from, refused.to>> \in DOMAIN edges \union {<<e[2], e[1]>> : e \in DOMAIN edges}
          /\ refused.route \in [s \in Station |-> GetRoutesServingStation(s)][refused.from]
          /\ refused.route \in [s \in Station |-> GetRoutesServingStation(s)][refused.to]
      BY <2>1, <2>3, <3>2
    <3> HIDE DEF refused
    <3> QED BY <3>3 DEF API!IsIn
  <2>4. ASSUME NEW g \in Hops(line), Before(g, h), Ends(line, g) = Ends(line, h),
               HopLabel(line, g) = HopLabel(line, h)
        PROVE  API!RouteTwice(line)
    <3>1. /\ g[1] \in DOMAIN line /\ g[2] \in 2..Len(line[g[1]].stops)
          /\ h[1] \in DOMAIN line /\ h[2] \in 2..Len(line[h[1]].stops)
      BY DEF Hops
    <3>2. line[g[1]].id = line[h[1]].id
      BY <2>4 DEF HopLabel, Label
    <3>3. g[1] # h[1]
      <4> SUFFICES ASSUME g[1] = h[1] PROVE FALSE
        OBVIOUS
      <4>1. /\ line[h[1]].stops \in Seq(Station)
            /\ \A i, j \in DOMAIN line[h[1]].stops :
                  line[h[1]].stops[i] = line[h[1]].stops[j] => i = j
        BY <3>1, LinesAssumption
      <4>2. line[h[1]].stops[g[2]] = line[h[1]].stops[h[2]]
        BY <2>4 DEF Ends
      <4>3. g[2] \in DOMAIN line[h[1]].stops /\ h[2] \in DOMAIN line[h[1]].stops
        BY <3>1, <4>1
      <4>4. g[2] = h[2]
        BY <4>1, <4>2, <4>3
      <4>5. DOMAIN line = 1..Len(line)
        BY LinesAssumption
      <4> QED BY <2>4, <3>1, <4>4, <4>5 DEF Before
    <3> QED BY <3>1, <3>2, <3>3 DEF API!RouteTwice
  <2> QED BY <2>1, <2>2, <2>3, <2>4 DEF stationIdToNode
<1>7. /\ (status = "running") = TRUE /\ (status = "running")' = (status = "running")
      /\ result' = FALSE /\ call' = <<"AddLine", line>>
  BY DEF AddLineRejected
<1> HIDE DEF part
<1>8. \/ \E g \in API!HopsOf(line) : g.from \notin DOMAIN passengers \/ API!IsIn(g)
      \/ API!RouteTwice(line)
  BY <1>4, <1>6
<1> QED BY <1>2, <1>4, <1>5, <1>7, <1>8, Zenon DEF API!RejectLine, API!Known

(* A hop that crashes leads to an unknown stop, which is not told of it.   *)
LEMMA AddLineCrashMapped ==
    ASSUME Inv, NEW line \in Lines, NEW h \in Hops(line), AddLineCrash(line, h)
    PROVE  API!CrashOnLine(line)
<1> DEFINE hops == HopsBefore(line, h) \union {h}
           part == {HopOf(line, g) : g \in hops}
<1>1. /\ hops \in SUBSET Hops(line) /\ HopsBefore(line, h) \in SUBSET hops
      /\ HopsBefore(line, h) \in SUBSET Hops(line) /\ h \notin HopsBefore(line, h)
  BY HopsBeforeLead
<1>2. /\ Ends(line, h)[1] \in stationIdToNode /\ Ends(line, h)[2] \notin stationIdToNode
      /\ \A g \in HopsBefore(line, h) : /\ Ends(line, g)[1] \in stationIdToNode
                                        /\ Ends(line, g)[2] \in stationIdToNode
  BY <1>1, SucceedingKnown DEF AddLineCrash, Crashes, Rejects
<1>3. API!Connect(part)
  BY <1>1, <1>2, HopsConnect DEF AddLineCrash
<1>4. part \in SUBSET API!HopsOf(line) /\ HopOf(line, h) \in API!HopsOf(line)
  BY <1>1, HopsCorrespond
<1>5. /\ HopOf(line, h).to \notin DOMAIN passengers
      /\ \A g \in part : g.from \in DOMAIN passengers
  BY <1>2 DEF HopOf, stationIdToNode
<1>6. /\ (status = "running") = TRUE /\ (status = "running")' = FALSE
      /\ result' = result /\ call' = <<"AddLine", line>>
  BY DEF AddLineCrash
<1> HIDE DEF part
<1> QED BY <1>3, <1>4, <1>5, <1>6, Zenon DEF API!CrashOnLine, API!Known

(* The network implements its interface: callers see one travel time for   *)
(* each pair of adjacent stations, counts that only passenger events       *)
(* change, and lines that are refused only for a stop that is not known,   *)
(* or a route that was there before the call or is twice in the line.      *)
THEOREM NetworkImplementsAPI == Spec => ImplementsAPI
<1>1. ASSUME Inv, [Next]_vars PROVE [API!Next]_(API!vars)
  <2>1. ASSUME NEW s \in Station, AddStation(s) PROVE API!Next
    BY <2>1, AddStationMapped DEF API!Next
  <2>2. ASSUME NEW line \in Lines, AddLine(line) PROVE API!Next
    BY <1>1, <2>2, AddLineMapped DEF API!Next
  <2>3. ASSUME NEW line \in Lines, NEW h \in Hops(line), AddLineRejected(line, h) PROVE API!Next
    BY <1>1, <2>3, AddLineRejectedMapped DEF API!Next
  <2>4. ASSUME NEW line \in Lines, NEW h \in Hops(line), AddLineCrash(line, h) PROVE API!Next
    BY <1>1, <2>4, AddLineCrashMapped DEF API!Next
  <2>5. ASSUME NEW s \in Station, NEW by \in {1, -1}, RecordPassengerEvent(s, by) PROVE API!Next
    BY <2>5, RecordPassengerEventMapped DEF API!Next
  <2>6. ASSUME NEW a \in Station, NEW b \in Station, NEW t \in Times, SetTravelTime(a, b, t)
        PROVE  API!Next
    BY <1>1, <2>6, SetTravelTimeMapped DEF API!Next
  <2>7. CASE UNCHANGED vars
    <3>1. UNCHANGED <<edges, incoming, status>> /\ UNCHANGED <<passengers, call, result>>
      BY <2>7 DEF vars
    <3>2. UNCHANGED API!vars
      BY <3>1, GraphUnchanged, Zenon DEF API!vars
    <3> QED BY <3>2
  <2> QED BY <1>1, <2>1, <2>2, <2>3, <2>4, <2>5, <2>6, <2>7 DEF Next
<1>2. ImplementsAPI <=> API!Init /\ [][API!Next]_(API!vars)
  BY DEF ImplementsAPI, API!Spec
<1> QED BY InitInv, NextInv, InitMapped, <1>1, <1>2, PTL DEF Spec
-----------------------------------------------------------------------------
(* Loading.                                                                *)

(* Concatenation, for steps that only need its name.                       *)
Joined(s, t) == s \o t

LEMMA JoinedIsSeq ==
    ASSUME NEW S, NEW s \in Seq(S), NEW t \in Seq(S)
    PROVE  Joined(s, t) \in Seq(S) /\ Joined(<<>>, t) = t
  BY DEF Joined

(* Sequences joined by FlattenSeq, one after the other.                    *)
Joins(x, seqs) ==
    /\ x[1] = seqs[1]
    /\ \A k \in 2..Len(seqs) : x[k] = Joined(x[k - 1], seqs[k])

(* The function by which FlattenSeq is defined exists.                     *)
LEMMA FlattenJoins ==
    ASSUME NEW S, NEW seqs \in Seq(Seq(S)), Len(seqs) # 0
    PROVE  \E x \in [1..Len(seqs) -> Seq(S)] :
              Joins(x, seqs) /\ FlattenSeq(seqs) = x[Len(seqs)]
<1> DEFINE n == Len(seqs)
           step == [p \in Nat \X Seq(S) |-> IF p[1] \in 1..n THEN Joined(p[2], seqs[p[1]]) ELSE <<>>]
           Body(g) == [i \in 1..n |-> IF i = 1 THEN seqs[1] ELSE Joined(g[i - 1], seqs[i])]
<1>1. n \in Nat /\ n >= 1 /\ \A i \in 1..n : seqs[i] \in Seq(S)
  OBVIOUS
<1>4. <<>> \in Seq(S)
  OBVIOUS
<1>2. step \in [Nat \X Seq(S) -> Seq(S)]
  <2>1. ASSUME NEW p \in Nat \X Seq(S)
        PROVE  (IF p[1] \in 1..n THEN Joined(p[2], seqs[p[1]]) ELSE <<>>) \in Seq(S)
    <3>1. p[2] \in Seq(S)
      OBVIOUS
    <3>2. CASE p[1] \in 1..n
      BY <1>1, <3>1, <3>2, JoinedIsSeq
    <3> QED BY <1>4, <3>2
  <2> QED BY <2>1
<1>3. \A k \in 1..n : \A s \in Seq(S) : step[<<k, s>>] = Joined(s, seqs[k])
  BY <1>1
<1>12. \A g, i : i \in 1..n => Body(g)[i] = IF i = 1 THEN seqs[1] ELSE Joined(g[i - 1], seqs[i])
  OBVIOUS
<1>13. \A g : Body(g) = [i \in 1..n |-> Body(g)[i]]
  OBVIOUS
<1>9. FlattenSeq(seqs) = (CHOOSE g : g = Body(g))[n]
  BY DEF FlattenSeq, Joined
<1> HIDE DEF step, n, Body
<1>5. PICK f : Iterates(f, Seq(S), <<>>, step, n)
  BY <1>1, <1>2, <1>4, RecursionExists
<1>6. f \in [0..n -> Seq(S)] /\ f[0] = <<>> /\ \A k \in 1..n : f[k] = Joined(f[k - 1], seqs[k])
  <2>1. f \in [0..n -> Seq(S)] /\ f[0] = <<>>
    BY <1>5 DEF Iterates
  <2>2. ASSUME NEW k \in 1..n PROVE f[k] = Joined(f[k - 1], seqs[k])
    <3>1. f[k - 1] \in Seq(S) /\ f[k] = step[<<k, f[k - 1]>>]
      BY <1>1, <1>5, <2>1 DEF Iterates
    <3> QED BY <1>3, <3>1
  <2> QED BY <2>1, <2>2
<1> DEFINE h == [i \in 1..n |-> f[i]]
<1>7. h = Body(h)
  <2>1. h[1] = seqs[1]
    <3>1. 1 \in 1..n /\ f[1] = Joined(<<>>, seqs[1]) /\ seqs[1] \in Seq(S)
      BY <1>1, <1>6
    <3> QED BY <3>1, JoinedIsSeq
  <2>2. ASSUME NEW i \in 1..n PROVE h[i] = Body(h)[i]
    <3>1. CASE i = 1
      BY <1>12, <2>1, <3>1
    <3>2. CASE i # 1
      <4>1. i - 1 \in 1..n /\ f[i] = Joined(f[i - 1], seqs[i])
        BY <1>1, <1>6, <3>2
      <4>2. h[i] = Joined(h[i - 1], seqs[i])
        BY <4>1
      <4> QED BY <1>12, <3>2, <4>2
    <3> QED BY <3>1, <3>2
  <2>3. h = [i \in 1..n |-> h[i]]
    OBVIOUS
  <2> HIDE DEF h
  <2>4. h = [i \in 1..n |-> Body(h)[i]]
    BY <2>2, <2>3
  <2> QED BY <1>13, <2>4
<1> DEFINE x == CHOOSE g : g = Body(g)
<1>8. x = Body(x)
  <2> HIDE DEF h
  <2> QED BY <1>7, Zenon
<1> HIDE DEF x
<1>10. Joins(x, seqs)
  <2>1. x[1] = seqs[1]
    BY <1>1, <1>8, <1>12
  <2>2. ASSUME NEW k \in 2..n PROVE x[k] = Joined(x[k - 1], seqs[k])
    <3>1. k \in 1..n /\ k # 1
      BY <1>1
    <3> QED BY <1>8, <1>12, <3>1
  <2> QED BY <2>1, <2>2 DEF Joins, n
<1>11. x \in [1..n -> Seq(S)]
  <2> DEFINE T == {k \in Nat : k + 1 \in 1..n => x[k + 1] \in Seq(S)}
  <2>1. 0 \in T
    BY <1>1, <1>10 DEF Joins
  <2>2. ASSUME NEW k \in T PROVE k + 1 \in T
    <3>1. ASSUME k + 1 + 1 \in 1..n PROVE x[k + 1 + 1] \in Seq(S)
      <4>1. /\ k + 1 \in 1..n /\ k + 1 + 1 \in 2..n /\ k + 1 + 1 - 1 = k + 1
        BY <1>1, <3>1
      <4>2. x[k + 1] \in Seq(S) /\ seqs[k + 1 + 1] \in Seq(S)
        BY <1>1, <3>1, <4>1
      <4>3. x[k + 1 + 1] = Joined(x[k + 1], seqs[k + 1 + 1])
        BY <1>10, <4>1 DEF Joins, n
      <4> QED BY <4>2, <4>3, JoinedIsSeq
    <3> QED BY <3>1
  <2>3. T = Nat
    <3> HIDE DEF T
    <3> QED BY <2>1, <2>2, SetInduction DEF T
  <2>4. ASSUME NEW k \in 1..n PROVE x[k] \in Seq(S)
    <3>1. k - 1 \in Nat /\ k - 1 + 1 = k
      BY <1>1
    <3>2. k - 1 \in T
      BY <2>3, <3>1
    <3> QED BY <3>1, <3>2
  <2> QED BY <1>8, <1>13, <2>4
<1> QED BY <1>9, <1>10, <1>11 DEF x, n

(* No two routes of a sequence have both ids in common.                    *)
Distinct(s) == \A p, q \in DOMAIN s : Label(s[p]) = Label(s[q]) => p = q

LEMMA JoinedFacts ==
    ASSUME NEW S, NEW s \in Seq(S), NEW t \in Seq(S)
    PROVE  /\ ToSet(Joined(s, t)) = ToSet(s) \union ToSet(t)
           /\ Distinct(s) /\ Distinct(t)
              /\ (\A p \in DOMAIN s, q \in DOMAIN t : Label(s[p]) # Label(t[q]))
              => Distinct(Joined(s, t))
<1> DEFINE x == Joined(s, t)
<1>1. /\ Len(s) \in Nat /\ Len(t) \in Nat
      /\ DOMAIN s = 1..Len(s) /\ DOMAIN t = 1..Len(t)
      /\ DOMAIN x = 1..Len(s) + Len(t)
      /\ \A p \in DOMAIN x : x[p] = IF p <= Len(s) THEN s[p] ELSE t[p - Len(s)]
  BY DEF Joined
<1> HIDE DEF x
<1>2. \A p \in DOMAIN s : p \in DOMAIN x /\ x[p] = s[p]
  BY <1>1
<1>3. \A q \in DOMAIN t : q + Len(s) \in DOMAIN x /\ x[q + Len(s)] = t[q]
  <2> SUFFICES ASSUME NEW q \in DOMAIN t
               PROVE  q + Len(s) \in DOMAIN x /\ x[q + Len(s)] = t[q]
    OBVIOUS
  <2>1. q + Len(s) \in DOMAIN x /\ ~(q + Len(s) <= Len(s)) /\ q + Len(s) - Len(s) = q
    BY <1>1
  <2> QED BY <1>1, <2>1
<1>4. \A p \in DOMAIN x : \/ p \in DOMAIN s /\ x[p] = s[p]
                          \/ p - Len(s) \in DOMAIN t /\ x[p] = t[p - Len(s)]
  BY <1>1
<1>5. ToSet(x) = ToSet(s) \union ToSet(t)
  BY <1>2, <1>3, <1>4 DEF ToSet
<1>6. ASSUME Distinct(s), Distinct(t), \A p \in DOMAIN s, q \in DOMAIN t : Label(s[p]) # Label(t[q]),
             NEW p \in DOMAIN x, NEW q \in DOMAIN x, Label(x[p]) = Label(x[q])
      PROVE  p = q
  <2>1. p - Len(s) = q - Len(s) => p = q
    BY <1>1
  <2> QED BY <1>4, <1>6, <2>1 DEF Distinct
<1>7. Distinct(s) /\ Distinct(t) /\ (\A p \in DOMAIN s, q \in DOMAIN t : Label(s[p]) # Label(t[q]))
      => Distinct(x)
  BY <1>6 DEF Distinct
<1> QED BY <1>5, <1>7 DEF x

(* What FlattenSeq returns: the elements of all the sequences, and         *)
(* distinct ones if those were.                                            *)
LEMMA FlattenFacts ==
    ASSUME NEW S, NEW seqs \in Seq(Seq(S)), Len(seqs) # 0
    PROVE  /\ FlattenSeq(seqs) \in Seq(S)
           /\ ToSet(FlattenSeq(seqs)) = UNION {ToSet(seqs[i]) : i \in 1..Len(seqs)}
           /\ (\A i, j \in 1..Len(seqs) : \A m \in DOMAIN seqs[i], k \in DOMAIN seqs[j] :
                  Label(seqs[i][m]) = Label(seqs[j][k]) => i = j /\ m = k)
              => Distinct(FlattenSeq(seqs))
<1> DEFINE n == Len(seqs)
           Apart == \A i, j \in 1..n : \A m \in DOMAIN seqs[i], k \in DOMAIN seqs[j] :
                       Label(seqs[i][m]) = Label(seqs[j][k]) => i = j /\ m = k
<1>1. n \in Nat /\ n >= 1 /\ \A i \in 1..n : seqs[i] \in Seq(S)
  OBVIOUS
<1>2. PICK x \in [1..n -> Seq(S)] : Joins(x, seqs) /\ FlattenSeq(seqs) = x[n]
  BY FlattenJoins
<1> HIDE DEF n
<1> DEFINE Good(k) == /\ ToSet(x[k]) = UNION {ToSet(seqs[i]) : i \in 1..k}
                      /\ Apart => Distinct(x[k])
           T == {k \in Nat : k + 1 \in 1..n => Good(k + 1)}
<1>3. Good(1)
  <2>1. x[1] = seqs[1]
    BY <1>2 DEF Joins
  <2>2. 1..1 = {1} /\ 1 \in 1..n
    BY <1>1
  <2>3. ToSet(x[1]) = UNION {ToSet(seqs[i]) : i \in 1..1}
    BY <2>1, <2>2
  <2>4. ASSUME Apart PROVE Distinct(seqs[1])
    BY <2>2, <2>4 DEF Distinct
  <2> QED BY <2>1, <2>3, <2>4
<1>4. ASSUME NEW k \in 1..n, k + 1 \in 1..n, Good(k) PROVE Good(k + 1)
  <2>1. k + 1 \in 2..n /\ k + 1 - 1 = k
    BY <1>1, <1>4
  <2>2. x[k + 1] = Joined(x[k], seqs[k + 1])
    BY <1>2, <2>1 DEF Joins, n
  <2>3. x[k] \in Seq(S) /\ seqs[k + 1] \in Seq(S)
    BY <1>1, <1>2, <1>4
  <2>4. ToSet(x[k + 1]) = ToSet(x[k]) \union ToSet(seqs[k + 1])
    BY <2>2, <2>3, JoinedFacts
  <2>5. 1..k + 1 = (1..k) \union {k + 1}
    BY <1>1
  <2>6. ToSet(x[k + 1]) = UNION {ToSet(seqs[i]) : i \in 1..k + 1}
    BY <1>4, <2>4, <2>5
  <2>7. ASSUME Apart PROVE Distinct(x[k + 1])
    <3>1. Distinct(x[k])
      BY <1>4, <2>7
    <3>2. Distinct(seqs[k + 1])
      BY <1>4, <2>7 DEF Distinct
    <3>3. ASSUME NEW p \in DOMAIN x[k], NEW q \in DOMAIN seqs[k + 1]
          PROVE  Label(x[k][p]) # Label(seqs[k + 1][q])
      <4>1. x[k][p] \in UNION {ToSet(seqs[i]) : i \in 1..k}
        BY <1>4 DEF ToSet
      <4>2. PICK i \in 1..k : \E m \in DOMAIN seqs[i] : x[k][p] = seqs[i][m]
        BY <4>1 DEF ToSet
      <4>3. i \in 1..n /\ i # k + 1
        BY <1>1, <1>4
      <4> QED BY <1>4, <2>7, <4>2, <4>3
    <3> QED BY <2>2, <2>3, <3>1, <3>2, <3>3, JoinedFacts
  <2> QED BY <2>6, <2>7
<1> HIDE DEF Good
<1>5. 0 \in T /\ \A k \in T : k + 1 \in T
  <2>1. 0 \in T
    BY <1>3
  <2>2. ASSUME NEW k \in T PROVE k + 1 \in T
    <3>1. ASSUME k + 1 + 1 \in 1..n PROVE Good(k + 1 + 1)
      <4>1. k + 1 \in 1..n
        BY <1>1, <3>1
      <4> QED BY <1>4, <3>1, <4>1
    <3> QED BY <3>1
  <2> QED BY <2>1, <2>2
<1>6. T = Nat
  <2> HIDE DEF T
  <2> QED BY <1>5, SetInduction DEF T
<1>7. n - 1 \in Nat /\ n - 1 + 1 = n /\ n \in 1..n
  BY <1>1
<1>8. Good(n)
  <2>1. n - 1 \in T
    BY <1>6, <1>7
  <2> QED BY <1>7, <2>1
<1> QED BY <1>1, <1>2, <1>7, <1>8 DEF n, Good

(* The line that LoadLine adds for an id has the routes of that id.        *)
LEMMA RoutesOfFacts ==
    ASSUME NEW doc \in Documents, Malformed \notin ToSet(doc.lines), NEW id \in LineIds(doc)
    PROVE  /\ RoutesOf(doc, id) \in Lines
           /\ ToSet(RoutesOf(doc, id)) = {r \in RoutesIn(doc) : r.lineId = id}
           /\ WellFormed(doc) => Distinct(RoutesOf(doc, id))
<1> DEFINE lines == doc.lines
           n == Len(lines)
           part(i) == IF lines[i].lineId = id THEN lines[i].routes ELSE <<>>
           seqs == [i \in DOMAIN lines |-> part(i)]
           R == RoutesIn(doc)
<1>1. lines \in Seq(ToSet(lines))
  BY DocumentsAssumption
<1>2. n \in Nat /\ DOMAIN lines = 1..n /\ \A i \in 1..n : lines[i] \in ToSet(lines)
  BY <1>1
<1>3. \A i \in 1..n : /\ lines[i].routes \in Seq(ToSet(lines[i].routes))
                      /\ \A r \in ToSet(lines[i].routes) : r.lineId = lines[i].lineId
  BY <1>2, DocumentsAssumption
<1>4. \A r : r \in R <=> \E i \in 1..n : r \in ToSet(lines[i].routes)
  <2>1. ToSet(lines) = {lines[i] : i \in 1..n}
    BY <1>2 DEF ToSet
  <2> QED BY <2>1 DEF RoutesIn
<1>5. n # 0
  BY <1>2 DEF LineIds, ToSet
<1> HIDE DEF n, lines, R
<1>6. \A i \in 1..n : part(i) \in Seq(R)
  <2> SUFFICES ASSUME NEW i \in 1..n PROVE part(i) \in Seq(R)
    OBVIOUS
  <2>1. CASE lines[i].lineId # id
    BY <2>1
  <2>2. CASE lines[i].lineId = id
    <3>1. ToSet(lines[i].routes) \subseteq R
      BY <1>4
    <3>2. lines[i].routes \in Seq(R)
      BY <1>3, <3>1
    <3> QED BY <2>2, <3>2
  <2> QED BY <2>1, <2>2
<1>7. /\ seqs \in Seq(Seq(R)) /\ Len(seqs) = n
      /\ \A i \in 1..n : seqs[i] = part(i)
  <2>1. seqs = [i \in 1..n |-> part(i)]
    BY <1>2
  <2> HIDE DEF part
  <2> QED BY <1>2, <1>6, <2>1
<1>8. \A i \in 1..n : ToSet(seqs[i]) = {r \in ToSet(lines[i].routes) : r.lineId = id}
  <2> SUFFICES ASSUME NEW i \in 1..n
               PROVE  ToSet(seqs[i]) = {r \in ToSet(lines[i].routes) : r.lineId = id}
    OBVIOUS
  <2>1. CASE lines[i].lineId = id
    <3>1. seqs[i] = lines[i].routes
      BY <1>7, <2>1
    <3> QED BY <1>3, <2>1, <3>1
  <2>2. CASE lines[i].lineId # id
    <3>1. seqs[i] = <<>>
      BY <1>7, <2>2
    <3>2. ToSet(seqs[i]) = {}
      BY <3>1 DEF ToSet
    <3> QED BY <1>3, <2>2, <3>2
  <2> QED BY <2>1, <2>2
<1>9. RoutesOf(doc, id) = FlattenSeq(seqs)
  BY DEF RoutesOf, lines
<1>10. ToSet(RoutesOf(doc, id)) = UNION {ToSet(seqs[i]) : i \in 1..n}
  <2> HIDE DEF seqs
  <2> QED BY <1>5, <1>7, <1>9, FlattenFacts
<1>11. ToSet(RoutesOf(doc, id)) = {r \in R : r.lineId = id}
  <2> HIDE DEF seqs
  <2> QED BY <1>4, <1>8, <1>10
<1>12. ASSUME WellFormed(doc) PROVE Distinct(RoutesOf(doc, id))
  <2>1. ASSUME NEW i \in 1..n, NEW j \in 1..n, NEW m \in DOMAIN seqs[i], NEW k \in DOMAIN seqs[j],
               Label(seqs[i][m]) = Label(seqs[j][k])
        PROVE  i = j /\ m = k
    <3>1. seqs[i] = lines[i].routes /\ seqs[j] = lines[j].routes
      <4>1. DOMAIN <<>> = {}
        OBVIOUS
      <4> QED BY <1>7, <2>1, <4>1
    <3> HIDE DEF seqs
    <3>2. \A a, b \in DOMAIN lines : \A p \in DOMAIN lines[a].routes, q \in DOMAIN lines[b].routes :
             Label(lines[a].routes[p]) = Label(lines[b].routes[q]) => a = b /\ p = q
      BY <1>12 DEF WellFormed, lines
    <3> QED BY <1>2, <2>1, <3>1, <3>2
  <2> HIDE DEF seqs
  <2> QED BY <1>5, <1>7, <1>9, <2>1, FlattenFacts
<1>13. RoutesOf(doc, id) \in Lines
  BY DocumentsAssumption DEF lines
<1> QED BY <1>11, <1>12, <1>13 DEF R

(* Every route is a route of a line that is added.                         *)
LEMMA RoutesHaveLines ==
    ASSUME NEW doc \in Documents, Malformed \notin ToSet(doc.lines), NEW r \in RoutesIn(doc)
    PROVE  r.lineId \in LineIds(doc)
<1>1. PICK item \in ToSet(doc.lines) : r \in ToSet(item.routes)
  BY DEF RoutesIn
<1>2. item.routes # <<>>
  BY <1>1 DEF ToSet
<1>3. r.lineId = item.lineId
  BY <1>1, DocumentsAssumption
<1> QED BY <1>1, <1>2, <1>3 DEF LineIds

(* Some hop of the lines with these ids is on the edge, with the label.    *)
Carries(doc, ids, e, label) ==
    \E id \in ids : \E h \in Hops(RoutesOf(doc, id)) :
       e = Ends(RoutesOf(doc, id), h) /\ label = HopLabel(RoutesOf(doc, id), h)

(* The hops of all lines together are the legs of the document.            *)
LEMMA LegsAreHops ==
    ASSUME NEW doc \in Documents, Malformed \notin ToSet(doc.lines), NEW e, NEW label
    PROVE  Carries(doc, LineIds(doc), e, label)
             <=> \E leg \in Legs(doc) : leg.ends = e /\ leg.label = label
<1>1. (\E leg \in Legs(doc) : leg.ends = e /\ leg.label = label)
        <=> \E r \in RoutesIn(doc) : \E i \in 2..Len(r.stops) :
               e = <<r.stops[i - 1], r.stops[i]>> /\ label = Label(r)
  <2> DEFINE leg(r, i) == [ends |-> <<r.stops[i - 1], r.stops[i]>>, label |-> Label(r)]
  <2>1. \A l : l \in Legs(doc) <=> \E r \in RoutesIn(doc) : \E i \in 2..Len(r.stops) : l = leg(r, i)
    BY DEF Legs
  <2>2. \A r, i : leg(r, i).ends = <<r.stops[i - 1], r.stops[i]>> /\ leg(r, i).label = Label(r)
    OBVIOUS
  <2> HIDE DEF leg
  <2>3. ASSUME NEW l \in Legs(doc), l.ends = e, l.label = label
        PROVE  \E r \in RoutesIn(doc) : \E i \in 2..Len(r.stops) :
                  e = <<r.stops[i - 1], r.stops[i]>> /\ label = Label(r)
    <3>1. PICK r \in RoutesIn(doc) : \E i \in 2..Len(r.stops) : l = leg(r, i)
      BY <2>1
    <3>2. PICK i \in 2..Len(r.stops) : l = leg(r, i)
      BY <3>1
    <3> QED BY <2>2, <2>3, <3>2, Zenon
  <2>4. ASSUME NEW r \in RoutesIn(doc), NEW i \in 2..Len(r.stops),
               e = <<r.stops[i - 1], r.stops[i]>>, label = Label(r)
        PROVE  leg(r, i) \in Legs(doc) /\ leg(r, i).ends = e /\ leg(r, i).label = label
    <3>1. leg(r, i) \in Legs(doc)
      BY <2>1
    <3> QED BY <2>2, <2>4, <3>1
  <2> QED BY <2>3, <2>4, Zenon
<1>2. ASSUME NEW id \in LineIds(doc)
      PROVE  (\E h \in Hops(RoutesOf(doc, id)) :
                e = Ends(RoutesOf(doc, id), h) /\ label = HopLabel(RoutesOf(doc, id), h))
             <=> \E r \in ToSet(RoutesOf(doc, id)) : \E i \in 2..Len(r.stops) :
                    e = <<r.stops[i - 1], r.stops[i]>> /\ label = Label(r)
  <2> DEFINE line == RoutesOf(doc, id)
  <2> HIDE DEF line
  <2>1. \A h : h \in Hops(line) <=> \E p \in DOMAIN line : \E i \in 2..Len(line[p].stops) : h = <<p, i>>
    BY DEF Hops
  <2>2. \A p, i : /\ Ends(line, <<p, i>>) = <<line[p].stops[i - 1], line[p].stops[i]>>
                  /\ HopLabel(line, <<p, i>>) = Label(line[p])
    BY DEF Ends, HopLabel
  <2>3. (\E h \in Hops(line) : e = Ends(line, h) /\ label = HopLabel(line, h))
        <=> \E p \in DOMAIN line : \E i \in 2..Len(line[p].stops) :
               e = <<line[p].stops[i - 1], line[p].stops[i]>> /\ label = Label(line[p])
    <3>1. ASSUME NEW p \in DOMAIN line, NEW i \in 2..Len(line[p].stops),
                 e = <<line[p].stops[i - 1], line[p].stops[i]>>, label = Label(line[p])
          PROVE  /\ <<p, i>> \in Hops(line)
                 /\ e = Ends(line, <<p, i>>) /\ label = HopLabel(line, <<p, i>>)
      BY <2>1, <2>2, <3>1
    <3>2. ASSUME NEW h \in Hops(line), e = Ends(line, h), label = HopLabel(line, h)
          PROVE  \E p \in DOMAIN line : \E i \in 2..Len(line[p].stops) :
                    e = <<line[p].stops[i - 1], line[p].stops[i]>> /\ label = Label(line[p])
      <4>1. PICK p \in DOMAIN line : \E i \in 2..Len(line[p].stops) : h = <<p, i>>
        BY <2>1
      <4>2. PICK i \in 2..Len(line[p].stops) : h = <<p, i>>
        BY <4>1
      <4> QED BY <2>2, <3>2, <4>2, Zenon
    <3> QED BY <3>1, <3>2, Zenon
  <2> QED BY <2>3 DEF ToSet, line
<1>3. \A id \in LineIds(doc) : ToSet(RoutesOf(doc, id)) = {r \in RoutesIn(doc) : r.lineId = id}
  BY RoutesOfFacts
<1> QED BY <1>1, <1>2, <1>3, RoutesHaveLines DEF Carries
-----------------------------------------------------------------------------
(* The inductive invariant of loading: what the network holds is the part  *)
(* of the document that was visited, in each of the three loops.           *)
StationsVisited ==
    pc = "stations" =>
       /\ at <= Len(document.stations) + 1
       /\ stationIdToNode = {document.stations[i] : i \in 1..at - 1}
       /\ DOMAIN edges = {}
       /\ status = "running"

AllVisited(loops) == status = "running" /\ pc \in loops \union {"returned"}

StationsLoaded ==
    AllVisited({"lines", "times"}) =>
       /\ stationIdToNode = ToSet(document.stations)
       /\ Malformed \notin ToSet(document.lines)
       /\ waiting \subseteq LineIds(document)

LinesVisited ==
    AllVisited({"lines", "times"}) =>
       /\ \A e, label : OnEdge(e, label) <=>
             Carries(document, LineIds(document) \ waiting, e, label)
       /\ \A e \in DOMAIN edges : \E label : OnEdge(e, label)

(* The time an edge has when n - 1 travel times were visited.              *)
About(doc, e, i) == <<doc.times[i].from, doc.times[i].to>> \in {e, <<e[2], e[1]>>}

LastOf(doc, about) ==
    IF about = {} THEN 0
    ELSE doc.times[CHOOSE i \in about : \A j \in about : j <= i].travelTime

TimeBefore(doc, e, n) == LastOf(doc, {i \in 1..n - 1 : About(doc, e, i)})

TimesVisited ==
    AllVisited({"lines", "times"}) =>
       \A e \in DOMAIN edges :
          edges[e].travelTime = TimeBefore(document, e, IF pc = "lines" THEN 1 ELSE at)

Visited ==
    /\ AllVisited({"times"}) => waiting = {} /\ at <= Len(document.times) + 1
    /\ AllVisited({}) => at = Len(document.times) + 1
    /\ status # "running" => pc = "lines" /\ waiting # {}

LoadTypes == document \in Documents /\ at \in Nat \ {0}

LoadInv ==
    /\ Inv /\ LoadTypes
    /\ StationsVisited /\ StationsLoaded /\ LinesVisited /\ TimesVisited /\ Visited
    /\ WellFormedLoads

LEMMA DocumentFacts ==
    ASSUME NEW doc \in Documents
    PROVE  /\ Len(doc.stations) \in Nat /\ DOMAIN doc.stations = 1..Len(doc.stations)
           /\ \A i \in 1..Len(doc.stations) : doc.stations[i] \in Station \union {Malformed}
           /\ Len(doc.times) \in Nat /\ DOMAIN doc.times = 1..Len(doc.times)
           /\ \A i \in 1..Len(doc.times) : doc.times[i] # Malformed =>
                 /\ doc.times[i].from \in Station /\ doc.times[i].to \in Station
                 /\ doc.times[i].travelTime \in Times
<1>1. /\ doc.stations \in Seq(Station \union {Malformed})
      /\ doc.times \in Seq([from : Station, to : Station, travelTime : Times] \union {Malformed})
  BY DocumentsAssumption
<1> QED BY <1>1

LEMMA InitLoad == LoadInit => LoadInv
<1> SUFFICES ASSUME LoadInit PROVE LoadInv
  OBVIOUS
<1>1. Inv
  BY InitInv DEF LoadInit
<1>2. Len(document.stations) \in Nat
  BY DocumentFacts DEF LoadInit
<1>3. StationsVisited
  BY <1>2 DEF LoadInit, Init, StationsVisited, stationIdToNode
<1> QED
  BY <1>1, <1>3 DEF LoadInit, Init, LoadInv, LoadTypes, StationsLoaded, LinesVisited, TimesVisited,
     Visited, WellFormedLoads, AllVisited

(* A step of loading is a call of the network, or leaves it alone.         *)
LEMMA LoadStepsAreCalls ==
    ASSUME LoadInv, LoadNext
    PROVE  [Next]_vars
<1> USE DEF LoadInv, LoadTypes
<1>1. CASE LoadStation
  <2>1. document.stations[at] \in Station
    BY <1>1, DocumentFacts DEF LoadStation, HasItem, IsMalformed
  <2> QED BY <1>1, <2>1 DEF LoadStation, Next
<1>2. ASSUME NEW id \in waiting, LoadLine(id) \/ RefuseLine(id) \/ CrashOnLine(id)
      PROVE  Next
  <2>1. pc = "lines" /\ status = "running"
    BY <1>2 DEF LoadLine, RefuseLine, CrashOnLine, AddLine, AddLineRejected, AddLineCrash
  <2>2. RoutesOf(document, id) \in Lines
    BY <2>1, RoutesOfFacts DEF StationsLoaded, AllVisited
  <2> QED BY <1>2, <2>2 DEF LoadLine, RefuseLine, CrashOnLine, Next
<1>3. CASE LoadTime
  <2>1. at \in 1..Len(document.times) /\ document.times[at] # Malformed
    BY <1>3, DocumentFacts DEF LoadTime, HasItem, IsMalformed
  <2>2. /\ document.times[at].from \in Station /\ document.times[at].to \in Station
        /\ document.times[at].travelTime \in Times
    BY <2>1, DocumentFacts
  <2> QED BY <1>3, <2>2 DEF LoadTime, Next
<1>4. CASE ReadLines \/ LinesLoaded \/ Return \/ JsonException
  BY <1>4 DEF ReadLines, LinesLoaded, Return, JsonException
<1> QED BY <1>1, <1>2, <1>3, <1>4 DEF LoadNext

LEMMA LoadStationInv ==
    ASSUME LoadInv, Inv', LoadStation
    PROVE  LoadInv'
<1> DEFINE stations == document.stations
<1>1. /\ pc = "stations" /\ at \in 1..Len(stations) /\ stations[at] # Malformed
      /\ Len(stations) \in Nat /\ DOMAIN stations = 1..Len(stations)
      /\ document' = document /\ at' = at + 1
      /\ pc' = IF result' THEN "stations" ELSE "thrown"
      /\ result' = (stations[at] \notin stationIdToNode)
      /\ stationIdToNode' = stationIdToNode \union {stations[at]}
      /\ DOMAIN edges' = DOMAIN edges /\ status' = status
  <2>1. stationIdToNode' = stationIdToNode \union {stations[at]}
    BY DEF LoadStation, AddStation, stationIdToNode
  <2> QED BY <2>1, DocumentFacts DEF LoadInv, LoadTypes, LoadStation, AddStation, HasItem, IsMalformed
<1>2. /\ stationIdToNode = {stations[i] : i \in 1..at - 1}
      /\ DOMAIN edges = {} /\ status = "running"
  BY <1>1 DEF LoadInv, StationsVisited
<1>3. LoadTypes'
  BY <1>1 DEF LoadInv, LoadTypes
<1>4. StationsVisited'
  <2>1. 1..at + 1 - 1 = (1..at - 1) \union {at}
    BY <1>1
  <2>2. stationIdToNode' = {stations[i] : i \in 1..at' - 1}
    BY <1>1, <1>2, <2>1
  <2>3. at' <= Len(stations) + 1
    BY <1>1
  <2> QED BY <1>1, <1>2, <2>2, <2>3 DEF StationsVisited
<1>5. WellFormedLoads'
  <2> SUFFICES ASSUME WellFormed(document) PROVE pc' # "thrown" /\ status' = "running"
    BY <1>1 DEF WellFormedLoads
  <2>1. \A i, j \in DOMAIN stations : stations[i] = stations[j] => i = j
    BY DEF WellFormed
  <2>2. stations[at] \notin stationIdToNode
    BY <1>1, <1>2, <2>1
  <2> QED BY <1>1, <1>2, <2>2
<1>6. pc' \in {"stations", "thrown"} /\ status' = "running"
  BY <1>1, <1>2
<1> QED
  BY <1>3, <1>4, <1>5, <1>6 DEF LoadInv, StationsLoaded, LinesVisited, TimesVisited, Visited, AllVisited

LEMMA ReadLinesInv ==
    ASSUME LoadInv, Inv', ReadLines
    PROVE  LoadInv'
<1>1. /\ pc = "stations" /\ at = Len(document.stations) + 1
      /\ DOMAIN document.stations = 1..Len(document.stations) /\ Len(document.stations) \in Nat
      /\ Malformed \notin ToSet(document.lines)
      /\ pc' = "lines" /\ waiting' = LineIds(document)
      /\ UNCHANGED <<edges, passengers, status, document, at>>
  BY DocumentFacts DEF ReadLines, vars, LoadInv, LoadTypes, StationsVisited, HasItem
<1>2. DOMAIN edges = {} /\ status = "running"
  BY <1>1 DEF LoadInv, StationsVisited
<1>3. StationsLoaded'
  <2>1. stationIdToNode = {document.stations[i] : i \in 1..at - 1}
    BY <1>1 DEF LoadInv, StationsVisited
  <2>2. at - 1 = Len(document.stations)
    BY <1>1
  <2>3. stationIdToNode = ToSet(document.stations)
    BY <1>1, <2>1, <2>2 DEF ToSet
  <2>4. stationIdToNode' = stationIdToNode
    BY <1>1 DEF stationIdToNode
  <2> QED BY <1>1, <2>3, <2>4 DEF StationsLoaded
<1>4. LinesVisited'
  BY <1>1, <1>2 DEF LinesVisited, OnEdge, Carries
<1>5. TimesVisited'
  BY <1>1, <1>2 DEF TimesVisited
<1>6. LoadTypes' /\ StationsVisited' /\ Visited' /\ WellFormedLoads'
  BY <1>1, <1>2 DEF LoadInv, LoadTypes, StationsVisited, Visited, AllVisited, WellFormedLoads
<1> QED BY <1>3, <1>4, <1>5, <1>6 DEF LoadInv

LEMMA LoadLineInv ==
    ASSUME LoadInv, Inv', NEW id \in waiting, LoadLine(id)
    PROVE  LoadInv'
<1> DEFINE line == RoutesOf(document, id)
<1>1. /\ pc = "lines" /\ status = "running"
      /\ UNCHANGED <<document, pc, at, passengers, status>>
      /\ waiting' = waiting \ {id}
      /\ AllSucceed(line, Hops(line))
      /\ edges' = WithHops(line, Hops(line))
      /\ accepted' = accepted \union {line}
  BY DEF LoadLine, AddLine
<1>2. /\ document \in Documents /\ Malformed \notin ToSet(document.lines)
      /\ waiting \subseteq LineIds(document) /\ TypeOK
  BY <1>1 DEF LoadInv, LoadTypes, StationsLoaded, AllVisited, Inv
<1>3. line \in Lines
  BY <1>2, RoutesOfFacts
<1> HIDE DEF line
<1>4. \A e, label : OnEdge(e, label)' <=>
         OnEdge(e, label) \/ \E h \in Hops(line) : e = Ends(line, h) /\ label = HopLabel(line, h)
  BY <1>1, <1>2, <1>3, HopsAddedRoutes DEF AddsHops, AllSucceed, Leading
<1>5. /\ DOMAIN edges' = DOMAIN edges \union Incoming(line, Hops(line))
      /\ \A e \in DOMAIN edges' : edges'[e].travelTime = EdgeAt(e).travelTime
  BY <1>1, <1>2, <1>3, WithHopsFacts
<1>6. LinesVisited'
  <2>1. LineIds(document) \ waiting' = (LineIds(document) \ waiting) \union {id}
    BY <1>1, <1>2
  <2>2. \A e, label : Carries(document, LineIds(document) \ waiting', e, label) <=>
           \/ Carries(document, LineIds(document) \ waiting, e, label)
           \/ \E h \in Hops(line) : e = Ends(line, h) /\ label = HopLabel(line, h)
    BY <2>1 DEF Carries, line
  <2>3. \A e, label : OnEdge(e, label)' <=>
           Carries(document, LineIds(document) \ waiting', e, label)
    BY <1>1, <1>4, <2>2 DEF LoadInv, LinesVisited, AllVisited
  <2>4. ASSUME NEW e \in DOMAIN edges' PROVE \E label : OnEdge(e, label)'
    <3>1. CASE e \in DOMAIN edges
      BY <1>1, <1>4, <3>1 DEF LoadInv, LinesVisited, AllVisited
    <3>2. CASE e \in Incoming(line, Hops(line))
      BY <1>4, <3>2 DEF Incoming
    <3> QED BY <1>5, <2>4, <3>1, <3>2
  <2> QED BY <1>1, <2>3, <2>4 DEF LinesVisited
<1>7. TimesVisited'
  <2>1. \A e : TimeBefore(document, e, 1) = 0
    BY DEF TimeBefore, LastOf
  <2>2. \A e \in DOMAIN edges : edges[e].travelTime = 0
    BY <1>1, <2>1 DEF LoadInv, TimesVisited, AllVisited
  <2>3. \A e \in DOMAIN edges' : edges'[e].travelTime = 0
    BY <1>5, <2>2 DEF EdgeAt
  <2> QED BY <1>1, <2>1, <2>3 DEF TimesVisited
<1>8. LoadTypes' /\ StationsVisited' /\ StationsLoaded' /\ Visited' /\ WellFormedLoads'
  BY <1>1, <1>2 DEF LoadInv, LoadTypes, StationsVisited, StationsLoaded, Visited, AllVisited,
     WellFormedLoads, stationIdToNode
<1> QED BY <1>6, <1>7, <1>8 DEF LoadInv

(* No hop of a well-formed document fails.                                 *)
LEMMA HopsSucceed ==
    ASSUME LoadInv, pc = "lines", status = "running", WellFormed(document),
           NEW id \in waiting, NEW h \in Hops(RoutesOf(document, id))
    PROVE  ~Rejects(RoutesOf(document, id), h) /\ ~Crashes(RoutesOf(document, id), h)
<1> DEFINE line == RoutesOf(document, id)
<1>1. /\ document \in Documents /\ Malformed \notin ToSet(document.lines)
      /\ waiting \subseteq LineIds(document) /\ stationIdToNode = ToSet(document.stations)
  BY DEF LoadInv, LoadTypes, StationsLoaded, AllVisited
<1>2. /\ line \in Lines /\ Distinct(line)
      /\ ToSet(line) = {r \in RoutesIn(document) : r.lineId = id}
  BY <1>1, RoutesOfFacts
<1>3. \A i \in LineIds(document) : \A r \in ToSet(RoutesOf(document, i)) : r.lineId = i
  BY <1>1, RoutesOfFacts
<1>4. \A l : \A g \in Hops(l) : /\ g[1] \in DOMAIN l /\ l[g[1]] \in ToSet(l)
                                /\ g[2] \in 2..Len(l[g[1]].stops) /\ g = <<g[1], g[2]>>
  BY DEF Hops, ToSet
<1>5. h \in Hops(line)
  OBVIOUS
<1> HIDE DEF line
<1>6. /\ line[h[1]].stops \in Seq(Station)
      /\ \A i, j \in DOMAIN line[h[1]].stops : line[h[1]].stops[i] = line[h[1]].stops[j] => i = j
  BY <1>2, <1>4, <1>5, LinesAssumption
<1>7. Ends(line, h)[1] \in stationIdToNode /\ Ends(line, h)[2] \in stationIdToNode
  <2>1. line[h[1]] \in RoutesIn(document)
    BY <1>2, <1>4, <1>5
  <2>2. ToSet(line[h[1]].stops) \subseteq ToSet(document.stations)
    BY <2>1 DEF WellFormed
  <2>3. h[2] \in DOMAIN line[h[1]].stops /\ h[2] - 1 \in DOMAIN line[h[1]].stops
    BY <1>4, <1>5, <1>6
  <2>4. line[h[1]].stops[h[2]] \in stationIdToNode /\ line[h[1]].stops[h[2] - 1] \in stationIdToNode
    BY <1>1, <2>2, <2>3 DEF ToSet
  <2> QED BY <2>4 DEF Ends
<1>8. ~OnEdge(Ends(line, h), HopLabel(line, h))
  <2> SUFFICES ASSUME Carries(document, LineIds(document) \ waiting, Ends(line, h), HopLabel(line, h))
               PROVE  FALSE
    BY DEF LoadInv, LinesVisited, AllVisited
  <2>1. PICK i \in LineIds(document) \ waiting :
           \E g \in Hops(RoutesOf(document, i)) : HopLabel(line, h) = HopLabel(RoutesOf(document, i), g)
    BY DEF Carries
  <2>2. PICK g \in Hops(RoutesOf(document, i)) : HopLabel(line, h) = HopLabel(RoutesOf(document, i), g)
    BY <2>1
  <2>3. HopLabel(line, h)[1] = id
    BY <1>2, <1>4, <1>5 DEF HopLabel, Label
  <2>4. HopLabel(RoutesOf(document, i), g)[1] = i
    BY <1>3, <1>4 DEF HopLabel, Label
  <2> QED BY <2>2, <2>3, <2>4
<1>9. ASSUME NEW g \in Hops(line), Before(g, h), Ends(line, g) = Ends(line, h),
             HopLabel(line, g) = HopLabel(line, h)
      PROVE  FALSE
  <2>1. g[1] = h[1]
    BY <1>2, <1>4, <1>5, <1>9 DEF Distinct, HopLabel
  <2>2. line[h[1]].stops[g[2]] = line[h[1]].stops[h[2]]
    BY <1>9, <2>1 DEF Ends
  <2>3. g[2] \in DOMAIN line[h[1]].stops /\ h[2] \in DOMAIN line[h[1]].stops
    BY <1>4, <1>5, <1>6, <2>1
  <2>4. g[2] = h[2]
    BY <1>6, <2>2, <2>3
  <2>5. DOMAIN line = 1..Len(line)
    BY <1>2, LinesAssumption
  <2>6. g[1] \in Int /\ g[2] \in Int
    BY <1>4, <2>5
  <2> QED BY <1>9, <2>1, <2>4, <2>6 DEF Before
<1>10. ~Rejects(line, h)
  BY <1>7, <1>8, <1>9 DEF Rejects, OnEdge, HasRoute, HopLabel, Label
<1> QED BY <1>7, <1>10 DEF Crashes, line

LEMMA FailingLineInv ==
    ASSUME LoadInv, Inv', NEW id \in waiting, RefuseLine(id) \/ CrashOnLine(id)
    PROVE  LoadInv'
<1>1. /\ pc = "lines" /\ status = "running" /\ UNCHANGED <<document, at, waiting, passengers>>
      /\ \E h \in Hops(RoutesOf(document, id)) :
            Rejects(RoutesOf(document, id), h) \/ Crashes(RoutesOf(document, id), h)
  BY DEF RefuseLine, CrashOnLine, AddLineRejected, AddLineCrash, loader
<1>2. WellFormedLoads'
  BY <1>1, HopsSucceed DEF WellFormedLoads
<1>3. CASE RefuseLine(id)
  <2>1. pc' = "thrown" /\ status' = "running"
    BY <1>3 DEF RefuseLine, AddLineRejected
  <2> QED BY <1>1, <1>2, <2>1 DEF LoadInv, LoadTypes, StationsVisited, StationsLoaded, LinesVisited,
             TimesVisited, Visited, AllVisited
<1>4. CASE CrashOnLine(id)
  <2>1. pc' = pc /\ status' = "crashed" /\ waiting # {}
    BY <1>4 DEF CrashOnLine, AddLineCrash, loader
  <2> QED BY <1>1, <1>2, <2>1 DEF LoadInv, LoadTypes, StationsVisited, StationsLoaded, LinesVisited,
             TimesVisited, Visited, AllVisited
<1> QED BY <1>3, <1>4

LEMMA LinesLoadedInv ==
    ASSUME LoadInv, Inv', LinesLoaded
    PROVE  LoadInv'
<1>1. /\ pc = "lines" /\ pc' = "times" /\ at' = 1 /\ waiting = {} /\ status = "running"
      /\ UNCHANGED <<document, waiting, passengers, edges, status>>
  BY DEF LinesLoaded, vars, LoadInv, Visited
<1>2. Len(document.times) \in Nat
  BY DocumentFacts DEF LoadInv, LoadTypes
<1> QED
  BY <1>1, <1>2 DEF LoadInv, LoadTypes, StationsVisited, StationsLoaded, LinesVisited,
     TimesVisited, Visited, AllVisited, WellFormedLoads, OnEdge, stationIdToNode

(* One more travel time changes the time of the pair it is about.          *)
LEMMA NextTime ==
    ASSUME NEW doc, NEW e, NEW n \in Nat \ {0}
    PROVE  TimeBefore(doc, e, n + 1) = IF About(doc, e, n) THEN doc.times[n].travelTime
                                                           ELSE TimeBefore(doc, e, n)
<1> DEFINE about(k) == {i \in 1..k - 1 : About(doc, e, i)}
<1>1. 1..n + 1 - 1 = (1..n - 1) \union {n}
  OBVIOUS
<1>2. \A k : TimeBefore(doc, e, k) = LastOf(doc, about(k))
  BY DEF TimeBefore
<1>3. CASE About(doc, e, n)
  <2>1. /\ n \in about(n + 1) /\ \A j \in about(n + 1) : j <= n
        /\ \A i \in about(n + 1) : (\A j \in about(n + 1) : j <= i) => i = n
    BY <1>1, <1>3
  <2> HIDE DEF about
  <2>2. LastOf(doc, about(n + 1)) = doc.times[n].travelTime
    BY <2>1 DEF LastOf
  <2> QED BY <1>2, <1>3, <2>2
<1>4. CASE ~About(doc, e, n)
  <2>1. about(n + 1) = about(n)
    BY <1>1, <1>4
  <2> HIDE DEF about
  <2> QED BY <1>2, <1>4, <2>1
<1> QED BY <1>3, <1>4

LEMMA LoadTimeInv ==
    ASSUME LoadInv, Inv', LoadTime
    PROVE  LoadInv'
<1> DEFINE t == document.times[at]
<1>1. /\ pc = "times" /\ at <= Len(document.times) /\ at \in Nat \ {0}
      /\ Len(document.times) \in Nat
      /\ at' = at + 1 /\ UNCHANGED <<document, pc, waiting, passengers, status>>
      /\ status = "running"
      /\ edges' = [e \in DOMAIN edges |->
                     IF e \in EdgesBetween(t.from, t.to) THEN [edges[e] EXCEPT !.travelTime = t.travelTime]
                                                         ELSE edges[e]]
  BY DocumentFacts DEF LoadTime, SetTravelTime, HasItem, LoadInv, LoadTypes
<1>2. TypeOK
  BY DEF LoadInv, Inv
<1>3. /\ DOMAIN edges' = DOMAIN edges
      /\ \A e \in DOMAIN edges : edges'[e].routes = edges[e].routes
      /\ \A e \in DOMAIN edges :
            edges'[e].travelTime = IF e \in EdgesBetween(t.from, t.to) THEN t.travelTime
                                                                       ELSE edges[e].travelTime
  BY <1>1, <1>2 DEF TypeOK, Edge
<1> HIDE DEF t
<1>4. LinesVisited'
  <2>1. \A e, label : OnEdge(e, label)' <=> OnEdge(e, label)
    BY <1>3 DEF OnEdge
  <2> QED BY <1>1, <1>3, <2>1 DEF LoadInv, LinesVisited, AllVisited
<1>5. TimesVisited'
  <2> SUFFICES ASSUME NEW e \in DOMAIN edges'
               PROVE  edges'[e].travelTime = TimeBefore(document, e, at + 1)
    BY <1>1 DEF TimesVisited
  <2>1. e \in Station \X Station /\ e \in DOMAIN edges
    BY <1>2, <1>3 DEF TypeOK
  <2>2. e = <<e[1], e[2]>>
    BY <2>1
  <2>3. e \in EdgesBetween(t.from, t.to) <=> About(document, e, at)
    BY <2>1, <2>2 DEF EdgesBetween, About, t
  <2>4. edges[e].travelTime = TimeBefore(document, e, at)
    BY <1>1, <2>1 DEF LoadInv, TimesVisited, AllVisited
  <2> QED BY <1>1, <1>3, <2>1, <2>3, <2>4, NextTime DEF t
<1>6. LoadTypes' /\ StationsVisited' /\ StationsLoaded' /\ Visited' /\ WellFormedLoads'
  BY <1>1 DEF LoadInv, LoadTypes, StationsVisited, StationsLoaded, Visited, AllVisited,
     WellFormedLoads, stationIdToNode
<1> QED BY <1>4, <1>5, <1>6 DEF LoadInv

LEMMA LoadEndsInv ==
    ASSUME LoadInv, Inv', Return \/ JsonException
    PROVE  LoadInv'
<1>1. UNCHANGED <<document, at, waiting, passengers, edges, status>>
  BY DEF Return, JsonException, vars
<1>2. CASE Return
  <2>1. /\ pc = "times" /\ pc' = "returned" /\ at' = Len(document.times) + 1
        /\ status = "running"
    BY <1>2, DocumentFacts DEF Return, HasItem, LoadInv, LoadTypes, Visited, AllVisited
  <2> QED BY <1>1, <2>1 DEF LoadInv, LoadTypes, StationsVisited, StationsLoaded, LinesVisited,
             TimesVisited, Visited, AllVisited, WellFormedLoads, OnEdge, stationIdToNode
<1>3. CASE JsonException
  <2>1. pc' = "thrown" /\ status = "running"
    BY <1>3 DEF JsonException, LoadInv, Visited
  <2>2. ~WellFormed(document)
    <3>1. at \in Nat \ {0} /\ DOMAIN document.stations = 1..Len(document.stations)
          /\ DOMAIN document.times = 1..Len(document.times)
      BY DocumentFacts DEF LoadInv, LoadTypes
    <3>2. \/ Malformed \in ToSet(document.stations)
          \/ Malformed \in ToSet(document.lines)
          \/ Malformed \in ToSet(document.times)
      BY <1>3, <3>1 DEF JsonException, IsMalformed, HasItem, ToSet
    <3> QED BY <3>2 DEF WellFormed
  <2> QED BY <1>1, <2>1, <2>2 DEF LoadInv, LoadTypes, StationsVisited, StationsLoaded, LinesVisited,
             TimesVisited, Visited, AllVisited, WellFormedLoads
<1> QED BY <1>2, <1>3

LEMMA NextLoad == LoadInv /\ [LoadNext]_<<vars, loader>> => LoadInv' /\ [Next]_vars
<1> SUFFICES ASSUME LoadInv, [LoadNext]_<<vars, loader>> PROVE LoadInv' /\ [Next]_vars
  OBVIOUS
<1>1. CASE LoadNext
  <2>1. [Next]_vars
    BY <1>1, LoadStepsAreCalls
  <2>2. Inv'
    BY <2>1, NextInv DEF LoadInv
  <2> QED BY <1>1, <2>1, <2>2, LoadStationInv, ReadLinesInv, LoadLineInv, FailingLineInv,
             LinesLoadedInv, LoadTimeInv, LoadEndsInv DEF LoadNext
<1>2. CASE UNCHANGED <<vars, loader>>
  <2>1. Inv'
    BY <1>2, NextInv DEF LoadInv
  <2>2. UNCHANGED <<passengers, edges, status, document, pc, at, waiting>>
    BY <1>2 DEF vars, loader
  <2>3. LoadTypes' /\ StationsVisited' /\ StationsLoaded' /\ Visited' /\ WellFormedLoads'
    BY <2>2 DEF LoadInv, LoadTypes, StationsVisited, StationsLoaded, Visited, AllVisited,
       WellFormedLoads, stationIdToNode
  <2>4. LinesVisited' /\ TimesVisited'
    BY <2>2 DEF LoadInv, LinesVisited, TimesVisited, AllVisited, OnEdge
  <2> QED BY <1>2, <2>1, <2>3, <2>4 DEF LoadInv
<1> QED BY <1>1, <1>2

(* FromJson makes only calls that a caller of the network may make, so     *)
(* what is proved of the network holds during and after loading.           *)
THEOREM LoadingIsCalls == LoadSpec => Spec
<1>1. LoadInit => LoadInv /\ Init
  BY InitLoad DEF LoadInit
<1> QED BY <1>1, NextLoad, PTL DEF LoadSpec, Spec

(* A well-formed document, of any length, loads: FromJson neither throws   *)
(* nor crashes, in whatever order the hash map gives the lines.            *)
THEOREM WellFormedIsLoaded == LoadSpec => []WellFormedLoads
<1>1. LoadInv => WellFormedLoads
  BY DEF LoadInv
<1> QED BY <1>1, InitLoad, NextLoad, PTL DEF LoadSpec

(* When FromJson returns, the network holds the document, whatever it is.  *)
THEOREM LoadingIsExact == LoadSpec => []LoadedIsDocument
<1>1. ASSUME LoadInv PROVE LoadedIsDocument
  <2> SUFFICES ASSUME pc = "returned"
               PROVE  /\ stationIdToNode = ToSet(document.stations)
                      /\ DOMAIN edges = {leg.ends : leg \in Legs(document)}
                      /\ \A e \in DOMAIN edges :
                            /\ edges[e].routes
                                 = {leg.label : leg \in {l \in Legs(document) : l.ends = e}}
                            /\ edges[e].travelTime = LastTime(document, e)
    BY DEF LoadedIsDocument
  <2>1. /\ document \in Documents /\ Malformed \notin ToSet(document.lines)
        /\ stationIdToNode = ToSet(document.stations)
        /\ waiting = {} /\ at = Len(document.times) + 1 /\ status = "running"
    BY <1>1 DEF LoadInv, LoadTypes, StationsLoaded, Visited, AllVisited
  <2>2. \A e, label : OnEdge(e, label) <=> \E leg \in Legs(document) : leg.ends = e /\ leg.label = label
    <3>1. LineIds(document) \ waiting = LineIds(document)
      BY <2>1
    <3> QED BY <1>1, <2>1, <3>1, LegsAreHops DEF LoadInv, LinesVisited, AllVisited
  <2>3. \A e \in DOMAIN edges : \E label : OnEdge(e, label)
    BY <1>1, <2>1 DEF LoadInv, LinesVisited, AllVisited
  <2>4. DOMAIN edges = {leg.ends : leg \in Legs(document)}
    BY <2>2, <2>3 DEF OnEdge
  <2>5. \A e \in DOMAIN edges : edges[e].routes = {leg.label : leg \in {l \in Legs(document) : l.ends = e}}
    BY <2>2 DEF OnEdge
  <2>6. ASSUME NEW e \in DOMAIN edges PROVE edges[e].travelTime = LastTime(document, e)
    <3>1. edges[e].travelTime = TimeBefore(document, e, Len(document.times) + 1)
      BY <1>1, <2>1 DEF LoadInv, TimesVisited, AllVisited
    <3> DEFINE before == {i \in 1..Len(document.times) + 1 - 1 : About(document, e, i)}
               all == {i \in DOMAIN document.times : About(document, e, i)}
    <3>2. before = all
      BY <2>1, DocumentFacts
    <3>3. TimeBefore(document, e, Len(document.times) + 1) = LastOf(document, before)
      BY DEF TimeBefore
    <3>4. LastTime(document, e) = LastOf(document, all)
      BY Zenon DEF LastTime, About, LastOf
    <3> HIDE DEF before, all
    <3> QED BY <3>1, <3>2, <3>3, <3>4
  <2> QED BY <2>1, <2>4, <2>5, <2>6
<1> QED BY <1>1, InitLoad, NextLoad, PTL DEF LoadSpec
=============================================================================
