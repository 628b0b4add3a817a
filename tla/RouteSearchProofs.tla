------------------------- MODULE RouteSearchProofs -------------------------
(***************************************************************************)
(* Proofs about RouteSearch, for any graph, times, counts and modulus.     *)
(***************************************************************************)
EXTENDS RouteSearch, Induction, FiniteSetTheorems, TLAPS

(* A stop that is not waiting in the queue with its present metric has     *)
(* nothing left to improve at its neighbours.                              *)
RelaxedFrom(stop) ==
    \A n \in Successors(stop) :
       n \in DOMAIN metricFromA /\ metricFromA[n] <= NeighborMetric(stop, metricFromA[stop], n)

Waiting(stop) == [graphStop |-> stop, metric |-> metricFromA[stop]] \in nodesToVisit

WaitingOrRelaxed == \A stop \in DOMAIN metricFromA : Waiting(stop) \/ RelaxedFrom(stop)

EmptyAfterSearch == Searched => nodesToVisit = {}

Inv == TypeOK /\ WaitingOrRelaxed /\ EmptyAfterSearch

(* The numbers of a hop are integers, and a sum stays an unsigned int.     *)
LEMMA HopNumbers ==
    ASSUME TypeOK, NEW stop \in DOMAIN metricFromA, NEW n \in RouteStop
    PROVE  /\ HopTime(stop, n) \in Nat
           /\ Weight(stop, n) \in Int
           /\ \A m \in UnsignedInt : NeighborMetric(stop, m, n) \in UnsignedInt
           /\ NeighborDistance(stop, n) \in UnsignedInt
<1>1. stop.stationId \in Station /\ n.stationId \in Station
  BY GraphAssumption DEF TypeOK, Start
<1>2. travelTime[<<stop.stationId, n.stationId>>] \in Nat /\ count[n.stationId] \in Int
  BY <1>1, NumberAssumption DEF TypeOK, UnsignedInt
<1>3. HopTime(stop, n) \in Nat
  BY <1>2, NumberAssumption DEF HopTime
<1>4. Weight(stop, n) \in Int
  BY <1>2, <1>3 DEF Weight
<1>5. \A x \in Int : x % Modulus \in UnsignedInt
  BY NumberAssumption DEF UnsignedInt
<1>6. \A m \in UnsignedInt : NeighborMetric(stop, m, n) \in UnsignedInt
  BY <1>4, <1>5 DEF NeighborMetric, UnsignedInt
<1>7. NeighborDistance(stop, n) \in UnsignedInt
  <2>1. distanceFromA[stop] \in Int
    BY DEF TypeOK, UnsignedInt
  <2> QED BY <1>3, <1>5, <2>1 DEF NeighborDistance
<1> QED BY <1>3, <1>4, <1>6, <1>7

(* The stop the search starts from has no route: no edge leads to it.      *)
LEMMA StartIsNoSuccessor == Start \notin RouteStop
  BY GraphAssumption DEF Start

LEMMA InitInv == Init => Inv
<1> SUFFICES ASSUME Init PROVE Inv
  OBVIOUS
<1>1. TypeOK
  <2>1. PICK q \in Queries : /\ useDistance = q.useDistance
                            /\ travelTime = q.travelTime
                            /\ count = q.count
    BY DEF Init
  <2>2. /\ useDistance \in BOOLEAN
        /\ travelTime \in [Station \X Station -> UnsignedInt]
        /\ count \in [Station -> Int]
    BY <2>1, NumberAssumption DEF UnsignedInt
  <2>3. 0 \in UnsignedInt
    BY NumberAssumption DEF UnsignedInt
  <2> QED BY <2>2, <2>3 DEF Init, TypeOK
<1>2. WaitingOrRelaxed
  BY DEF Init, WaitingOrRelaxed, Waiting
<1>3. EmptyAfterSearch
  BY DEF Init, EmptyAfterSearch, Searched
<1> QED BY <1>1, <1>2, <1>3 DEF Inv

(* What a visit does to the maps.                                          *)
LEMMA VisitFacts ==
    ASSUME TypeOK, NEW e \in nodesToVisit, Visit(e)
    PROVE  LET better == Improved(e.graphStop, e.metric) IN
           /\ e.graphStop \in DOMAIN metricFromA /\ e.metric \in UnsignedInt
           /\ better \subseteq Successors(e.graphStop)
           /\ better \subseteq RouteStop
           /\ e.graphStop \notin better
           /\ DOMAIN metricFromA' = DOMAIN metricFromA \union better
           /\ DOMAIN distanceFromA' = DOMAIN metricFromA \union better
           /\ \A n \in DOMAIN metricFromA' : metricFromA'[n] = IF n \in better
                 THEN NeighborMetric(e.graphStop, e.metric, n) ELSE metricFromA[n]
           /\ \A n \in DOMAIN metricFromA' : distanceFromA'[n] = IF n \in better
                 THEN NeighborDistance(e.graphStop, n) ELSE distanceFromA[n]
<1>1. e.graphStop \in DOMAIN metricFromA /\ e.metric \in UnsignedInt
  BY DEF TypeOK
<1>2. Improved(e.graphStop, e.metric) \subseteq Successors(e.graphStop)
  BY DEF Improved
<1>3. Successors(e.graphStop) \subseteq RouteStop /\ e.graphStop \notin Successors(e.graphStop)
  BY GraphAssumption DEF Successors
<1>4. DOMAIN distanceFromA = DOMAIN metricFromA
  BY DEF TypeOK
<1> QED BY <1>1, <1>2, <1>3, <1>4 DEF Visit

LEMMA VisitType ==
    ASSUME TypeOK, NEW e \in nodesToVisit, Visit(e)
    PROVE  TypeOK'
<1> DEFINE stop == e.graphStop
           better == Improved(stop, e.metric)
           seen == DOMAIN metricFromA \union better
<1>1. /\ stop \in DOMAIN metricFromA /\ e.metric \in UnsignedInt
      /\ better \subseteq RouteStop /\ better \subseteq Successors(stop)
  BY VisitFacts
<1>2. Start' = Start /\ UNCHANGED <<arguments, phase, wayBack>>
  BY DEF Visit, arguments, Start
<1>3. \A n \in better : /\ NeighborMetric(stop, e.metric, n) \in UnsignedInt
                        /\ NeighborDistance(stop, n) \in UnsignedInt
  BY <1>1, HopNumbers
<1>4. /\ metricFromA' = [n \in seen |-> IF n \in better
                           THEN NeighborMetric(stop, e.metric, n) ELSE metricFromA[n]]
      /\ distanceFromA' = [n \in seen |-> IF n \in better
                           THEN NeighborDistance(stop, n) ELSE distanceFromA[n]]
      /\ stationIdToParent' = [n \in DOMAIN stationIdToParent \union better |->
                           IF n \in better THEN stop ELSE stationIdToParent[n]]
      /\ nodesToVisit' = (nodesToVisit \ {e}) \union
           {[graphStop |-> n, metric |-> NeighborMetric(stop, e.metric, n)] : n \in better}
  BY DEF Visit, ParentsAfter
<1> HIDE DEF better
<1>5. metricFromA' \in [seen -> UnsignedInt] /\ distanceFromA' \in [seen -> UnsignedInt]
  BY <1>3, <1>4 DEF TypeOK
<1>6. stationIdToParent' \in [seen \ {Start} -> seen]
  <2>1. DOMAIN stationIdToParent \union better = seen \ {Start}
    BY <1>1, StartIsNoSuccessor DEF TypeOK
  <2>2. \A n \in DOMAIN stationIdToParent : stationIdToParent[n] \in seen
    BY DEF TypeOK
  <2> QED BY <1>1, <1>4, <2>1, <2>2
<1>7. nodesToVisit' \subseteq [graphStop : seen, metric : UnsignedInt]
  <2>1. nodesToVisit \subseteq [graphStop : seen, metric : UnsignedInt]
    BY DEF TypeOK
  <2> QED BY <1>3, <1>4, <2>1
<1>8. seen = DOMAIN metricFromA' /\ seen \subseteq {Start} \union RouteStop /\ Start \in seen
  BY <1>1, <1>4 DEF TypeOK
<1>9. /\ stationA' \in Station /\ stationB' \in Station /\ useDistance' \in BOOLEAN
      /\ travelTime' \in [Station \X Station -> UnsignedInt] /\ count' \in [Station -> Int]
      /\ phase' \in {"search", "walk", "done", "crashed"}
      /\ currentStop' \in seen /\ endStop' \in seen
  BY <1>2 DEF TypeOK, arguments, wayBack
<1> HIDE DEF seen
<1> QED BY <1>2, <1>5, <1>6, <1>7, <1>8, <1>9 DEF TypeOK, UnsignedInt

(* A visit only ever lowers metrics, so what was relaxed stays relaxed; it *)
(* relaxes its own stop, unless the entry was stale and a better one waits.*)
LEMMA VisitRelaxed ==
    ASSUME TypeOK, WaitingOrRelaxed, NEW e \in nodesToVisit, Visit(e)
    PROVE  WaitingOrRelaxed'
<1> DEFINE stop == e.graphStop
           better == Improved(stop, e.metric)
<1>1. /\ stop \in DOMAIN metricFromA /\ e.metric \in UnsignedInt
      /\ better \subseteq RouteStop /\ better \subseteq Successors(stop) /\ stop \notin better
      /\ DOMAIN metricFromA' = DOMAIN metricFromA \union better
      /\ \A n \in DOMAIN metricFromA' : metricFromA'[n] = IF n \in better
            THEN NeighborMetric(stop, e.metric, n) ELSE metricFromA[n]
  BY VisitFacts
<1>2. UNCHANGED arguments
  BY DEF Visit
<1>3. \A s, m, n : /\ NeighborMetric(s, m, n)' = NeighborMetric(s, m, n)
                   /\ Successors(s)' = Successors(s)
  BY <1>2 DEF NeighborMetric, Weight, HopTime, Changes, Successors, arguments
<1>4. \A n \in DOMAIN metricFromA : metricFromA[n] \in Int
  BY DEF TypeOK, UnsignedInt
<1>5. \A n \in better : NeighborMetric(stop, e.metric, n) \in Int
  BY <1>1, HopNumbers DEF UnsignedInt
<1>6. \A n \in DOMAIN metricFromA : n \in DOMAIN metricFromA' /\ metricFromA'[n] <= metricFromA[n]
  BY <1>1, <1>4, <1>5 DEF Improved
<1>7. \A s \in DOMAIN metricFromA : s \notin better /\ RelaxedFrom(s) => RelaxedFrom(s)'
  <2> SUFFICES ASSUME NEW s \in DOMAIN metricFromA, s \notin better, RelaxedFrom(s),
                      NEW n \in Successors(s)
               PROVE  /\ n \in DOMAIN metricFromA'
                      /\ metricFromA'[n] <= NeighborMetric(s, metricFromA'[s], n)
    BY <1>3 DEF RelaxedFrom
  <2>1. n \in DOMAIN metricFromA /\ metricFromA[n] <= NeighborMetric(s, metricFromA[s], n)
    BY DEF RelaxedFrom
  <2>2. metricFromA'[s] = metricFromA[s] /\ metricFromA[s] \in UnsignedInt
    BY <1>1 DEF TypeOK
  <2>3. metricFromA'[n] \in Int /\ NeighborMetric(s, metricFromA[s], n) \in Int
    <3>1. n \in RouteStop
      BY DEF Successors
    <3>2. metricFromA'[n] \in Int
      BY <1>1, <1>4, <1>5, <2>1
    <3>3. NeighborMetric(s, metricFromA[s], n) \in UnsignedInt
      BY <2>2, <3>1, HopNumbers
    <3> QED BY <3>2, <3>3 DEF UnsignedInt
  <2> QED BY <1>4, <1>6, <2>1, <2>2, <2>3
<1>8. SUFFICES ASSUME NEW s \in DOMAIN metricFromA'
               PROVE  Waiting(s)' \/ RelaxedFrom(s)'
  BY DEF WaitingOrRelaxed
<1>9. nodesToVisit' = (nodesToVisit \ {e}) \union
        {[graphStop |-> n, metric |-> NeighborMetric(stop, e.metric, n)] : n \in better}
  BY DEF Visit
<1>10. CASE s \in better
  BY <1>1, <1>9, <1>10 DEF Waiting
<1>11. CASE s \notin better /\ Waiting(s) /\ [graphStop |-> s, metric |-> metricFromA[s]] # e
  <2>1. metricFromA'[s] = metricFromA[s]
    BY <1>1, <1>11
  <2> QED BY <1>9, <1>11, <2>1 DEF Waiting
<1>12. CASE s \notin better /\ [graphStop |-> s, metric |-> metricFromA[s]] = e
  <2>1. s = stop /\ e.metric = metricFromA[s] /\ metricFromA'[s] = e.metric
    BY <1>1, <1>12
  <2>2. \A n \in Successors(s) :
           n \in DOMAIN metricFromA' /\ metricFromA'[n] <= NeighborMetric(s, e.metric, n)
    <3> SUFFICES ASSUME NEW n \in Successors(s)
                 PROVE  n \in DOMAIN metricFromA' /\ metricFromA'[n] <= NeighborMetric(s, e.metric, n)
      OBVIOUS
    <3>1. NeighborMetric(s, e.metric, n) \in Int
      BY <1>1, <2>1, HopNumbers DEF UnsignedInt, Successors
    <3>2. CASE n \in better
      BY <1>1, <2>1, <3>1, <3>2
    <3>3. CASE n \notin better
      <4>1. n \in DOMAIN metricFromA /\ ~(NeighborMetric(s, e.metric, n) < metricFromA[n])
        BY <2>1, <3>3 DEF Improved
      <4> QED BY <1>1, <1>4, <3>1, <3>3, <4>1
    <3> QED BY <3>2, <3>3
  <2> QED BY <1>3, <2>1, <2>2 DEF RelaxedFrom
<1>13. CASE s \notin better /\ RelaxedFrom(s)
  BY <1>1, <1>7, <1>13
<1> QED BY <1>1, <1>10, <1>11, <1>12, <1>13 DEF WaitingOrRelaxed

(* Once the search is over, the maps and the queue stay as they are.       *)
LEMMA MapsUnchangedInv ==
    ASSUME Inv, UNCHANGED <<arguments, maps>>,
           phase' \in {"search", "walk", "done", "crashed"},
           currentStop' \in DOMAIN metricFromA, endStop' \in DOMAIN metricFromA,
           Searched' => nodesToVisit = {}
    PROVE  Inv'
<1> USE DEF arguments, maps
<1>1. Start' = Start
  BY DEF Start
<1>2. TypeOK'
  BY <1>1 DEF Inv, TypeOK, UnsignedInt
<1>3. WaitingOrRelaxed'
  <2>1. \A s, m, n : /\ NeighborMetric(s, m, n)' = NeighborMetric(s, m, n)
                     /\ Successors(s)' = Successors(s)
    BY DEF NeighborMetric, Weight, HopTime, Changes, Successors
  <2> QED BY <2>1 DEF Inv, WaitingOrRelaxed, Waiting, RelaxedFrom
<1>4. EmptyAfterSearch'
  BY DEF EmptyAfterSearch
<1> QED BY <1>2, <1>3, <1>4 DEF Inv

LEMMA NextInv == Inv /\ [Next]_vars => Inv'
<1> SUFFICES ASSUME Inv, [Next]_vars PROVE Inv'
  OBVIOUS
<1>1. ASSUME NEW e \in nodesToVisit, Visit(e) PROVE Inv'
  <2>1. EmptyAfterSearch'
    BY <1>1 DEF Visit, EmptyAfterSearch, Searched, arguments
  <2> QED BY <1>1, <2>1, VisitType, VisitRelaxed DEF Inv
<1> USE DEF arguments, wayBack
<1>2. CASE SameStation
  BY <1>2, MapsUnchangedInv DEF SameStation, Inv, TypeOK, Searched
<1>3. ASSUME NEW e \in nodesToVisit, VisitUnknown(e) PROVE Inv'
  BY <1>3, MapsUnchangedInv DEF VisitUnknown, Inv, TypeOK, Searched
<1>4. CASE PickEnd
  <2>1. currentStop' \in DOMAIN metricFromA /\ endStop' \in DOMAIN metricFromA
    BY <1>4 DEF PickEnd, Best, SeenAt
  <2> QED BY <1>4, <2>1, MapsUnchangedInv DEF PickEnd
<1>5. CASE NoPath
  BY <1>5, MapsUnchangedInv DEF NoPath, Inv, TypeOK
<1>6. CASE WalkBack
  <2>1. /\ nodesToVisit = {} \/ ~Searched
        /\ phase' = phase /\ UNCHANGED <<arguments, maps, endStop>>
    BY <1>6 DEF WalkBack, Inv, EmptyAfterSearch
  <2>2. stationIdToParent[currentStop] \in DOMAIN metricFromA
    BY <1>6 DEF WalkBack, Inv, TypeOK, Start
  <2>3. currentStop' \in DOMAIN metricFromA
    BY <1>6, <2>2 DEF WalkBack
  <2> QED BY <2>1, <2>3, MapsUnchangedInv DEF Inv, TypeOK, Searched
<1>7. CASE Arrive
  BY <1>7, MapsUnchangedInv DEF Arrive, Inv, TypeOK, EmptyAfterSearch, Searched
<1>8. CASE UNCHANGED vars
  BY <1>8, MapsUnchangedInv DEF vars, Inv, TypeOK, EmptyAfterSearch, Searched
<1> QED BY <1>1, <1>2, <1>3, <1>4, <1>5, <1>6, <1>7, <1>8 DEF Next

(* Every variable has its type; in particular every stop of the way back   *)
(* but the first has a parent that was seen.                               *)
THEOREM TypeCorrect == Spec => []TypeOK
<1>1. Inv => TypeOK BY DEF Inv
<1> QED BY InitInv, NextInv, <1>1, PTL DEF Spec

(* For all counts, negative ones too, and whether or not sums wrap, the    *)
(* search stops only when no edge could lower a metric.                    *)
THEOREM SearchIsExhaustive == Spec => []NothingLeftToRelax
<1>1. Inv => NothingLeftToRelax
  BY DEF Inv, EmptyAfterSearch, WaitingOrRelaxed, Waiting, RelaxedFrom, NothingLeftToRelax
<1> QED BY InitInv, NextInv, <1>1, PTL DEF Spec
-----------------------------------------------------------------------------
(* The same of the numbers the variables hold: see NumbersFit.             *)
HopsFit(w) ==
    /\ w \in Nat
    /\ IsFiniteSet(RouteStop)
    /\ w * (Cardinality(RouteStop) + 2) < Modulus
    /\ \A arc \in Arcs :
          /\ travelTime[<<arc[1], arc[2].stationId>>] + Penalty <= w
          /\ ~useDistance => /\ count[arc[2].stationId] \in Nat
                             /\ 2 * count[arc[2].stationId] <= w

(* The stops that were visited since they were last improved.              *)
Settled == {stop \in DOMAIN metricFromA : ~Waiting(stop)}

(* No sum of hops is larger: it has at most as many as there are stops     *)
(* settled.                                                                *)
Bound(w) == w * Cardinality(Settled)

StartFirst ==
    /\ metricFromA[Start] = 0 /\ distanceFromA[Start] = 0
    /\ Start \in Settled \/ nodesToVisit = {[graphStop |-> Start, metric |-> 0]}

SettledInOrder ==
    \A e \in nodesToVisit : /\ metricFromA[e.graphStop] <= e.metric
                            /\ \A stop \in Settled : metricFromA[stop] <= e.metric

NoWrap(w) ==
    /\ \A e \in nodesToVisit : e.metric <= Bound(w)
    /\ \A stop \in DOMAIN metricFromA : distanceFromA[stop] <= Bound(w)

ParentsFit ==
    \A n \in DOMAIN stationIdToParent :
       LET parent == stationIdToParent[n] IN
       /\ parent \in Settled
       /\ n \in Successors(parent)
       /\ metricFromA[n] = metricFromA[parent] + Weight(parent, n)
       /\ distanceFromA[n] = distanceFromA[parent] + HopTime(parent, n)
       /\ parent.stationId = stationA => parent = Start

MetricIsDistance == useDistance => distanceFromA = metricFromA

IsRank(rank) ==
    /\ rank \in [Settled -> Nat]
    /\ \A stop \in Settled : rank[stop] < Cardinality(Settled)
    /\ \A n \in DOMAIN stationIdToParent :
          n \in Settled => rank[stationIdToParent[n]] < rank[n]

MapsOK(w) ==
    /\ StartFirst
    /\ SettledInOrder
    /\ NoWrap(w)
    /\ ParentsFit
    /\ MetricIsDistance
    /\ \E rank : IsRank(rank)

(* A hop costs something between nothing and w, and no more from the start *)
(* than from any other stop at its station.                                *)
LEMMA HopBounds ==
    ASSUME TypeOK, NEW w, HopsFit(w), NEW stop \in DOMAIN metricFromA, NEW n \in Successors(stop)
    PROVE  /\ n \in RouteStop
           /\ HopTime(stop, n) \in 0..w
           /\ Weight(stop, n) \in 0..w
           /\ stop.stationId = stationA => /\ Weight(Start, n) \in Nat
                                           /\ Weight(Start, n) <= Weight(stop, n)
<1>1. n \in RouteStop /\ <<stop.stationId, n>> \in Arcs
  BY DEF Successors
<1>2. stop.stationId \in Station /\ n.stationId \in Station /\ stationA \in Station
  BY <1>1, GraphAssumption DEF TypeOK, Start
<1> DEFINE t == travelTime[<<stop.stationId, n.stationId>>]
           t0 == travelTime[<<stationA, n.stationId>>]
           c == count[n.stationId]
<1>3. t \in Nat /\ c \in Int /\ t0 \in Nat /\ Penalty \in Nat
  BY <1>2, NumberAssumption DEF TypeOK, UnsignedInt
<1>4. w \in Nat /\ t + Penalty <= w /\ (~useDistance => c \in Nat /\ 2 * c <= w)
  BY <1>1 DEF HopsFit
<1>5. ~Changes(Start, n) /\ Start.stationId = stationA
  BY DEF Changes, Start
<1>6. stop.stationId = stationA => t0 = t
  OBVIOUS
<1>7. HopTime(stop, n) = t + IF Changes(stop, n) THEN Penalty ELSE 0
  BY DEF HopTime
<1>8. HopTime(Start, n) = t0
  BY <1>3, <1>5 DEF HopTime
<1>9. Weight(stop, n) = IF useDistance THEN HopTime(stop, n)
                        ELSE c + IF Changes(stop, n) THEN c ELSE 0
  BY DEF Weight
<1>10. Weight(Start, n) = IF useDistance THEN t0 ELSE c
  BY <1>3, <1>5, <1>8 DEF Weight
<1> HIDE DEF t, t0, c
<1>11. HopTime(stop, n) \in 0..w
  BY <1>3, <1>4, <1>7
<1>12. Weight(stop, n) \in 0..w
  BY <1>3, <1>4, <1>9, <1>11
<1> QED BY <1>1, <1>3, <1>4, <1>6, <1>7, <1>9, <1>10, <1>11, <1>12

(* There are never more stops settled than there are stops in all.         *)
LEMMA SettledSize ==
    ASSUME TypeOK, IsFiniteSet(RouteStop)
    PROVE  /\ IsFiniteSet(Settled)
           /\ Cardinality(Settled) \in Nat
           /\ Cardinality(Settled) <= Cardinality(RouteStop) + 1
           /\ \A stop \in DOMAIN metricFromA \ Settled :
                 Cardinality(Settled \union {stop}) = Cardinality(Settled) + 1
<1> DEFINE all == RouteStop \union {Start}
<1>1. IsFiniteSet(all) /\ Cardinality(all) = Cardinality(RouteStop) + 1
  BY FS_AddElement, StartIsNoSuccessor
<1>2. Settled \in SUBSET all
  BY DEF Settled, TypeOK
<1> HIDE DEF all
<1>3. IsFiniteSet(Settled) /\ Cardinality(Settled) <= Cardinality(all)
  BY <1>1, <1>2, FS_Subset
<1>4. Cardinality(Settled) \in Nat
  BY <1>3, FS_CardinalityType
<1>5. ASSUME NEW stop \in DOMAIN metricFromA \ Settled
      PROVE  Cardinality(Settled \union {stop}) = Cardinality(Settled) + 1
  BY <1>3, FS_AddElement
<1> QED BY <1>1, <1>3, <1>4, <1>5

(* So no sum of hops wraps.                                                *)
LEMMA BoundFits ==
    ASSUME TypeOK, NEW w, HopsFit(w)
    PROVE  Bound(w) \in Nat /\ Bound(w) + w < Modulus
<1>1. /\ w \in Nat /\ Cardinality(Settled) \in Nat /\ Cardinality(RouteStop) \in Nat
      /\ Cardinality(Settled) <= Cardinality(RouteStop) + 1
      /\ w * (Cardinality(RouteStop) + 2) < Modulus
  BY SettledSize, FS_CardinalityType DEF HopsFit
<1>2. \A v, k, m \in Nat : k <= m + 1 => v * k \in Nat /\ v * k + v <= v * (m + 2)
  <2> SUFFICES ASSUME NEW v \in Nat, NEW k \in Nat, NEW m \in Nat, k <= m + 1
               PROVE  v * k \in Nat /\ v * k + v <= v * (m + 2)
    OBVIOUS
  <2>1. v * k + v = v * (k + 1) /\ v * (m + 2) = v * (k + 1) + v * (m + 1 - k)
    OBVIOUS
  <2>2. v * (m + 1 - k) \in Nat /\ v * k \in Nat
    OBVIOUS
  <2> QED BY <2>1, <2>2
<1>3. Modulus \in Nat
  BY NumberAssumption
<1> DEFINE k == Cardinality(Settled)
           m == Cardinality(RouteStop)
<1>4. w * k \in Nat /\ w * k + w <= w * (m + 2) /\ w * (m + 2) \in Nat
  BY <1>1, <1>2
<1> QED BY <1>1, <1>3, <1>4 DEF Bound

(* A stale entry, of a stop that was settled or improved after the entry   *)
(* was made, changes nothing but the queue.                                *)
LEMMA StaleVisit ==
    ASSUME Inv, NEW w, HopsFit(w), MapsOK(w), NEW e \in nodesToVisit, Visit(e),
           e.metric # metricFromA[e.graphStop]
    PROVE  /\ UNCHANGED <<metricFromA, distanceFromA, stationIdToParent>>
           /\ nodesToVisit' = nodesToVisit \ {e}
           /\ Settled' = Settled
           /\ Start \in Settled
<1> DEFINE stop == e.graphStop
           better == Improved(stop, e.metric)
<1>1. stop \in DOMAIN metricFromA /\ e.metric \in UnsignedInt /\ metricFromA[stop] \in Nat
  BY DEF Inv, TypeOK, UnsignedInt
<1>2. metricFromA[stop] < e.metric
  BY <1>1 DEF MapsOK, SettledInOrder, UnsignedInt
<1>3. ~Waiting(stop)
  BY <1>1, <1>2 DEF Visit, Tops, Waiting, UnsignedInt
<1>4. RelaxedFrom(stop)
  BY <1>1, <1>3 DEF Inv, WaitingOrRelaxed
<1>5. ASSUME NEW n \in Successors(stop)
      PROVE  n \in DOMAIN metricFromA /\ metricFromA[n] <= NeighborMetric(stop, e.metric, n)
  <2>1. n \in DOMAIN metricFromA /\ metricFromA[n] <= NeighborMetric(stop, metricFromA[stop], n)
    BY <1>4 DEF RelaxedFrom
  <2>2. metricFromA[n] \in Nat
    BY <2>1 DEF Inv, TypeOK, UnsignedInt
  <2>3. Weight(stop, n) \in 0..w /\ w \in Nat
    BY <1>1, HopBounds DEF Inv, HopsFit
  <2>4. e.metric + w < Modulus /\ Modulus \in Nat
    BY <1>1, BoundFits, NumberAssumption, <2>3 DEF Inv, MapsOK, NoWrap, UnsignedInt
  <2>5. NeighborMetric(stop, e.metric, n) = e.metric + Weight(stop, n)
    BY <1>1, <2>3, <2>4 DEF NeighborMetric, UnsignedInt
  <2>6. NeighborMetric(stop, metricFromA[stop], n) = metricFromA[stop] + Weight(stop, n)
    BY <1>1, <1>2, <2>3, <2>4 DEF NeighborMetric, UnsignedInt
  <2> QED BY <1>1, <1>2, <2>1, <2>2, <2>3, <2>5, <2>6 DEF UnsignedInt
<1>6. better = {}
  <2> SUFFICES ASSUME NEW n \in better PROVE FALSE
    OBVIOUS
  <2>1. /\ n \in Successors(stop)
        /\ n \notin DOMAIN metricFromA \/ NeighborMetric(stop, e.metric, n) < metricFromA[n]
    BY DEF Improved
  <2>2. n \in RouteStop /\ n \in DOMAIN metricFromA
    BY <1>5, <2>1 DEF Successors
  <2>3. NeighborMetric(stop, e.metric, n) \in Nat /\ metricFromA[n] \in Nat
    BY <1>1, <2>2, HopNumbers DEF Inv, TypeOK, UnsignedInt
  <2> QED BY <1>5, <2>1, <2>2, <2>3
<1>7. /\ metricFromA' = [n \in DOMAIN metricFromA |-> metricFromA[n]]
      /\ distanceFromA' = [n \in DOMAIN metricFromA |-> distanceFromA[n]]
      /\ stationIdToParent' = [n \in DOMAIN stationIdToParent |-> stationIdToParent[n]]
      /\ nodesToVisit' = nodesToVisit \ {e}
  <2> HIDE DEF better
  <2>1. /\ metricFromA' = [n \in DOMAIN metricFromA \union better |-> IF n \in better
                           THEN NeighborMetric(stop, e.metric, n) ELSE metricFromA[n]]
        /\ distanceFromA' = [n \in DOMAIN metricFromA \union better |-> IF n \in better
                           THEN NeighborDistance(stop, n) ELSE distanceFromA[n]]
        /\ stationIdToParent' = [n \in DOMAIN stationIdToParent \union better |->
                           IF n \in better THEN stop ELSE stationIdToParent[n]]
        /\ nodesToVisit' = (nodesToVisit \ {e}) \union
              {[graphStop |-> n, metric |-> NeighborMetric(stop, e.metric, n)] : n \in better}
    BY DEF Visit, ParentsAfter, better
  <2> QED BY <1>6, <2>1
<1>8. UNCHANGED <<metricFromA, distanceFromA, stationIdToParent>>
  BY <1>7 DEF Inv, TypeOK
<1>9. Settled' = Settled
  <2>1. \A s \in DOMAIN metricFromA : Waiting(s)' <=> Waiting(s)
    BY <1>7, <1>8 DEF Waiting
  <2> QED BY <1>8, <2>1 DEF Settled
<1>10. Start \in Settled
  BY <1>2, <1>1 DEF MapsOK, StartFirst, UnsignedInt
<1> QED BY <1>7, <1>8, <1>9, <1>10

(* An entry that is up to date settles its stop. What it improves was not  *)
(* settled, and no sum wraps.                                              *)
LEMMA FreshVisit ==
    ASSUME Inv, NEW w, HopsFit(w), MapsOK(w), NEW e \in nodesToVisit, Visit(e),
           e.metric = metricFromA[e.graphStop]
    PROVE  LET stop   == e.graphStop
               better == Improved(stop, e.metric)
           IN  /\ stop \in DOMAIN metricFromA \ Settled
               /\ \A n \in better :
                     /\ n \notin Settled
                     /\ Weight(stop, n) \in 0..w /\ HopTime(stop, n) \in 0..w
                     /\ NeighborMetric(stop, e.metric, n) = metricFromA[stop] + Weight(stop, n)
                     /\ NeighborDistance(stop, n) = distanceFromA[stop] + HopTime(stop, n)
                     /\ n \in DOMAIN metricFromA =>
                           metricFromA[stop] + Weight(stop, n) < metricFromA[n]
               /\ Settled' = Settled \union {stop}
               /\ stop.stationId = stationA /\ stop # Start => better = {}
<1> DEFINE stop == e.graphStop
           better == Improved(stop, e.metric)
<1>1. /\ stop \in DOMAIN metricFromA /\ e.metric \in Nat
      /\ e = [graphStop |-> stop, metric |-> metricFromA[stop]]
  BY DEF Inv, TypeOK, UnsignedInt
<1>2. Waiting(stop) /\ stop \notin Settled
  BY <1>1 DEF Waiting, Settled
<1>3. Bound(w) \in Nat /\ Bound(w) + w < Modulus /\ Modulus \in Nat /\ w \in Nat
  BY BoundFits, NumberAssumption DEF Inv, HopsFit
<1>4. e.metric <= Bound(w) /\ distanceFromA[stop] \in Nat /\ distanceFromA[stop] <= Bound(w)
  BY <1>1 DEF MapsOK, NoWrap, Inv, TypeOK, UnsignedInt
<1>5. ASSUME NEW n \in Successors(stop)
      PROVE  /\ Weight(stop, n) \in 0..w /\ HopTime(stop, n) \in 0..w
             /\ NeighborMetric(stop, e.metric, n) = e.metric + Weight(stop, n)
             /\ NeighborDistance(stop, n) = distanceFromA[stop] + HopTime(stop, n)
  <2>1. Weight(stop, n) \in 0..w /\ HopTime(stop, n) \in 0..w
    BY <1>1, HopBounds DEF Inv
  <2>2. \A x \in Nat : x < Modulus => x % Modulus = x
    BY <1>3
  <2>3. /\ e.metric + Weight(stop, n) \in Nat /\ e.metric + Weight(stop, n) < Modulus
        /\ distanceFromA[stop] + HopTime(stop, n) \in Nat
        /\ distanceFromA[stop] + HopTime(stop, n) < Modulus
    BY <1>1, <1>3, <1>4, <2>1
  <2> QED BY <2>1, <2>2, <2>3 DEF NeighborMetric, NeighborDistance
<1>6. ASSUME NEW n \in better
      PROVE  /\ n \in Successors(stop)
             /\ n \in DOMAIN metricFromA =>
                   /\ metricFromA[n] \in Nat
                   /\ e.metric + Weight(stop, n) < metricFromA[n]
             /\ n \notin Settled
  <2>1. /\ n \in Successors(stop)
        /\ n \in DOMAIN metricFromA => NeighborMetric(stop, e.metric, n) < metricFromA[n]
    BY DEF Improved
  <2>2. n \in DOMAIN metricFromA => metricFromA[n] \in Nat
    BY DEF Inv, TypeOK, UnsignedInt
  <2>3. n \in Settled => metricFromA[n] <= e.metric /\ n \in DOMAIN metricFromA
    BY DEF MapsOK, SettledInOrder, Settled
  <2> QED BY <1>1, <1>5, <2>1, <2>2, <2>3
<1>7. stop \notin better
  BY <1>6, GraphAssumption DEF Successors
<1>8. Settled' = Settled \union {stop}
  <2>1. /\ DOMAIN metricFromA' = DOMAIN metricFromA \union better
        /\ \A n \in DOMAIN metricFromA' : metricFromA'[n] = IF n \in better
              THEN NeighborMetric(stop, e.metric, n) ELSE metricFromA[n]
    BY VisitFacts DEF Inv
  <2>2. nodesToVisit' = (nodesToVisit \ {e}) \union
           {[graphStop |-> n, metric |-> NeighborMetric(stop, e.metric, n)] : n \in better}
    BY DEF Visit
  <2> HIDE DEF better
  <2>3. ASSUME NEW s \in better PROVE Waiting(s)'
    BY <2>1, <2>2 DEF Waiting
  <2>4. ASSUME NEW s \in DOMAIN metricFromA, s \notin better
        PROVE  Waiting(s)' <=> Waiting(s) /\ s # stop
    <3>1. metricFromA'[s] = metricFromA[s]
      BY <2>1, <2>4
    <3>2. Waiting(s)' <=> [graphStop |-> s, metric |-> metricFromA[s]] \in nodesToVisit \ {e}
      BY <2>2, <2>4, <3>1 DEF Waiting
    <3> QED BY <1>1, <3>2 DEF Waiting
  <2> QED BY <1>1, <1>6, <1>7, <2>1, <2>3, <2>4 DEF Settled
<1>9. ASSUME stop.stationId = stationA, stop # Start PROVE better = {}
  <2>1. Start \in Settled /\ metricFromA[Start] = 0
    BY <1>1, <1>9 DEF MapsOK, StartFirst
  <2>2. RelaxedFrom(Start)
    BY <2>1 DEF Settled, Inv, WaitingOrRelaxed
  <2> SUFFICES ASSUME NEW n \in better PROVE FALSE
    OBVIOUS
  <2>3. n \in Successors(stop) /\ n \in Successors(Start)
    BY <1>6, <1>9 DEF Successors, Start
  <2>4. n \in DOMAIN metricFromA /\ metricFromA[n] <= NeighborMetric(Start, 0, n)
    BY <2>1, <2>2, <2>3 DEF RelaxedFrom
  <2>5. Weight(Start, n) \in Nat /\ Weight(Start, n) <= Weight(stop, n)
    BY <1>1, <1>9, <2>3, HopBounds DEF Inv
  <2>6. NeighborMetric(Start, 0, n) = Weight(Start, n)
    <3>1. Weight(Start, n) < Modulus
      BY <1>3, <1>5, <2>3, <2>5
    <3>2. 0 + Weight(Start, n) = Weight(Start, n) /\ Weight(Start, n) % Modulus = Weight(Start, n)
      BY <1>3, <2>5, <3>1
    <3> QED BY <3>2 DEF NeighborMetric
  <2> QED BY <1>1, <1>5, <1>6, <2>3, <2>4, <2>5, <2>6
<1> HIDE DEF better
<1>10. \A n \in better :
          /\ n \notin Settled
          /\ Weight(stop, n) \in 0..w /\ HopTime(stop, n) \in 0..w
          /\ NeighborMetric(stop, e.metric, n) = metricFromA[stop] + Weight(stop, n)
          /\ NeighborDistance(stop, n) = distanceFromA[stop] + HopTime(stop, n)
          /\ n \in DOMAIN metricFromA => metricFromA[stop] + Weight(stop, n) < metricFromA[n]
  BY <1>5, <1>6
<1> QED BY <1>1, <1>2, <1>8, <1>9, <1>10 DEF better

(* So the order is kept, and the number of stops settled bounds every sum. *)
LEMMA FreshVisitMapsOK ==
    ASSUME Inv, NEW w, HopsFit(w), MapsOK(w), NEW e \in nodesToVisit, Visit(e),
           e.metric = metricFromA[e.graphStop]
    PROVE  MapsOK(w)'
<1> DEFINE stop == e.graphStop
           better == Improved(stop, e.metric)
<1>1. /\ stop \in DOMAIN metricFromA /\ e.metric = metricFromA[stop]
      /\ e.metric \in Nat /\ stop \notin better /\ better \subseteq RouteStop
      /\ better \subseteq Successors(stop)
  <2>1. e.metric \in UnsignedInt => e.metric \in Nat
    BY DEF UnsignedInt
  <2> QED BY <2>1, VisitFacts DEF Inv
<1>2. /\ stop \notin Settled
      /\ \A n \in better :
            /\ n \notin Settled
            /\ Weight(stop, n) \in 0..w /\ HopTime(stop, n) \in 0..w
            /\ NeighborMetric(stop, e.metric, n) = metricFromA[stop] + Weight(stop, n)
            /\ NeighborDistance(stop, n) = distanceFromA[stop] + HopTime(stop, n)
            /\ n \in DOMAIN metricFromA => metricFromA[stop] + Weight(stop, n) < metricFromA[n]
      /\ Settled' = Settled \union {stop}
      /\ stop.stationId = stationA /\ stop # Start => better = {}
  BY FreshVisit
<1> HIDE DEF better
<1>3. /\ DOMAIN metricFromA' = DOMAIN metricFromA \union better
      /\ DOMAIN distanceFromA' = DOMAIN metricFromA \union better
      /\ DOMAIN stationIdToParent' = DOMAIN stationIdToParent \union better
      /\ \A n \in better : /\ metricFromA'[n] = metricFromA[stop] + Weight(stop, n)
                           /\ distanceFromA'[n] = distanceFromA[stop] + HopTime(stop, n)
                           /\ stationIdToParent'[n] = stop
      /\ \A n \in DOMAIN metricFromA \ better : /\ metricFromA'[n] = metricFromA[n]
                                               /\ distanceFromA'[n] = distanceFromA[n]
      /\ \A n \in DOMAIN stationIdToParent \ better :
            stationIdToParent'[n] = stationIdToParent[n]
      /\ nodesToVisit' = (nodesToVisit \ {e}) \union
            {[graphStop |-> n, metric |-> metricFromA[stop] + Weight(stop, n)] : n \in better}
  <2>1. /\ metricFromA' = [n \in DOMAIN metricFromA \union better |-> IF n \in better
                           THEN NeighborMetric(stop, e.metric, n) ELSE metricFromA[n]]
        /\ distanceFromA' = [n \in DOMAIN metricFromA \union better |-> IF n \in better
                           THEN NeighborDistance(stop, n) ELSE distanceFromA[n]]
        /\ stationIdToParent' = [n \in DOMAIN stationIdToParent \union better |->
                           IF n \in better THEN stop ELSE stationIdToParent[n]]
        /\ nodesToVisit' = (nodesToVisit \ {e}) \union
              {[graphStop |-> n, metric |-> NeighborMetric(stop, e.metric, n)] : n \in better}
    BY DEF Visit, ParentsAfter, better
  <2> QED BY <1>2, <2>1
<1>4. /\ UNCHANGED arguments /\ Start' = Start
      /\ \A s, n : /\ Weight(s, n)' = Weight(s, n) /\ HopTime(s, n)' = HopTime(s, n)
                   /\ Successors(s)' = Successors(s)
  BY DEF Visit, arguments, Start, Weight, HopTime, Changes, Successors
<1>5. /\ Settled \subseteq DOMAIN metricFromA
      /\ metricFromA \in [DOMAIN metricFromA -> Nat]
      /\ distanceFromA \in [DOMAIN metricFromA -> Nat]
      /\ \A x \in nodesToVisit : x.graphStop \in DOMAIN metricFromA /\ x.metric \in Nat
      /\ DOMAIN stationIdToParent = DOMAIN metricFromA \ {Start}
      /\ Start \in DOMAIN metricFromA
  BY DEF Inv, TypeOK, Settled, UnsignedInt
<1>6. \A s \in Settled \union {stop} :
         /\ s \notin better /\ metricFromA'[s] = metricFromA[s]
         /\ distanceFromA'[s] = distanceFromA[s]
  BY <1>1, <1>2, <1>3, <1>5
<1>7. \A x \in nodesToVisit : e.metric <= x.metric
  BY DEF Visit, Tops
<1>8. Start \notin better
  BY <1>1, StartIsNoSuccessor
<1>9. StartFirst'
  <2>1. metricFromA'[Start] = 0 /\ distanceFromA'[Start] = 0
    BY <1>3, <1>5, <1>8 DEF MapsOK, StartFirst
  <2>2. Start \in Settled'
    BY <1>2 DEF MapsOK, StartFirst
  <2> QED BY <1>4, <2>1, <2>2 DEF StartFirst
<1>10. SettledInOrder'
  <2> SUFFICES ASSUME NEW x \in nodesToVisit'
               PROVE  /\ metricFromA'[x.graphStop] <= x.metric
                      /\ \A s \in Settled \union {stop} : metricFromA[s] <= x.metric
    BY <1>2, <1>6 DEF SettledInOrder
  <2>1. CASE x \in nodesToVisit
    <3>1. metricFromA[x.graphStop] <= x.metric /\ \A s \in Settled : metricFromA[s] <= x.metric
      BY <2>1 DEF MapsOK, SettledInOrder
    <3>2. metricFromA'[x.graphStop] <= metricFromA[x.graphStop]
      BY <1>1, <1>2, <1>3, <1>5, <2>1
    <3>3. metricFromA'[x.graphStop] \in Nat
      BY <1>1, <1>2, <1>3, <1>5, <2>1
    <3> QED BY <1>1, <1>5, <1>7, <2>1, <3>1, <3>2, <3>3
  <2>2. ASSUME NEW n \in better,
               x = [graphStop |-> n, metric |-> metricFromA[stop] + Weight(stop, n)]
        PROVE  /\ metricFromA'[x.graphStop] <= x.metric
               /\ \A s \in Settled \union {stop} : metricFromA[s] <= x.metric
    <3>1. \A s \in Settled : metricFromA[s] <= e.metric
      BY DEF MapsOK, SettledInOrder
    <3>2. /\ x.graphStop = n /\ x.metric = e.metric + Weight(stop, n)
          /\ metricFromA'[n] = e.metric + Weight(stop, n) /\ Weight(stop, n) \in Nat
      BY <1>1, <1>2, <1>3, <2>2
    <3> QED BY <1>1, <1>5, <3>1, <3>2
  <2> QED BY <1>3, <2>1, <2>2
<1>11. Bound(w) \in Nat /\ Bound(w)' = Bound(w) + w /\ w \in Nat
  <2>1. Bound(w) \in Nat /\ w \in Nat
    BY BoundFits DEF Inv, HopsFit
  <2>2. Cardinality(Settled') = Cardinality(Settled) + 1 /\ Cardinality(Settled) \in Nat
    BY <1>1, <1>2, SettledSize DEF Inv, HopsFit
  <2> QED BY <2>1, <2>2 DEF Bound
<1>12. NoWrap(w)'
  <2>1. \A x \in nodesToVisit : x.metric <= Bound(w)
    BY DEF MapsOK, NoWrap
  <2>2. \A s \in DOMAIN metricFromA : distanceFromA[s] <= Bound(w)
    BY DEF MapsOK, NoWrap
  <2>3. \A x \in nodesToVisit' : x.metric <= Bound(w) + w
    <3>1. \A n \in better : metricFromA[stop] + Weight(stop, n) <= Bound(w) + w
      BY <1>1, <1>2, <1>11, <2>1
    <3> QED BY <1>3, <1>5, <1>11, <2>1, <3>1
  <2>4. \A s \in DOMAIN metricFromA' : distanceFromA'[s] <= Bound(w) + w
    BY <1>1, <1>2, <1>3, <1>5, <1>11, <2>2
  <2> QED BY <1>11, <2>3, <2>4 DEF NoWrap
<1>13. ParentsFit'
  <2> SUFFICES ASSUME NEW n \in DOMAIN stationIdToParent', NEW p, p = stationIdToParent'[n]
               PROVE  /\ p \in Settled \union {stop}
                      /\ n \in Successors(p)
                      /\ metricFromA'[n] = metricFromA'[p] + Weight(p, n)
                      /\ distanceFromA'[n] = distanceFromA'[p] + HopTime(p, n)
                      /\ p.stationId = stationA => p = Start
    BY <1>2, <1>4 DEF ParentsFit, arguments
  <2>1. CASE n \in better
    <3>1. p = stop /\ n \in Successors(p)
      BY <1>1, <1>3, <2>1
    <3> QED BY <1>2, <1>3, <1>6, <2>1, <3>1
  <2>2. CASE n \notin better
    <3>1. n \in DOMAIN stationIdToParent /\ n \in DOMAIN metricFromA /\ p = stationIdToParent[n]
      BY <1>3, <1>5, <2>2
    <3>2. /\ p \in Settled /\ n \in Successors(p)
          /\ metricFromA[n] = metricFromA[p] + Weight(p, n)
          /\ distanceFromA[n] = distanceFromA[p] + HopTime(p, n)
          /\ p.stationId = stationA => p = Start
      BY <3>1 DEF MapsOK, ParentsFit
    <3> QED BY <1>3, <1>6, <2>2, <3>1, <3>2
  <2> QED BY <2>1, <2>2
<1>14. MetricIsDistance'
  <2> SUFFICES ASSUME useDistance PROVE distanceFromA' = metricFromA'
    BY <1>4 DEF MetricIsDistance, arguments
  <2>1. distanceFromA = metricFromA
    BY DEF MapsOK, MetricIsDistance
  <2>2. \A n \in better : Weight(stop, n) = HopTime(stop, n)
    BY DEF Weight
  <2>3. \A n \in DOMAIN metricFromA' : distanceFromA'[n] = metricFromA'[n]
    BY <1>3, <2>1, <2>2
  <2>4. /\ metricFromA' = [n \in DOMAIN metricFromA' |-> metricFromA'[n]]
        /\ distanceFromA' = [n \in DOMAIN distanceFromA' |-> distanceFromA'[n]]
    BY DEF Visit
  <2>5. DOMAIN distanceFromA' = DOMAIN metricFromA'
    BY <1>3
  <2> QED BY <2>3, <2>4, <2>5
<1>15. \E rank : IsRank(rank)'
  <2>1. PICK rank : IsRank(rank)
    BY DEF MapsOK
  <2>2. Cardinality(Settled') = Cardinality(Settled) + 1 /\ Cardinality(Settled) \in Nat
    BY <1>1, <1>2, SettledSize DEF Inv, HopsFit
  <2> DEFINE rank2 == [s \in Settled \union {stop} |->
                         IF s = stop THEN Cardinality(Settled) ELSE rank[s]]
  <2>3. /\ rank2 \in [Settled \union {stop} -> Nat]
        /\ \A s \in Settled \union {stop} : rank2[s] < Cardinality(Settled) + 1
    BY <2>1, <2>2 DEF IsRank
  <2>4. ASSUME NEW n \in DOMAIN stationIdToParent', n \in Settled \union {stop}
        PROVE  rank2[stationIdToParent'[n]] < rank2[n]
    <3>1. n \notin better /\ n \in DOMAIN stationIdToParent
      BY <1>3, <1>6, <2>4
    <3>2. stationIdToParent'[n] = stationIdToParent[n] /\ stationIdToParent[n] \in Settled
      BY <1>3, <3>1 DEF MapsOK, ParentsFit
    <3>3. rank2[stationIdToParent[n]] = rank[stationIdToParent[n]]
      BY <1>2, <3>2
    <3>4. rank[stationIdToParent[n]] < Cardinality(Settled)
      BY <2>1, <3>2 DEF IsRank
    <3>5. CASE n = stop
      BY <3>2, <3>3, <3>4, <3>5
    <3>6. CASE n # stop
      BY <1>2, <2>1, <2>4, <3>1, <3>2, <3>3, <3>6 DEF IsRank
    <3> QED BY <3>5, <3>6
  <2> HIDE DEF rank2
  <2> QED BY <1>2, <2>2, <2>3, <2>4 DEF IsRank
<1> QED BY <1>9, <1>10, <1>12, <1>13, <1>14, <1>15 DEF MapsOK

(* What a stale entry leaves behind is as before.                          *)
LEMMA StaleVisitMapsOK ==
    ASSUME Inv, NEW w, HopsFit(w), MapsOK(w), NEW e \in nodesToVisit, Visit(e),
           e.metric # metricFromA[e.graphStop]
    PROVE  MapsOK(w)'
<1>1. /\ UNCHANGED <<metricFromA, distanceFromA, stationIdToParent>>
      /\ nodesToVisit' \subseteq nodesToVisit
      /\ Settled' = Settled /\ Start \in Settled
  BY StaleVisit
<1>2. /\ UNCHANGED arguments /\ Start' = Start
      /\ \A s, n : /\ Weight(s, n)' = Weight(s, n) /\ HopTime(s, n)' = HopTime(s, n)
                   /\ Successors(s)' = Successors(s)
  BY DEF Visit, arguments, Start, Weight, HopTime, Changes, Successors
<1>3. StartFirst'
  BY <1>1, <1>2 DEF MapsOK, StartFirst
<1>4. SettledInOrder'
  BY <1>1 DEF MapsOK, SettledInOrder
<1>5. NoWrap(w)'
  BY <1>1 DEF MapsOK, NoWrap, Bound
<1>6. ParentsFit'
  BY <1>1, <1>2 DEF MapsOK, ParentsFit, arguments
<1>7. MetricIsDistance' /\ \A rank : IsRank(rank) => IsRank(rank)'
  BY <1>1, <1>2 DEF MapsOK, MetricIsDistance, IsRank, arguments
<1> QED BY <1>3, <1>4, <1>5, <1>6, <1>7 DEF MapsOK

(* A search that starts has settled nothing.                               *)
NothingSeen ==
    /\ metricFromA = [n \in {Start} |-> 0]
    /\ distanceFromA = [n \in {Start} |-> 0]
    /\ stationIdToParent = [n \in {} |-> Start]
    /\ nodesToVisit = {[graphStop |-> Start, metric |-> 0]}

LEMMA NothingSeenOK == ASSUME NEW w, HopsFit(w), NothingSeen PROVE MapsOK(w)
<1>1. Settled = {} /\ metricFromA[Start] = 0 /\ distanceFromA[Start] = 0
  BY DEF NothingSeen, Settled, Waiting
<1>2. Cardinality(Settled) = 0 /\ Bound(w) = 0
  BY <1>1, FS_EmptySet DEF Bound, HopsFit
<1>3. StartFirst /\ SettledInOrder /\ NoWrap(w) /\ ParentsFit /\ MetricIsDistance
  BY <1>1, <1>2 DEF NothingSeen, StartFirst, SettledInOrder, NoWrap, ParentsFit, MetricIsDistance
<1>4. IsRank([stop \in {} |-> 0])
  BY <1>1 DEF NothingSeen, IsRank
<1> QED BY <1>3, <1>4 DEF MapsOK

LEMMA MapsUnchangedOK ==
    ASSUME NEW w, MapsOK(w), UNCHANGED <<arguments, maps>>
    PROVE  MapsOK(w)'
<1>1. /\ UNCHANGED <<stationA, useDistance, travelTime, count>>
      /\ UNCHANGED <<metricFromA, distanceFromA, stationIdToParent, nodesToVisit>>
  BY DEF arguments, maps
<1>2. /\ Start' = Start /\ Settled' = Settled
      /\ \A s, n : /\ Weight(s, n)' = Weight(s, n) /\ HopTime(s, n)' = HopTime(s, n)
                   /\ Successors(s)' = Successors(s)
  BY <1>1 DEF Start, Settled, Waiting, Weight, HopTime, Changes, Successors
<1>3. StartFirst' /\ SettledInOrder' /\ NoWrap(w)'
  BY <1>1, <1>2 DEF MapsOK, StartFirst, SettledInOrder, NoWrap, Bound
<1>4. ParentsFit'
  BY <1>1, <1>2 DEF MapsOK, ParentsFit
<1>5. MetricIsDistance' /\ \A rank : IsRank(rank) => IsRank(rank)'
  BY <1>1, <1>2 DEF MapsOK, MetricIsDistance, IsRank
<1> QED BY <1>3, <1>4, <1>5 DEF MapsOK

LEMMA HopsFitUnchanged ==
    ASSUME NEW w, HopsFit(w), UNCHANGED arguments
    PROVE  HopsFit(w)'
BY DEF HopsFit, arguments

LEMMA VisitMapsOK ==
    ASSUME Inv, NEW w, HopsFit(w), MapsOK(w), NEW e \in nodesToVisit, Visit(e)
    PROVE  MapsOK(w)'
BY FreshVisitMapsOK, StaleVisitMapsOK
-----------------------------------------------------------------------------
(* What is known of the way back whatever the numbers are.                 *)
WayStarts ==
    /\ phase \in {"search", "crashed"} => steps = <<>> /\ total = 0
    /\ phase = "walk" /\ steps = <<>> => currentStop = endStop
    /\ phase = "walk" => endStop \in Best(SeenAt(stationB))
    /\ phase = "done" /\ stationA # stationB => (steps = <<>> <=> SeenAt(stationB) = {})

OnTheWay == phase \in {"walk", "done"} /\ stationA # stationB /\ SeenAt(stationB) # {}

StepRecord ==
    {[from |-> s, to |-> n.stationId, lineId |-> n.lineId, routeId |-> n.routeId,
      travelTime |-> t] : s \in Station, n \in RouteStop, t \in Nat}

(* The stops along the route, from the one the way back has reached.       *)
At(i) == [stationId |-> steps[i].to, routeId |-> steps[i].routeId, lineId |-> steps[i].lineId]
StopAt(i) == IF i = 0 THEN currentStop ELSE At(i)

StepFits(i) ==
    LET stop == At(i)
        before == StopAt(i - 1)
    IN  /\ stop \in DOMAIN stationIdToParent
        /\ stationIdToParent[stop] = before
        /\ steps[i].from = before.stationId
        /\ steps[i].travelTime = HopTime(before, stop)

RouteSoFar ==
    /\ steps \in Seq(StepRecord)
    /\ StopAt(Len(steps)) = endStop
    /\ \A i \in 1..Len(steps) : StepFits(i)

(* A stop is reached over its parents in fewer steps than stops are settled.*)
WayOK ==
    OnTheWay =>
       /\ RouteSoFar
       /\ endStop \in Best(SeenAt(stationB))
       /\ currentStop.stationId = stationA => currentStop = Start
       /\ phase = "walk" => /\ currentStop \in Settled
                            /\ \E rank : /\ IsRank(rank)
                                         /\ Len(steps) + rank[currentStop] <= Cardinality(RouteStop)
       /\ phase = "done" => /\ currentStop = Start
                            /\ steps # <<>>
                            /\ Len(steps) <= Cardinality(RouteStop)
                            /\ total = distanceFromA[endStop]

SearchOK(w) == Inv /\ HopsFit(w) /\ MapsOK(w) /\ WayStarts /\ WayOK

LEMMA WayStartsKept == Inv /\ WayStarts /\ Next => WayStarts'
<1> SUFFICES ASSUME Inv, WayStarts, Next PROVE WayStarts'
  OBVIOUS
<1> USE DEF arguments, maps, wayBack
<1>1. CASE SameStation
  BY <1>1 DEF SameStation, WayStarts
<1>2. ASSUME NEW e \in nodesToVisit, Visit(e) \/ VisitUnknown(e) PROVE WayStarts'
  BY <1>2 DEF Visit, VisitUnknown, WayStarts
<1>3. CASE PickEnd
  BY <1>3 DEF PickEnd, WayStarts, Best, SeenAt
<1>4. CASE NoPath
  BY <1>4 DEF NoPath, WayStarts, SeenAt
<1>5. CASE WalkBack
  <2>1. steps' # <<>>
    BY <1>5 DEF WalkBack
  <2> QED BY <1>5, <2>1 DEF WalkBack, WayStarts, Best, SeenAt
<1>6. CASE Arrive
  <2>1. stationA = stationB \/ (steps # <<>> /\ SeenAt(stationB) # {})
    BY <1>6 DEF Arrive, WayStarts, Best, SeenAt
  <2> QED BY <1>6, <2>1 DEF Arrive, WayStarts, SeenAt
<1> QED BY <1>1, <1>2, <1>3, <1>4, <1>5, <1>6 DEF Next

(* The way back begins at the best stop, which was settled.                *)
LEMMA PickEndWay ==
    ASSUME NEW w, SearchOK(w), PickEnd
    PROVE  WayOK'
<1> USE DEF arguments, maps, wayBack
<1>1. PICK n \in Best(SeenAt(stationB)) : currentStop' = n /\ endStop' = n
  BY DEF PickEnd
<1>2. /\ UNCHANGED <<stationA, stationB, steps>> /\ Start' = Start
      /\ SeenAt(stationB)' = SeenAt(stationB)
      /\ Best(SeenAt(stationB))' = Best(SeenAt(stationB))
      /\ Settled' = Settled /\ \A rank : IsRank(rank)' <=> IsRank(rank)
      /\ phase' = "walk" /\ nodesToVisit = {} /\ stationA # stationB
  BY DEF PickEnd, Start, SeenAt, Best, Settled, Waiting, IsRank
<1>3. steps = <<>>
  BY DEF PickEnd, SearchOK, WayStarts
<1>4. n \in Settled /\ n.stationId = stationB
  BY <1>2 DEF Best, SeenAt, Settled, Waiting
<1>5. RouteSoFar'
  <2>1. StopAt(0)' = n
    BY <1>1 DEF StopAt
  <2> QED BY <1>1, <1>2, <1>3, <2>1 DEF RouteSoFar
<1>6. \E rank : IsRank(rank) /\ 0 + rank[n] <= Cardinality(RouteStop)
  <2>1. PICK rank : IsRank(rank)
    BY DEF SearchOK, MapsOK
  <2>2. /\ rank[n] \in Nat /\ rank[n] < Cardinality(Settled)
        /\ Cardinality(Settled) \in Nat /\ Cardinality(Settled) <= Cardinality(RouteStop) + 1
        /\ Cardinality(RouteStop) \in Nat
    BY <1>4, <2>1, SettledSize, FS_CardinalityType DEF IsRank, SearchOK, Inv, HopsFit
  <2> QED BY <2>1, <2>2
<1>7. endStop' \in Best(SeenAt(stationB))'
  BY <1>1, <1>2
<1>8. Len(steps') = 0
  BY <1>2, <1>3
<1> QED BY <1>1, <1>2, <1>4, <1>5, <1>6, <1>7, <1>8 DEF WayOK

(* A step back adds the hop from the parent in front of the route.         *)
LEMMA WalkBackWay ==
    ASSUME NEW w, SearchOK(w), WalkBack
    PROVE  WayOK'
<1> USE DEF arguments, maps, wayBack
<1> SUFFICES ASSUME OnTheWay' PROVE WayOK'
  BY DEF WayOK
<1> DEFINE stop == currentStop
           parent == stationIdToParent[stop]
<1>1. /\ UNCHANGED <<stationA, stationB, endStop, phase>> /\ Start' = Start
      /\ SeenAt(stationB)' = SeenAt(stationB)
      /\ Best(SeenAt(stationB))' = Best(SeenAt(stationB))
      /\ Settled' = Settled /\ \A rank : IsRank(rank)' <=> IsRank(rank)
      /\ stationIdToParent' = stationIdToParent
      /\ \A s, n : HopTime(s, n)' = HopTime(s, n)
      /\ phase = "walk" /\ stop.stationId # stationA
      /\ steps' = <<StepTo(stop)>> \o steps /\ currentStop' = parent
  BY DEF WalkBack, Start, SeenAt, Best, Settled, Waiting, IsRank, HopTime, Changes
<1>2. /\ RouteSoFar /\ endStop \in Best(SeenAt(stationB)) /\ stop \in Settled
      /\ \E rank : IsRank(rank) /\ Len(steps) + rank[stop] <= Cardinality(RouteStop)
  BY <1>1 DEF SearchOK, WayOK, OnTheWay
<1>3. /\ stop \in DOMAIN stationIdToParent /\ stop \in RouteStop
      /\ parent \in DOMAIN metricFromA
  BY <1>1 DEF SearchOK, Inv, TypeOK, Start
<1>4. /\ parent \in Settled /\ stop \in Successors(parent)
      /\ distanceFromA[stop] = distanceFromA[parent] + HopTime(parent, stop)
      /\ parent.stationId = stationA => parent = Start
  BY <1>3 DEF SearchOK, MapsOK, ParentsFit
<1>5. parent.stationId \in Station
  BY <1>3, GraphAssumption DEF SearchOK, Inv, TypeOK, Start
<1>6. /\ StepTo(stop) = [from |-> parent.stationId, to |-> stop.stationId,
                         lineId |-> stop.lineId, routeId |-> stop.routeId,
                         travelTime |-> HopTime(parent, stop)]
      /\ HopTime(parent, stop) \in Nat
  <2>1. HopTime(parent, stop) \in 0..w /\ w \in Nat /\ w < Modulus /\ Modulus \in Nat
    BY <1>3, <1>4, HopBounds, BoundFits, NumberAssumption DEF SearchOK, Inv, HopsFit
  <2>2. distanceFromA[stop] \in Nat /\ distanceFromA[parent] \in Nat
    BY <1>3 DEF SearchOK, Inv, TypeOK, UnsignedInt
  <2>3. (distanceFromA[stop] - distanceFromA[parent]) % Modulus = HopTime(parent, stop)
    <3> DEFINE hop == HopTime(parent, stop)
    <3>1. distanceFromA[stop] - distanceFromA[parent] = hop /\ hop \in Nat /\ hop < Modulus
      BY <1>4, <2>1, <2>2
    <3>2. hop % Modulus = hop
      BY <2>1, <3>1
    <3> QED BY <3>1, <3>2
  <2> QED BY <2>1, <2>3 DEF StepTo
<1>7. StepTo(stop) \in StepRecord
  BY <1>3, <1>5, <1>6 DEF StepRecord
<1>8. /\ steps' \in Seq(StepRecord) /\ Len(steps') = Len(steps) + 1 /\ Len(steps) \in Nat
      /\ steps'[1] = StepTo(stop)
      /\ \A i \in 2..Len(steps') : steps'[i] = steps[i - 1]
  BY <1>1, <1>2, <1>7 DEF RouteSoFar
<1>9. At(1)' = stop /\ steps'[1].from = parent.stationId /\ steps'[1].travelTime = HopTime(parent, stop)
  BY <1>3, <1>6, <1>8, GraphAssumption DEF At
<1>10. \A i \in 2..Len(steps') : At(i)' = At(i - 1)
  BY <1>8 DEF At
<1>11. /\ StopAt(0)' = parent
       /\ \A i \in 1..Len(steps') : StopAt(i)' = StopAt(i - 1)
  BY <1>1, <1>8, <1>9, <1>10 DEF StopAt
<1> HIDE DEF parent
<1>12. ASSUME NEW i \in 1..Len(steps') PROVE StepFits(i)'
  <2>1. CASE i = 1
    <3>1. StopAt(i - 1)' = parent
      BY <1>11, <2>1
    <3> QED BY <1>1, <1>3, <1>9, <2>1, <3>1 DEF StepFits, parent
  <2>2. CASE i # 1
    <3>1. i - 1 \in 1..Len(steps) /\ i - 1 \in 1..Len(steps') /\ i \in 2..Len(steps')
      BY <1>8, <2>2
    <3>2. At(i)' = At(i - 1) /\ StopAt(i - 1)' = StopAt((i - 1) - 1) /\ steps'[i] = steps[i - 1]
      BY <1>8, <1>10, <1>11, <3>1
    <3>3. StepFits(i - 1)
      BY <1>2, <3>1 DEF RouteSoFar
    <3> QED BY <1>1, <3>2, <3>3 DEF StepFits
  <2> QED BY <2>1, <2>2
<1>13. RouteSoFar'
  <2>1. StopAt(Len(steps))' = StopAt(Len(steps))
    <3>1. PICK last : last = Len(steps')
      OBVIOUS
    <3>2. StopAt(last)' = StopAt(Len(steps))
      BY <1>8, <1>11, <3>1
    <3>3. StopAt(Len(steps))' = StopAt(last)'
      BY <3>1 DEF StopAt, At
    <3> QED BY <3>2, <3>3
  <2> QED BY <1>1, <1>2, <1>8, <1>12, <2>1 DEF RouteSoFar
<1>14. \E rank : IsRank(rank) /\ Len(steps') + rank[parent] <= Cardinality(RouteStop)
  <2>1. PICK rank : IsRank(rank) /\ Len(steps) + rank[stop] <= Cardinality(RouteStop)
    BY <1>2
  <2>2. rank[parent] \in Nat /\ rank[stop] \in Nat /\ rank[parent] < rank[stop]
    BY <1>2, <1>3, <1>4, <2>1 DEF IsRank, parent
  <2>3. Cardinality(RouteStop) \in Nat
    BY FS_CardinalityType DEF SearchOK, HopsFit
  <2> QED BY <1>8, <2>1, <2>2, <2>3
<1> QED BY <1>1, <1>2, <1>4, <1>13, <1>14 DEF WayOK, parent

LEMMA ArriveWay ==
    ASSUME NEW w, SearchOK(w), Arrive
    PROVE  WayOK'
<1> USE DEF arguments, maps, wayBack
<1> SUFFICES ASSUME OnTheWay' PROVE WayOK'
  BY DEF WayOK
<1>1. /\ UNCHANGED <<stationA, stationB, endStop, currentStop, steps, distanceFromA>>
      /\ Start' = Start
      /\ SeenAt(stationB)' = SeenAt(stationB)
      /\ Best(SeenAt(stationB))' = Best(SeenAt(stationB))
      /\ stationIdToParent' = stationIdToParent
      /\ \A s, n : HopTime(s, n)' = HopTime(s, n)
      /\ phase = "walk" /\ phase' = "done" /\ currentStop.stationId = stationA
      /\ total' = distanceFromA[endStop]
  BY DEF Arrive, Start, SeenAt, Best, HopTime, Changes
<1>2. /\ OnTheWay /\ RouteSoFar /\ endStop \in Best(SeenAt(stationB)) /\ currentStop = Start
      /\ currentStop \in Settled
      /\ \E rank : IsRank(rank) /\ Len(steps) + rank[currentStop] <= Cardinality(RouteStop)
  BY <1>1 DEF SearchOK, WayOK, OnTheWay
<1>3. RouteSoFar'
  <2>1. \A i : At(i)' = At(i) /\ StopAt(i)' = StopAt(i)
    BY <1>1 DEF At, StopAt
  <2>2. \A i : StepFits(i)' <=> StepFits(i)
    BY <1>1, <2>1 DEF StepFits
  <2> QED BY <1>1, <1>2, <2>1, <2>2 DEF RouteSoFar
<1>4. steps # <<>>
  BY <1>1, <1>2 DEF SearchOK, WayStarts, OnTheWay, Best, SeenAt
<1>5. Len(steps) <= Cardinality(RouteStop)
  <2>1. PICK rank : IsRank(rank) /\ Len(steps) + rank[currentStop] <= Cardinality(RouteStop)
    BY <1>2
  <2>2. rank[currentStop] \in Nat /\ Len(steps) \in Nat /\ Cardinality(RouteStop) \in Nat
    BY <1>2, <2>1, FS_CardinalityType DEF IsRank, RouteSoFar, SearchOK, HopsFit
  <2> QED BY <2>1, <2>2
<1> QED BY <1>1, <1>2, <1>3, <1>4, <1>5 DEF WayOK

LEMMA SearchNext == ASSUME NEW w PROVE SearchOK(w) /\ [Next]_vars => SearchOK(w)'
<1> SUFFICES ASSUME SearchOK(w), [Next]_vars PROVE SearchOK(w)'
  OBVIOUS
<1>1. Inv'
  BY NextInv DEF SearchOK
<1>2. UNCHANGED arguments
  BY DEF Next, SameStation, Visit, VisitUnknown, PickEnd, NoPath, WalkBack, Arrive, vars
<1>3. HopsFit(w)'
  BY <1>2, HopsFitUnchanged DEF SearchOK
<1>4. MapsOK(w)'
  <2>1. (\E e \in nodesToVisit : Visit(e)) \/ UNCHANGED maps
    BY DEF Next, SameStation, VisitUnknown, PickEnd, NoPath, WalkBack, Arrive, vars
  <2>2. UNCHANGED maps => MapsOK(w)'
    BY <1>2, MapsUnchangedOK DEF SearchOK
  <2> QED BY <2>1, <2>2, VisitMapsOK DEF SearchOK
<1>5. WayStarts' /\ WayOK'
  <2>1. CASE Next
    <3>1. WayStarts'
      BY <2>1, WayStartsKept DEF SearchOK
    <3>2. SameStation \/ (\E e \in nodesToVisit : Visit(e) \/ VisitUnknown(e)) \/ NoPath
            => ~OnTheWay'
      BY DEF SameStation, Visit, VisitUnknown, NoPath, OnTheWay, arguments, maps, SeenAt, SearchOK
    <3>3. WayOK'
      BY <2>1, <3>2, PickEndWay, WalkBackWay, ArriveWay DEF Next, WayOK
    <3> QED BY <3>1, <3>3
  <2>2. CASE UNCHANGED vars
    <3> USE <2>2 DEF vars, arguments, maps, wayBack
    <3>1. WayStarts'
      BY DEF SearchOK, WayStarts, Best, SeenAt
    <3>2. \A i : At(i)' = At(i) /\ StopAt(i)' = StopAt(i)
      BY DEF At, StopAt
    <3>3. \A i : StepFits(i)' <=> StepFits(i)
      BY <3>2 DEF StepFits, HopTime, Changes
    <3>4. RouteSoFar' <=> RouteSoFar
      BY <3>2, <3>3 DEF RouteSoFar
    <3>5. /\ Start' = Start /\ (OnTheWay' <=> OnTheWay)
          /\ Best(SeenAt(stationB))' = Best(SeenAt(stationB))
          /\ Settled' = Settled /\ \A rank : IsRank(rank)' <=> IsRank(rank)
      BY DEF Start, OnTheWay, SeenAt, Best, Settled, Waiting, IsRank
    <3>6. WayOK'
      BY <3>4, <3>5 DEF SearchOK, WayOK
    <3> QED BY <3>1, <3>6
  <2> QED BY <2>1, <2>2
<1> QED BY <1>1, <1>3, <1>4, <1>5 DEF SearchOK

(* Along a route that was returned, the distances and the metrics of its   *)
(* stops add up, from nothing at the first.                                *)
LEMMA AlongTheRoute ==
    ASSUME NEW w, SearchOK(w), phase = "done", stationA # stationB, steps # <<>>
    PROVE  /\ OnTheWay /\ RouteSoFar /\ endStop \in Best(SeenAt(stationB))
           /\ total = distanceFromA[endStop]
           /\ StopAt(0) = Start /\ StopAt(Len(steps)) = endStop
           /\ distanceFromA[StopAt(0)] = 0 /\ metricFromA[StopAt(0)] = 0
           /\ \A i \in 1..Len(steps) :
                 /\ StopAt(i) = At(i) /\ At(i) \in Successors(StopAt(i - 1))
                 /\ steps[i].from = StopAt(i - 1).stationId
                 /\ distanceFromA[StopAt(i)] = distanceFromA[StopAt(i - 1)] + steps[i].travelTime
                 /\ metricFromA[StopAt(i)] = metricFromA[StopAt(i - 1)]
                                               + Weight(StopAt(i - 1), At(i))
<1>1. /\ OnTheWay /\ RouteSoFar /\ endStop \in Best(SeenAt(stationB))
      /\ total = distanceFromA[endStop] /\ currentStop = Start
  BY DEF SearchOK, WayStarts, WayOK, OnTheWay
<1>2. StopAt(0) = Start /\ distanceFromA[Start] = 0 /\ metricFromA[Start] = 0
  BY <1>1 DEF StopAt, SearchOK, MapsOK, StartFirst
<1>3. ASSUME NEW i \in 1..Len(steps)
      PROVE  /\ StopAt(i) = At(i) /\ At(i) \in Successors(StopAt(i - 1))
             /\ steps[i].from = StopAt(i - 1).stationId
             /\ distanceFromA[StopAt(i)] = distanceFromA[StopAt(i - 1)] + steps[i].travelTime
             /\ metricFromA[StopAt(i)] = metricFromA[StopAt(i - 1)]
                                           + Weight(StopAt(i - 1), At(i))
  <2>1. StopAt(i) = At(i)
    BY DEF StopAt
  <2>2. StepFits(i)
    BY <1>1 DEF RouteSoFar
  <2> QED BY <2>1, <2>2 DEF StepFits, SearchOK, MapsOK, ParentsFit
<1> QED BY <1>1, <1>2, <1>3 DEF RouteSoFar

LEMMA TotalIsSum ==
    ASSUME NEW w, SearchOK(w), phase = "done", stationA # stationB, steps # <<>>
    PROVE  total = SumOfSteps
<1> DEFINE n == Len(steps)
           term == [i \in 0 + 1..n |-> steps[i].travelTime]
           Body(f) == [i \in 0..n |-> IF i = 0 THEN 0 ELSE f[i - 1] + steps[i].travelTime]
           sum == CHOOSE f : f = Body(f)
           distance == [i \in 0..n |-> distanceFromA[StopAt(i)]]
<1>1. n \in Nat
  BY AlongTheRoute DEF RouteSoFar
<1>2. Sums(distance, term, 0, n)
  BY <1>1, AlongTheRoute DEF Sums
<1>3. distance[n] = total
  BY <1>1, AlongTheRoute
<1>4. SumOfSteps = sum[n]
  BY DEF SumOfSteps
<1>5. distance = Body(distance)
  <2>1. \A i \in 1..n : distance[i] = distance[i - 1] + steps[i].travelTime
    BY <1>1, AlongTheRoute
  <2>2. distance[0] = 0 /\ distance = [i \in 0..n |-> distance[i]]
    BY <1>1, AlongTheRoute
  <2> HIDE DEF distance, n
  <2>3. ASSUME NEW i \in 0..n PROVE distance[i] = Body(distance)[i]
    <3>1. CASE i = 0
      BY <2>2, <3>1
    <3>2. CASE i # 0
      <4>1. i \in 1..n
        BY <1>1, <3>2
      <4> QED BY <2>1, <3>2, <4>1
    <3> QED BY <3>1, <3>2
  <2>4. Body(distance) = [i \in 0..n |-> Body(distance)[i]]
    OBVIOUS
  <2> QED BY <2>2, <2>3, <2>4
<1>6. \A f : f = Body(f) => Sums(f, term, 0, n)
  BY <1>1 DEF Sums
<1> HIDE DEF Body, term, distance, n
<1>7. sum = Body(sum)
  BY <1>5, Zenon
<1>8. sum = distance
  BY <1>1, <1>2, <1>6, <1>7, SumsUnique
<1> QED BY <1>3, <1>4, <1>8

LEMMA RouteConnected == ASSUME NEW w PROVE SearchOK(w) => RouteIsConnected
<1> SUFFICES ASSUME SearchOK(w), phase = "done", stationA # stationB, steps # <<>>
             PROVE  /\ steps[1].from = stationA
                    /\ steps[Len(steps)].to = stationB
                    /\ \A i \in 2..Len(steps) : steps[i].from = steps[i - 1].to
                    /\ \A step \in {steps[i] : i \in DOMAIN steps} :
                          <<step.from, [stationId |-> step.to, routeId |-> step.routeId,
                                        lineId |-> step.lineId]>> \in Arcs
                    /\ total = SumOfSteps
  BY DEF RouteIsConnected
<1>1. Len(steps) \in Nat /\ Len(steps) >= 1 /\ DOMAIN steps = 1..Len(steps)
  BY AlongTheRoute DEF RouteSoFar
<1>2. steps[1].from = stationA
  BY <1>1, AlongTheRoute DEF Start
<1>3. steps[Len(steps)].to = stationB
  <2>1. At(Len(steps)) = endStop /\ endStop.stationId = stationB
    BY <1>1, AlongTheRoute DEF Best, SeenAt
  <2> QED BY <2>1 DEF At
<1>4. ASSUME NEW i \in 2..Len(steps) PROVE steps[i].from = steps[i - 1].to
  <2>1. i \in 1..Len(steps) /\ i - 1 \in 1..Len(steps)
    BY <1>1
  <2>2. steps[i].from = At(i - 1).stationId
    BY <2>1, AlongTheRoute
  <2> QED BY <2>2 DEF At
<1>5. ASSUME NEW i \in 1..Len(steps)
      PROVE  <<steps[i].from, At(i)>> \in Arcs
  BY AlongTheRoute DEF Successors
<1> QED BY <1>1, <1>2, <1>3, <1>4, <1>5, TotalIsSum DEF At
-----------------------------------------------------------------------------
Stops == {Start} \union RouteStop

Longer(cost, shorter) ==
    shorter \union UNION { {<<n, w[2] + cost[<<w[1], n>>]>> : n \in Successors(w[1])}
                            : w \in shorter }

(* A set of walks that has the one without hops and is closed under adding *)
(* a hop has every walk.                                                   *)
LEMMA WalksStay ==
    ASSUME IsFiniteSet(RouteStop), NEW cost \in [Hops -> Int],
           NEW Safe \in SUBSET (Stops \X Int), <<Start, 0>> \in Safe,
           \A w \in Safe : \A n \in Successors(w[1]) : <<n, w[2] + cost[<<w[1], n>>]>> \in Safe
    PROVE  WalksWith(cost) \subseteq Safe
<1> DEFINE N == Cardinality(RouteStop)
           S == SUBSET Safe
           step == [p \in Nat \X S |-> Longer(cost, p[2])]
           Body(f) == [k \in 0..N |-> IF k = 0 THEN {<<Start, 0>>} ELSE Longer(cost, f[k - 1])]
           walks == CHOOSE f : f = Body(f)
<1>1. N \in Nat
  BY FS_CardinalityType
<1>2. \A shorter \in S : Longer(cost, shorter) \in S
  <2> SUFFICES ASSUME NEW shorter \in SUBSET Safe, NEW x \in Longer(cost, shorter)
               PROVE  x \in Safe
    OBVIOUS
  <2>1. CASE x \in shorter
    BY <2>1
  <2>2. CASE \E v \in shorter : \E n \in Successors(v[1]) : x = <<n, v[2] + cost[<<v[1], n>>]>>
    BY <2>2
  <2> QED BY <2>1, <2>2 DEF Longer
<1>3. step \in [Nat \X S -> S] /\ {<<Start, 0>>} \in S
  BY <1>2
<1>4. \A k \in Nat, x \in S : step[<<k, x>>] = Longer(cost, x)
  OBVIOUS
<1>5. WalksWith(cost) = walks[N]
  BY DEF WalksWith, Longer
<1> HIDE DEF S, N
<1>6. PICK f : Iterates(f, S, {<<Start, 0>>}, step, N)
  <2> HIDE DEF step
  <2> QED BY <1>1, <1>3, RecursionExists
<1>7. f \in [0..N -> S] /\ f[0] = {<<Start, 0>>} /\ \A k \in 1..N : f[k] = Longer(cost, f[k - 1])
  <2>1. f \in [0..N -> S] /\ f[0] = {<<Start, 0>>}
    BY <1>6 DEF Iterates
  <2>2. ASSUME NEW k \in 1..N PROVE f[k] = Longer(cost, f[k - 1])
    <3>1. k - 1 \in 0..N /\ k \in Nat
      BY <1>1
    <3>2. f[k] = step[<<k, f[k - 1]>>]
      BY <1>6 DEF Iterates
    <3> HIDE DEF step
    <3> QED BY <1>4, <2>1, <3>1, <3>2
  <2> QED BY <2>1, <2>2
<1>8. f = Body(f)
  <2>1. ASSUME NEW k \in 0..N PROVE f[k] = Body(f)[k]
    <3>1. CASE k = 0
      BY <1>7, <3>1
    <3>2. CASE k # 0
      <4>1. k \in 1..N
        BY <1>1, <3>2
      <4> QED BY <1>7, <3>2, <4>1
    <3> QED BY <3>1, <3>2
  <2>2. f = [k \in 0..N |-> f[k]]
    BY <1>7
  <2> QED BY <2>1, <2>2
<1>9. /\ \A g : Body(g)[0] = {<<Start, 0>>}
      /\ \A g : \A k \in 1..N : Body(g)[k] = Longer(cost, g[k - 1])
  BY <1>1
<1> HIDE DEF Body
<1>10. walks = Body(walks)
  BY <1>8, Zenon
<1> HIDE DEF walks
<1> DEFINE T == {k \in Nat : k \in 0..N => walks[k] \in S}
<1>11. 0 \in T
  BY <1>3, <1>9, <1>10
<1>12. ASSUME NEW k \in T PROVE k + 1 \in T
  <2>1. ASSUME k + 1 \in 0..N PROVE walks[k + 1] \in S
    <3>1. k \in 0..N /\ k + 1 \in 1..N /\ (k + 1) - 1 = k
      BY <1>1, <2>1
    <3>2. walks[k + 1] = Longer(cost, walks[k])
      BY <1>9, <1>10, <3>1
    <3> QED BY <1>2, <3>1, <3>2
  <2> QED BY <2>1
<1>13. T = Nat
  <2> HIDE DEF T
  <2> QED BY <1>11, <1>12, SetInduction DEF T
<1>14. walks[N] \in S
  BY <1>1, <1>13
<1> QED BY <1>5, <1>14 DEF S

(* What the search has seen is everything there is a walk to.              *)
LEMMA WalksAreSeen ==
    ASSUME Inv, Searched, IsFiniteSet(RouteStop), NEW cost \in [Hops -> Int],
           NEW w \in WalksWith(cost)
    PROVE  w[1] \in DOMAIN metricFromA /\ w[2] \in Int
<1> DEFINE Safe == (DOMAIN metricFromA) \X Int
<1>1. Safe \in SUBSET (Stops \X Int) /\ <<Start, 0>> \in Safe
  BY DEF Inv, TypeOK, Stops
<1>2. ASSUME NEW v \in Safe, NEW n \in Successors(v[1])
      PROVE  <<n, v[2] + cost[<<v[1], n>>]>> \in Safe
  <2>1. n \in DOMAIN metricFromA
    BY DEF Inv, EmptyAfterSearch, WaitingOrRelaxed, Waiting, RelaxedFrom
  <2>2. <<v[1], n>> \in Hops
    BY DEF Hops, Inv, TypeOK, Successors
  <2> QED BY <2>1, <2>2
<1> HIDE DEF Safe
<1>3. w \in Safe
  BY <1>1, <1>2, WalksStay
<1> QED BY <1>3 DEF Safe

WeightOf == [hop \in Hops |-> Weight(hop[1], hop[2])]
TimeOf == [hop \in Hops |-> HopTime(hop[1], hop[2])]

LEMMA CostTypes == ASSUME TypeOK PROVE WeightOf \in [Hops -> Int] /\ TimeOf \in [Hops -> Nat]
<1> SUFFICES ASSUME NEW stop \in Stops, NEW n \in RouteStop
             PROVE  Weight(stop, n) \in Int /\ HopTime(stop, n) \in Nat
  BY DEF WeightOf, TimeOf, Hops, Stops
<1>1. stop.stationId \in Station /\ n.stationId \in Station
  BY GraphAssumption DEF TypeOK, Start, Stops
<1>2. travelTime[<<stop.stationId, n.stationId>>] \in Nat /\ count[n.stationId] \in Int
  BY <1>1, NumberAssumption DEF TypeOK, UnsignedInt
<1>3. HopTime(stop, n) \in Nat
  BY <1>2, NumberAssumption DEF HopTime
<1> QED BY <1>2, <1>3 DEF Weight

(* And no walk costs less than the metric of the stop it leads to.         *)
LEMMA MetricIsLeast ==
    ASSUME NEW w, SearchOK(w), Searched, NEW v \in WalkCosts
    PROVE  v[1] \in DOMAIN metricFromA /\ v[2] \in Int /\ metricFromA[v[1]] <= v[2]
<1> DEFINE Safe == {x \in (DOMAIN metricFromA) \X Int : metricFromA[x[1]] <= x[2]}
<1>1. Safe \in SUBSET (Stops \X Int) /\ <<Start, 0>> \in Safe
  BY DEF SearchOK, Inv, TypeOK, Stops, MapsOK, StartFirst
<1>2. ASSUME NEW x \in Safe, NEW n \in Successors(x[1])
      PROVE  <<n, x[2] + WeightOf[<<x[1], n>>]>> \in Safe
  <2>1. x[1] \in DOMAIN metricFromA /\ x[2] \in Int /\ metricFromA[x[1]] <= x[2]
    OBVIOUS
  <2>2. n \in DOMAIN metricFromA /\ metricFromA[n] <= NeighborMetric(x[1], metricFromA[x[1]], n)
    BY DEF SearchOK, Inv, EmptyAfterSearch, WaitingOrRelaxed, Waiting, RelaxedFrom
  <2>3. WeightOf[<<x[1], n>>] = Weight(x[1], n)
    <3>1. <<x[1], n>> \in Hops
      BY <2>1 DEF Hops, SearchOK, Inv, TypeOK, Successors
    <3> QED BY <3>1 DEF WeightOf
  <2>4. Weight(x[1], n) \in Nat
    BY <2>1, HopBounds DEF SearchOK, Inv, HopsFit
  <2>5. metricFromA[x[1]] \in Nat /\ metricFromA[n] \in Nat
    BY <2>1, <2>2 DEF SearchOK, Inv, TypeOK, UnsignedInt
  <2>6. \A y \in Nat : y % Modulus <= y /\ y % Modulus \in Nat
    BY NumberAssumption
  <2>7. NeighborMetric(x[1], metricFromA[x[1]], n) <= metricFromA[x[1]] + Weight(x[1], n)
    BY <2>4, <2>5, <2>6 DEF NeighborMetric
  <2>8. NeighborMetric(x[1], metricFromA[x[1]], n) \in Nat
    BY <2>4, <2>5, <2>6 DEF NeighborMetric
  <2>9. metricFromA[n] <= x[2] + Weight(x[1], n) /\ x[2] + Weight(x[1], n) \in Int
    BY <2>1, <2>2, <2>4, <2>5, <2>7, <2>8
  <2> QED BY <2>2, <2>3, <2>9
<1>3. WeightOf \in [Hops -> Int] /\ WalkCosts = WalksWith(WeightOf)
  BY CostTypes DEF SearchOK, Inv, WalkCosts, WeightOf
<1> HIDE DEF Safe
<1>4. v \in Safe
  BY <1>1, <1>2, <1>3, WalksStay DEF SearchOK, HopsFit
<1> QED BY <1>4 DEF Safe
-----------------------------------------------------------------------------
LEMMA FreshSearchOK ==
    ASSUME NEW w, Inv, HopsFit(w), NothingSeen, phase = "search", steps = <<>>, total = 0
    PROVE  SearchOK(w)
<1>1. MapsOK(w)
  BY NothingSeenOK
<1>2. WayStarts /\ WayOK
  BY DEF WayStarts, WayOK, OnTheWay
<1> QED BY <1>1, <1>2 DEF SearchOK

LEMMA InitSearchOK == ASSUME NEW w, NumbersFit(w), Init PROVE SearchOK(w)
<1>1. PICK q \in Queries : /\ useDistance = q.useDistance
                           /\ travelTime = q.travelTime
                           /\ count = q.count
  BY DEF Init
<1>2. HopsFit(w)
  BY <1>1 DEF NumbersFit, TimesFit, CountsFit, HopsFit
<1>3. NothingSeen /\ phase = "search" /\ steps = <<>> /\ total = 0
  BY DEF Init, NothingSeen
<1> QED BY <1>2, <1>3, InitInv, FreshSearchOK

LEMMA SearchAlways == ASSUME NEW w, NumbersFit(w) PROVE Spec => []SearchOK(w)
<1>1. Init => SearchOK(w)
  BY InitSearchOK
<1>2. SearchOK(w) /\ [Next]_vars => SearchOK(w)'
  BY SearchNext
<1> QED BY <1>1, <1>2, PTL DEF Spec

LEMMA ParentsAgreeIf == ASSUME NEW w, SearchOK(w) PROVE ParentsAgree
BY DEF ParentsAgree, SearchOK, MapsOK, ParentsFit

LEMMA AcyclicIf == ASSUME NEW w, SearchOK(w) PROVE WayBackIsAcyclic
<1> SUFFICES ASSUME stationA # stationB PROVE Len(steps) <= Cardinality(RouteStop)
  BY DEF WayBackIsAcyclic
<1>1. Cardinality(RouteStop) \in Nat
  BY FS_CardinalityType DEF SearchOK, HopsFit
<1>2. CASE phase = "walk"
  <2>1. /\ RouteSoFar /\ currentStop \in Settled
        /\ \E rank : IsRank(rank) /\ Len(steps) + rank[currentStop] <= Cardinality(RouteStop)
    BY <1>2 DEF SearchOK, WayStarts, WayOK, OnTheWay, Best
  <2>2. PICK rank : IsRank(rank) /\ Len(steps) + rank[currentStop] <= Cardinality(RouteStop)
    BY <2>1
  <2>3. rank[currentStop] \in Nat /\ Len(steps) \in Nat
    BY <2>1, <2>2 DEF IsRank, RouteSoFar
  <2> QED BY <1>1, <2>2, <2>3
<1>3. CASE phase = "done" /\ steps # <<>>
  BY <1>3 DEF SearchOK, WayStarts, WayOK, OnTheWay
<1>4. CASE steps = <<>>
  BY <1>1, <1>4
<1>5. phase = "crashed" => steps = <<>>
  BY DEF SearchOK, WayStarts
<1> QED BY <1>2, <1>3, <1>4, <1>5 DEF SearchOK, WayStarts, Inv, TypeOK

LEMMA FastestIf == ASSUME NEW w, SearchOK(w) PROVE FastestIsLeast
<1> SUFFICES ASSUME phase = "done", useDistance, stationA # stationB,
                    NEW v \in WalkCosts, v[1].stationId = stationB
             PROVE  steps # <<>> /\ total <= v[2]
  BY DEF FastestIsLeast
<1>1. v[1] \in DOMAIN metricFromA /\ v[2] \in Int /\ metricFromA[v[1]] <= v[2]
  BY MetricIsLeast DEF Searched
<1>2. v[1] \in SeenAt(stationB)
  BY <1>1 DEF SeenAt
<1>3. steps # <<>>
  BY <1>2 DEF SearchOK, WayStarts
<1>4. endStop \in Best(SeenAt(stationB)) /\ total = distanceFromA[endStop]
  BY <1>3, AlongTheRoute
<1>5. metricFromA[endStop] <= metricFromA[v[1]] /\ total = metricFromA[endStop]
  BY <1>2, <1>4 DEF Best, SearchOK, MapsOK, MetricIsDistance
<1>6. metricFromA[endStop] \in Nat /\ metricFromA[v[1]] \in Nat
  BY <1>1 DEF SearchOK, Inv, TypeOK, UnsignedInt
<1> QED BY <1>1, <1>3, <1>5, <1>6

(* When the search is over, every stop agrees with its parent.             *)
THEOREM ParentsConsistent == ASSUME NEW w, NumbersFit(w) PROVE Spec => []ParentsAgree
<1>1. SearchOK(w) => ParentsAgree
  BY ParentsAgreeIf
<1> QED BY SearchAlways, <1>1, PTL

(* The way back visits no stop twice: it ends at stationA.                 *)
THEOREM WayBackEnds == ASSUME NEW w, NumbersFit(w) PROVE Spec => []WayBackIsAcyclic
<1>1. SearchOK(w) => WayBackIsAcyclic
  BY AcyclicIf
<1> QED BY SearchAlways, <1>1, PTL

(* The route returned leads over edges of the graph from stationA to       *)
(* stationB, and the times of its steps add up to its total.               *)
THEOREM RouteIsARoute == ASSUME NEW w, NumbersFit(w) PROVE Spec => []RouteIsConnected
<1>1. SearchOK(w) => RouteIsConnected
  BY RouteConnected
<1> QED BY SearchAlways, <1>1, PTL

(* The search by time returns a route if there is a walk to stationB, and  *)
(* no walk takes less time, however its hops and changes of line add up.   *)
THEOREM FastestIsFastest == ASSUME NEW w, NumbersFit(w) PROVE Spec => []FastestIsLeast
<1>1. SearchOK(w) => FastestIsLeast
  BY FastestIf
<1> QED BY SearchAlways, <1>1, PTL
=============================================================================
