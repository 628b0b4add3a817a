------------------------- MODULE RoutePlannerProofs -------------------------
(***************************************************************************)
(* What RouteSearchProofs shows of one search holds of the two searches of *)
(* GetQuietTravelRoute as well: the second one starts afresh.              *)
(***************************************************************************)
EXTENDS RoutePlanner, RouteSearchProofs

(* The routes kept have a total that is an unsigned int.                   *)
PlanOK ==
    /\ call \in {"fastest", "quietest", "returned"}
    /\ call = "fastest" => useDistance
    /\ total \in UnsignedInt
    /\ fastest.totalTravelTime \in UnsignedInt
    /\ answer.totalTravelTime \in UnsignedInt

PlanInv == Inv /\ PlanOK

LEMMA PlanInitInv == PlanInit => PlanInv
<1> SUFFICES ASSUME PlanInit PROVE PlanInv
  OBVIOUS
<1>1. Inv
  BY InitInv DEF PlanInit
<1>2. useDistance
  BY PlanAssumption DEF PlanInit, Init
<1>3. 0 \in UnsignedInt
  BY NumberAssumption DEF UnsignedInt
<1>4. total = 0 /\ NoRoute.totalTravelTime = 0
  BY DEF PlanInit, Init, NoRoute
<1> QED BY <1>1, <1>2, <1>3, <1>4 DEF PlanInit, PlanInv, PlanOK

(* A search that starts has looked at nothing, and has it all before it.   *)
LEMMA RestartInv == PlanInv /\ SearchQuietest => Inv'
<1> SUFFICES ASSUME PlanInv, SearchQuietest PROVE Inv'
  OBVIOUS
<1>1. Start' = Start
  BY DEF SearchQuietest, Start
<1>2. 0 \in UnsignedInt
  BY NumberAssumption DEF UnsignedInt
<1>3. TypeOK'
  <2>1. /\ stationA' \in Station /\ stationB' \in Station
        /\ travelTime' \in [Station \X Station -> UnsignedInt] /\ count' \in [Station -> Int]
        /\ useDistance' \in BOOLEAN
    BY DEF SearchQuietest, PlanInv, Inv, TypeOK
  <2>2. /\ metricFromA' = [n \in {Start} |-> 0] /\ distanceFromA' = [n \in {Start} |-> 0]
        /\ stationIdToParent' = [n \in {} |-> Start]
        /\ nodesToVisit' = {[graphStop |-> Start, metric |-> 0]}
        /\ phase' = "search" /\ currentStop' = Start /\ endStop' = Start
    BY DEF SearchQuietest
  <2> QED BY <1>1, <1>2, <2>1, <2>2 DEF TypeOK, UnsignedInt
<1>4. WaitingOrRelaxed'
  BY DEF SearchQuietest, WaitingOrRelaxed, Waiting
<1>5. EmptyAfterSearch'
  BY DEF SearchQuietest, EmptyAfterSearch, Searched
<1> QED BY <1>3, <1>4, <1>5 DEF Inv

(* The total of a route is the distance to a stop that was seen.           *)
LEMMA SearchTotal == Inv /\ total \in UnsignedInt /\ Next => total' \in UnsignedInt
<1> SUFFICES ASSUME Inv, total \in UnsignedInt, Next PROVE total' \in UnsignedInt
  OBVIOUS
<1> USE DEF wayBack
<1>1. ASSUME NEW e \in nodesToVisit, Visit(e) \/ VisitUnknown(e) PROVE total' \in UnsignedInt
  BY <1>1 DEF Visit, VisitUnknown
<1>2. CASE SameStation \/ PickEnd \/ NoPath \/ WalkBack
  BY <1>2 DEF SameStation, PickEnd, NoPath, WalkBack
<1>3. CASE Arrive
  BY <1>3 DEF Arrive, Inv, TypeOK
<1> QED BY <1>1, <1>2, <1>3 DEF Next

LEMMA PlanNextInv == PlanInv /\ [PlanNext]_planVars => PlanInv'
<1> SUFFICES ASSUME PlanInv, [PlanNext]_planVars PROVE PlanInv'
  OBVIOUS
<1>1. CASE Search
  <2>1. Inv'
    BY <1>1, NextInv DEF Search, PlanInv
  <2>2. total' \in UnsignedInt
    BY <1>1, SearchTotal DEF Search, PlanInv, PlanOK
  <2>3. useDistance' = useDistance
    BY <1>1 DEF Search, Next, SameStation, Visit, VisitUnknown, PickEnd, NoPath, WalkBack,
                Arrive, arguments
  <2>4. UNCHANGED plan /\ UnsignedInt' = UnsignedInt
    BY <1>1 DEF Search, UnsignedInt
  <2> QED BY <2>1, <2>2, <2>3, <2>4 DEF PlanInv, PlanOK, plan
<1>2. ASSUME UNCHANGED vars PROVE Inv'
  BY <1>2, NextInv DEF PlanInv
<1>3. CASE ReturnFastest
  <2>1. UNCHANGED vars /\ answer'.totalTravelTime = total
    BY <1>3 DEF ReturnFastest, FoundRoute
  <2> QED BY <1>2, <1>3, <2>1 DEF ReturnFastest, PlanInv, PlanOK, UnsignedInt, vars,
                wayBack, arguments
<1>4. CASE SearchQuietest
  <2>1. fastest'.totalTravelTime = total
    BY <1>4 DEF SearchQuietest, FoundRoute
  <2>2. 0 \in UnsignedInt
    BY NumberAssumption DEF UnsignedInt
  <2> QED BY <1>4, <2>1, <2>2, RestartInv DEF SearchQuietest, PlanInv, PlanOK, UnsignedInt
<1>5. CASE ReturnQuiet
  <2>1. UNCHANGED vars /\ answer'.totalTravelTime \in {total, fastest.totalTravelTime}
    BY <1>5 DEF ReturnQuiet, FoundRoute
  <2> QED BY <1>2, <1>5, <2>1 DEF ReturnQuiet, PlanInv, PlanOK, UnsignedInt, vars,
                wayBack, arguments
<1>6. CASE UNCHANGED planVars
  BY <1>2, <1>6 DEF planVars, plan, PlanInv, PlanOK, UnsignedInt, vars, wayBack, arguments
<1> QED BY <1>1, <1>3, <1>4, <1>5, <1>6 DEF PlanNext

(* Every variable has its type, in both searches and between them.         *)
THEOREM PlanTypeCorrect == PlanSpec => []PlanTypeOK
<1>1. PlanInv => PlanTypeOK BY DEF PlanInv, PlanOK, Inv, PlanTypeOK
<1> QED BY PlanInitInv, PlanNextInv, <1>1, PTL DEF PlanSpec

(* Both searches stop only when no edge could lower a metric, whatever the *)
(* counts and whether or not sums wrap.                                    *)
THEOREM BothSearchesAreExhaustive == PlanSpec => []NothingLeftToRelax
<1>1. PlanInv => NothingLeftToRelax
  BY DEF PlanInv, Inv, EmptyAfterSearch, WaitingOrRelaxed, Waiting, RelaxedFrom,
         NothingLeftToRelax
<1> QED BY PlanInitInv, PlanNextInv, <1>1, PTL DEF PlanSpec
-----------------------------------------------------------------------------
(* The times of the walks to stationB, and how a route compares with them. *)
Shortest(route) ==
    \A time \in TimesToB : route.steps # <<>> /\ route.totalTravelTime <= time

LEMMA TimesToBAreNat == TypeOK /\ IsFiniteSet(RouteStop) => TimesToB \subseteq Nat
<1> SUFFICES ASSUME TypeOK, IsFiniteSet(RouteStop) PROVE TimesToB \subseteq Nat
  OBVIOUS
<1> DEFINE Safe == Stops \X Nat
<1>1. TimeOf \in [Hops -> Nat]
  BY CostTypes
<1>2. Safe \in SUBSET (Stops \X Int) /\ <<Start, 0>> \in Safe
  BY DEF Stops
<1>3. ASSUME NEW v \in Safe, NEW n \in Successors(v[1])
      PROVE  <<n, v[2] + TimeOf[<<v[1], n>>]>> \in Safe
  BY <1>1 DEF Successors, Hops, Stops
<1> HIDE DEF Safe
<1>4. WalksWith(TimeOf) \subseteq Safe
  BY <1>1, <1>2, <1>3, WalksStay
<1> QED BY <1>4 DEF TimesToB, WalkTimes, TimeOf, Safe

LEMMA TimesToBKept ==
    ASSUME UNCHANGED <<stationA, stationB, travelTime>> PROVE TimesToB' = TimesToB
BY DEF TimesToB, WalkTimes, WalksWith, HopTime, Changes, Successors, Start, Hops

(* The route of the first search is a shortest one.                        *)
LEMMA FirstIsShortest ==
    ASSUME NEW w, SearchOK(w), useDistance, phase = "done", stationA # stationB
    PROVE  Shortest(FoundRoute)
<1>1. WalkTimes = WalkCosts
  <2>1. \A s, n : Weight(s, n) = HopTime(s, n)
    BY DEF Weight
  <2> QED BY <2>1 DEF WalkTimes, WalkCosts
<1>2. ASSUME NEW v \in WalkTimes, v[1].stationId = stationB
      PROVE  steps # <<>> /\ total <= v[2]
  BY <1>1, <1>2, FastestIf DEF FastestIsLeast
<1> QED BY <1>2 DEF Shortest, FoundRoute, TimesToB

(* A search for whatever route finds one when there is a walk.             *)
LEMMA AnyIsFound ==
    ASSUME Inv, WayStarts, IsFiniteSet(RouteStop), phase = "done", stationA # stationB,
           TimesToB # {}
    PROVE  steps # <<>>
<1>1. PICK v \in WalkTimes : v[1].stationId = stationB
  BY DEF TimesToB
<1>2. TimeOf \in [Hops -> Int] /\ v \in WalksWith(TimeOf)
  BY <1>1, CostTypes DEF Inv, WalkTimes, TimeOf
<1>3. v[1] \in DOMAIN metricFromA
  BY <1>2, WalksAreSeen DEF Searched
<1> QED BY <1>1, <1>3 DEF SeenAt, WayStarts

(* The times of the network in which the call runs.                        *)
TimesFitHere(w) ==
    /\ w \in Nat
    /\ IsFiniteSet(RouteStop)
    /\ w * (Cardinality(RouteStop) + 2) < Modulus
    /\ \A arc \in Arcs : travelTime[<<arc[1], arc[2].stationId>>] + Penalty <= w

CountsFitHere(w) ==
    \A arc \in Arcs : /\ count[arc[2].stationId] \in Nat
                      /\ 2 * count[arc[2].stationId] <= w

FastestOK(w) ==
    /\ PlanInv /\ TimesFitHere(w) /\ WayStarts
    /\ useDistance => SearchOK(w)
    /\ call = "quietest" => ~useDistance /\ (stationA # stationB => Shortest(fastest))
    /\ call = "returned" => phase = "done" /\ NeverMuchSlower

LEMMA PlanInitFastest == ASSUME NEW w, TimesFit(w), PlanInit PROVE FastestOK(w)
<1>1. PICK q \in Queries : /\ useDistance = q.useDistance
                           /\ travelTime = q.travelTime
                           /\ count = q.count
  BY DEF PlanInit, Init
<1>2. TimesFitHere(w)
  BY <1>1 DEF TimesFit, TimesFitHere
<1>3. useDistance /\ HopsFit(w)
  BY <1>1, <1>2, PlanAssumption DEF TimesFitHere, HopsFit
<1>4. SearchOK(w)
  BY <1>3, InitInv, FreshSearchOK DEF PlanInit, Init, NothingSeen
<1> QED BY <1>2, <1>4, PlanInitInv DEF FastestOK, PlanInit, SearchOK

LEMMA NothingAfterDone == phase = "done" => ~Next
BY DEF Next, SameStation, Visit, VisitUnknown, PickEnd, NoPath, WalkBack, Arrive

LEMMA PlanNextFastest ==
    ASSUME NEW w PROVE FastestOK(w) /\ [PlanNext]_planVars => FastestOK(w)'
<1> SUFFICES ASSUME FastestOK(w), [PlanNext]_planVars PROVE FastestOK(w)'
  OBVIOUS
<1>1. PlanInv'
  BY PlanNextInv DEF FastestOK
<1>2. UNCHANGED <<stationA, stationB, travelTime, count>>
  BY DEF PlanNext, Search, ReturnFastest, SearchQuietest, ReturnQuiet, planVars, vars, arguments,
         Next, SameStation, Visit, VisitUnknown, PickEnd, NoPath, WalkBack, Arrive
<1>3. TimesFitHere(w)' /\ TimesToB' = TimesToB
  BY <1>2, TimesToBKept DEF TimesFitHere, FastestOK
<1>4. TimesToB \subseteq Nat
  BY TimesToBAreNat DEF FastestOK, PlanInv, Inv, TimesFitHere
<1>5. total \in Nat /\ fastest.totalTravelTime \in Nat
  BY DEF FastestOK, PlanInv, PlanOK, UnsignedInt
<1>6. ASSUME UNCHANGED vars
      PROVE  WayStarts' /\ (useDistance' => SearchOK(w)') /\ useDistance' = useDistance
             /\ phase' = phase
  <2>1. WayStarts'
    BY <1>6 DEF FastestOK, WayStarts, Best, SeenAt, vars, arguments, maps, wayBack
  <2> QED BY <1>6, <2>1, SearchNext DEF FastestOK, vars, arguments
<1>7. CASE Search
  <2>1. UNCHANGED <<call, fastest, answer>> /\ Next
    BY <1>7 DEF Search, plan
  <2>2. useDistance' = useDistance
    BY <2>1 DEF Next, SameStation, Visit, VisitUnknown, PickEnd, NoPath, WalkBack, Arrive, arguments
  <2>3. WayStarts'
    BY <2>1, WayStartsKept DEF FastestOK, PlanInv
  <2>4. useDistance' => SearchOK(w)'
    BY <2>1, <2>2, SearchNext DEF FastestOK
  <2>5. call # "returned"
    BY <2>1, NothingAfterDone DEF FastestOK
  <2>6. Shortest(fastest) => Shortest(fastest)'
    BY <1>3, <2>1 DEF Shortest
  <2> QED BY <1>1, <1>2, <1>3, <2>1, <2>2, <2>3, <2>4, <2>5, <2>6 DEF FastestOK
<1>8. CASE ReturnFastest
  <2>1. /\ UNCHANGED vars /\ phase = "done" /\ call = "fastest" /\ call' = "returned"
        /\ answer' = FoundRoute
    BY <1>8 DEF ReturnFastest
  <2>2. useDistance /\ SearchOK(w)
    BY <2>1 DEF FastestOK, PlanInv, PlanOK
  <2>3. stationA # stationB => Shortest(FoundRoute)
    BY <2>1, <2>2, FirstIsShortest
  <2>4. ASSUME stationA # stationB, NEW time \in TimesToB
        PROVE  answer'.steps # <<>> /\ 5 * answer'.totalTravelTime <= 6 * time
    <3>1. answer'.steps # <<>> /\ answer'.totalTravelTime = total /\ total <= time /\ time \in Nat
      BY <1>4, <2>1, <2>3, <2>4 DEF Shortest, FoundRoute
    <3> QED BY <1>5, <3>1
  <2>5. NeverMuchSlower'
    BY <1>2, <1>3, <2>4 DEF NeverMuchSlower
  <2> QED BY <1>1, <1>3, <1>6, <2>1, <2>5 DEF FastestOK
<1>9. CASE SearchQuietest
  <2>1. /\ phase = "done" /\ call = "fastest" /\ call' = "quietest" /\ ~useDistance'
        /\ fastest' = FoundRoute /\ phase' = "search" /\ steps' = <<>> /\ total' = 0
    BY <1>9 DEF SearchQuietest
  <2>2. useDistance /\ SearchOK(w)
    BY <2>1 DEF FastestOK, PlanInv, PlanOK
  <2>3. stationA # stationB => Shortest(FoundRoute)
    BY <2>1, <2>2, FirstIsShortest
  <2>4. Shortest(FoundRoute) => Shortest(fastest)'
    BY <1>3, <2>1 DEF Shortest
  <2>5. WayStarts'
    BY <2>1 DEF WayStarts
  <2> QED BY <1>1, <1>2, <1>3, <2>1, <2>3, <2>4, <2>5 DEF FastestOK
<1>10. CASE ReturnQuiet
  <2>1. /\ UNCHANGED vars /\ phase = "done" /\ call = "quietest" /\ call' = "returned"
        /\ answer' = IF QuickEnough THEN FoundRoute ELSE fastest
    BY <1>10 DEF ReturnQuiet
  <2>2. ASSUME stationA # stationB, NEW time \in TimesToB
        PROVE  answer'.steps # <<>> /\ 5 * answer'.totalTravelTime <= 6 * time
    <3>1. fastest.steps # <<>> /\ fastest.totalTravelTime <= time /\ time \in Nat
      BY <1>4, <2>1, <2>2 DEF FastestOK, Shortest
    <3>2. CASE QuickEnough
      <4>1. steps # <<>>
        BY <2>1, <2>2, AnyIsFound DEF FastestOK, PlanInv, TimesFitHere
      <4>2. 5 * total < 6 * fastest.totalTravelTime
        BY <3>2 DEF QuickEnough
      <4>3. answer'.steps = steps /\ answer'.totalTravelTime = total
        BY <2>1, <3>2 DEF FoundRoute
      <4> QED BY <1>5, <3>1, <4>1, <4>2, <4>3
    <3>3. CASE ~QuickEnough
      <4>1. answer' = fastest
        BY <2>1, <3>3
      <4> QED BY <1>5, <3>1, <4>1
    <3> QED BY <3>2, <3>3
  <2>3. NeverMuchSlower'
    BY <1>2, <1>3, <2>2 DEF NeverMuchSlower
  <2> QED BY <1>1, <1>3, <1>6, <2>1, <2>3 DEF FastestOK
<1>11. CASE UNCHANGED planVars
  <2>1. UNCHANGED vars /\ UNCHANGED <<call, fastest, answer>>
    BY <1>11 DEF planVars, plan
  <2>2. (Shortest(fastest) => Shortest(fastest)') /\ (NeverMuchSlower => NeverMuchSlower')
    BY <1>2, <1>3, <2>1 DEF Shortest, NeverMuchSlower
  <2> QED BY <1>1, <1>2, <1>3, <1>6, <2>1, <2>2 DEF FastestOK
<1> QED BY <1>7, <1>8, <1>9, <1>10, <1>11 DEF PlanNext

(* Whatever the counts, negative ones too, a route is returned whenever    *)
(* there is a walk to stationB, and it takes at most a fifth longer than   *)
(* any of them.                                                            *)
THEOREM AnswerIsQuick == ASSUME NEW w, TimesFit(w) PROVE PlanSpec => []NeverMuchSlower
<1>1. PlanInit => FastestOK(w)
  BY PlanInitFastest
<1>2. FastestOK(w) /\ [PlanNext]_planVars => FastestOK(w)'
  BY PlanNextFastest
<1>3. FastestOK(w) => NeverMuchSlower
  BY DEF FastestOK, NeverMuchSlower
<1> QED BY <1>1, <1>2, <1>3, PTL DEF PlanSpec
-----------------------------------------------------------------------------
(* What the walks cost does not change while the questions do not.         *)
LEMMA CostsKept ==
    ASSUME UNCHANGED <<stationA, useDistance, travelTime, count>>
    PROVE  WalkCosts' = WalkCosts /\ \A route : Crowd(route)' = Crowd(route)
<1>1. Start' = Start /\ Hops' = Hops
  BY DEF Start, Hops
<1>2. \A s, n : Weight(s, n)' = Weight(s, n) /\ Successors(s)' = Successors(s)
  BY DEF Weight, HopTime, Changes, Successors
<1>3. WeightOf' = WeightOf
  BY <1>1, <1>2 DEF WeightOf
<1>4. \A cost : WalksWith(cost)' = WalksWith(cost)
  BY <1>1, <1>2 DEF WalksWith
<1>5. \A route : Crowd(route)' = Crowd(route)
  BY <1>1, <1>2 DEF Crowd
<1> QED BY <1>3, <1>4, <1>5 DEF WalkCosts, WeightOf

(* The crowd along a route that was found is the metric of its last stop.  *)
LEMMA CrowdIsMetric ==
    ASSUME NEW w, SearchOK(w), phase = "done", stationA # stationB, steps # <<>>
    PROVE  Crowd(steps) = metricFromA[endStop]
<1> DEFINE n == Len(steps)
           Before(i) == IF i = 0 THEN Start ELSE At(i)
           term == [i \in 0 + 1..n |-> Weight(Before(i - 1), At(i))]
           Body(f) == [i \in 0..n |-> IF i = 0 THEN 0
                                      ELSE f[i - 1] + Weight(Before(i - 1), At(i))]
           crowd == CHOOSE f : f = Body(f)
           metric == [i \in 0..n |-> metricFromA[StopAt(i)]]
<1>1. n \in Nat /\ \A i \in 0..n : Before(i) = StopAt(i)
  BY AlongTheRoute DEF RouteSoFar, StopAt
<1>2. \A i \in 1..n : metric[i] = metric[i - 1] + Weight(Before(i - 1), At(i))
  <2> SUFFICES ASSUME NEW i \in 1..n
               PROVE  metric[i] = metric[i - 1] + Weight(Before(i - 1), At(i))
    OBVIOUS
  <2>1. i - 1 \in 0..n /\ i \in 0..n
    BY <1>1
  <2>2. Before(i - 1) = StopAt(i - 1)
    BY <1>1, <2>1
  <2>3. metricFromA[StopAt(i)] = metricFromA[StopAt(i - 1)] + Weight(StopAt(i - 1), At(i))
    BY AlongTheRoute
  <2> QED BY <2>1, <2>2, <2>3
<1>3. metric[0] = 0 /\ metric[n] = metricFromA[endStop] /\ metric = [i \in 0..n |-> metric[i]]
  BY <1>1, AlongTheRoute
<1>4. Crowd(steps) = crowd[n]
  BY DEF Crowd, At
<1> HIDE DEF metric, n, Before
<1>5. Sums(metric, term, 0, n)
  <2>1. \A k \in 0 + 1..n : k \in 1..n /\ term[k] = Weight(Before(k - 1), At(k))
    BY <1>1
  <2> HIDE DEF term
  <2> QED BY <1>2, <1>3, <2>1 DEF Sums
<1>6. metric = Body(metric)
  <2>1. ASSUME NEW i \in 0..n PROVE metric[i] = Body(metric)[i]
    <3>1. CASE i = 0
      BY <1>3, <3>1
    <3>2. CASE i # 0
      <4>1. i \in 1..n
        BY <1>1, <3>2
      <4> QED BY <1>2, <3>2, <4>1
    <3> QED BY <3>1, <3>2
  <2>2. Body(metric) = [i \in 0..n |-> Body(metric)[i]]
    OBVIOUS
  <2> QED BY <1>3, <2>1, <2>2
<1>7. \A f : f = Body(f) => Sums(f, term, 0, n)
  BY <1>1 DEF Sums
<1> HIDE DEF Body, term
<1>8. crowd = Body(crowd)
  BY <1>6, Zenon
<1>9. crowd = metric
  BY <1>1, <1>5, <1>7, <1>8, SumsUnique
<1> QED BY <1>3, <1>4, <1>9

(* The route of the second search, if there is one, is a quietest one.     *)
LEMMA SecondIsQuietest ==
    ASSUME NEW w, SearchOK(w), phase = "done", stationA # stationB,
           NEW v \in WalkCosts, v[1].stationId = stationB
    PROVE  Crowd(steps) <= v[2]
<1>1. v[1] \in DOMAIN metricFromA /\ v[2] \in Int /\ metricFromA[v[1]] <= v[2]
  BY MetricIsLeast DEF Searched
<1>2. v[1] \in SeenAt(stationB)
  BY <1>1 DEF SeenAt
<1>3. steps # <<>>
  BY <1>2 DEF SearchOK, WayStarts
<1>4. endStop \in Best(SeenAt(stationB)) /\ Crowd(steps) = metricFromA[endStop]
  BY <1>3, AlongTheRoute, CrowdIsMetric
<1>5. metricFromA[endStop] <= metricFromA[v[1]]
  BY <1>2, <1>4 DEF Best
<1>6. metricFromA[endStop] \in Nat /\ metricFromA[v[1]] \in Nat
  BY <1>1 DEF SearchOK, Inv, TypeOK, UnsignedInt
<1> QED BY <1>1, <1>4, <1>5, <1>6

QuietOK(w) ==
    /\ FastestOK(w) /\ CountsFitHere(w) /\ SearchOK(w)
    /\ call = "returned" => QuietIsQuietest

LEMMA PlanInitQuiet == ASSUME NEW w, PlanFits(w), PlanInit PROVE QuietOK(w)
<1>1. PICK q \in Queries : /\ useDistance = q.useDistance
                           /\ travelTime = q.travelTime
                           /\ count = q.count
  BY DEF PlanInit, Init
<1>2. CountsFitHere(w)
  BY <1>1 DEF PlanFits, CountsFit, CountsFitHere
<1>3. FastestOK(w) /\ useDistance
  BY <1>1, PlanInitFastest, PlanAssumption DEF PlanFits
<1> QED BY <1>2, <1>3 DEF QuietOK, FastestOK, PlanInit

LEMMA PlanNextQuiet ==
    ASSUME NEW w PROVE QuietOK(w) /\ [PlanNext]_planVars => QuietOK(w)'
<1> SUFFICES ASSUME QuietOK(w), [PlanNext]_planVars PROVE QuietOK(w)'
  OBVIOUS
<1>1. FastestOK(w)'
  BY PlanNextFastest DEF QuietOK
<1>2. UNCHANGED <<stationA, stationB, travelTime, count>>
  BY DEF PlanNext, Search, ReturnFastest, SearchQuietest, ReturnQuiet, planVars, vars, arguments,
         Next, SameStation, Visit, VisitUnknown, PickEnd, NoPath, WalkBack, Arrive
<1>3. CountsFitHere(w)' /\ TimesToB' = TimesToB
  BY <1>2, TimesToBKept DEF QuietOK, CountsFitHere
<1>4. SearchOK(w)'
  <2>1. CASE UNCHANGED vars \/ Next
    BY <2>1, SearchNext DEF QuietOK
  <2>2. CASE SearchQuietest
    <3>1. HopsFit(w)'
      BY <1>1, <1>3 DEF FastestOK, TimesFitHere, CountsFitHere, HopsFit
    <3>2. NothingSeen' /\ (phase = "search" /\ steps = <<>> /\ total = 0)'
      BY <2>2 DEF SearchQuietest, NothingSeen, Start
    <3>3. Inv'
      BY <2>2, RestartInv DEF QuietOK, FastestOK
    <3>4. MapsOK(w)'
      <4>1. (HopsFit(w) /\ NothingSeen => MapsOK(w))'
        BY NothingSeenOK, PTL
      <4> QED BY <3>1, <3>2, <4>1
    <3> QED BY <3>1, <3>2, <3>3, <3>4 DEF SearchOK, WayStarts, WayOK, OnTheWay
  <2> QED BY <2>1, <2>2 DEF PlanNext, Search, ReturnFastest, ReturnQuiet, planVars
<1>5. call' = "returned" => QuietIsQuietest'
  <2>1. CASE Search
    <3>1. call # "returned" /\ call' = call
      BY <2>1, NothingAfterDone DEF Search, QuietOK, FastestOK, plan
    <3> QED BY <3>1
  <2>2. CASE ReturnFastest
    <3>1. useDistance'
      BY <2>2 DEF ReturnFastest, QuietOK, FastestOK, PlanInv, PlanOK, vars, arguments
    <3> QED BY <3>1 DEF QuietIsQuietest
  <2>3. CASE SearchQuietest
    BY <2>3 DEF SearchQuietest
  <2>4. CASE ReturnQuiet
    <3> SUFFICES ASSUME stationA # stationB PROVE QuietIsQuietest'
      BY <1>2 DEF QuietIsQuietest
    <3>1. /\ UNCHANGED vars /\ phase = "done" /\ call = "quietest"
          /\ answer' = IF QuickEnough THEN FoundRoute ELSE fastest
      BY <2>4 DEF ReturnQuiet
    <3>2. /\ WalkCosts' = WalkCosts /\ total' = total /\ stationB' = stationB
          /\ \A route : Crowd(route)' = Crowd(route)
      BY <3>1, CostsKept DEF vars, arguments, wayBack
    <3>3. CASE QuickEnough
      <4>1. answer'.steps = steps
        BY <3>1, <3>3 DEF FoundRoute
      <4>2. \A v \in WalkCosts : v[1].stationId = stationB => Crowd(steps) <= v[2]
        BY <3>1, SecondIsQuietest DEF QuietOK
      <4>3. Crowd(answer'.steps) = Crowd(steps)
        BY <4>1
      <4> QED BY <3>2, <4>1, <4>2 DEF QuietIsQuietest
    <3>4. CASE ~QuickEnough
      <4>1. answer' = fastest /\ Shortest(fastest)
        BY <3>1, <3>4 DEF QuietOK, FastestOK
      <4>2. total \in Nat /\ fastest.totalTravelTime \in Nat
        BY DEF QuietOK, FastestOK, PlanInv, PlanOK, UnsignedInt
      <4>3. 5 * total >= 6 * fastest.totalTravelTime
        BY <3>4, <4>2 DEF QuickEnough
      <4> QED BY <1>3, <3>2, <4>1, <4>3 DEF QuietIsQuietest, Shortest
    <3> QED BY <3>3, <3>4
  <2>5. CASE UNCHANGED planVars
    BY <1>3, <2>5, CostsKept DEF QuietOK, QuietIsQuietest, planVars, plan, vars, arguments, wayBack
  <2> QED BY <2>1, <2>2, <2>3, <2>4, <2>5 DEF PlanNext
<1> QED BY <1>1, <1>3, <1>4, <1>5 DEF QuietOK

LEMMA PlanAlways == ASSUME NEW w, PlanFits(w) PROVE PlanSpec => []QuietOK(w)
<1>1. PlanInit => QuietOK(w)
  BY PlanInitQuiet
<1>2. QuietOK(w) /\ [PlanNext]_planVars => QuietOK(w)'
  BY PlanNextQuiet
<1> QED BY <1>1, <1>2, PTL DEF PlanSpec

(* The quiet route is a quietest one, unless it takes at least a fifth     *)
(* longer than the fastest; then the answer is a fastest one.              *)
THEOREM AnswerIsQuiet == ASSUME NEW w, PlanFits(w) PROVE PlanSpec => []QuietIsQuietest
<1>1. QuietOK(w) => QuietIsQuietest
  BY DEF QuietOK, QuietIsQuietest
<1> QED BY PlanAlways, <1>1, PTL

(* What is proved of one search holds of both.                             *)
THEOREM BothSearchesAreSound ==
    ASSUME NEW w, PlanFits(w)
    PROVE  PlanSpec => [](ParentsAgree /\ WayBackIsAcyclic /\ RouteIsConnected /\ FastestIsLeast)
<1>1. QuietOK(w) => ParentsAgree /\ WayBackIsAcyclic /\ RouteIsConnected /\ FastestIsLeast
  BY ParentsAgreeIf, AcyclicIf, RouteConnected, FastestIf DEF QuietOK
<1> QED BY PlanAlways, <1>1, PTL
=============================================================================
