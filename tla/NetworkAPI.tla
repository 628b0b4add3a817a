----------------------------- MODULE NetworkAPI -----------------------------
(***************************************************************************)
(* What class TransportNetwork promises its callers, without its graph of  *)
(* directed edges: a set of known stations with passenger counts, an       *)
(* adjacency relation without direction, ONE travel time per pair of       *)
(* adjacent stations, the routes that serve each station, and the value    *)
(* each call returns (transport-network.h, the comments of the methods).   *)
(* TransportNetwork.tla is shown to implement it.                          *)
(***************************************************************************)
EXTENDS Integers, Sequences

CONSTANTS
    Station,        \* the station ids callers may use
    Lines,          \* the lines callers may add, each a sequence of routes
    Times,          \* the travel times callers may set
    MaxPassengers   \* bound: |count| of a station

VARIABLES
    count,      \* [known stations -> Int]
    adjacent,   \* a symmetric relation on Station
    time,       \* [Station \X Station -> Nat], the travel time between two stations
    serving,    \* [Station -> routes that stop there]
    alive,      \* FALSE once a call has crashed
    call,       \* the last call, with its arguments
    result      \* what it returned

vars == <<count, adjacent, time, serving, alive, call, result>>

Known == DOMAIN count

(* A hop of a line: the route it is on and the two stops it joins.         *)
HopsOf(line) ==
    UNION { { [route |-> line[r].id, from |-> line[r].stops[i - 1], to |-> line[r].stops[i]]
                : i \in 2..Len(line[r].stops) } : r \in DOMAIN line }

Init ==
    /\ count = [s \in {} |-> 0]
    /\ adjacent = {}
    /\ time = [p \in Station \X Station |-> 0]
    /\ serving = [s \in Station |-> {}]
    /\ alive = TRUE
    /\ call = <<"none">>
    /\ result = TRUE

AddStation(s) ==
    /\ alive
    /\ call' = <<"AddStation", s>>
    /\ result' = (s \notin Known)
    /\ count' = [x \in Known \union {s} |-> IF x \in Known THEN count[x] ELSE 0]
    /\ UNCHANGED <<adjacent, time, serving, alive>>

(* The hops in part become part of the network: their routes serve the     *)
(* stations they join, those that are known. No travel time changes.       *)
Connect(part) ==
    /\ adjacent' = adjacent \union {<<h.from, h.to>> : h \in part}
                            \union {<<h.to, h.from>> : h \in part}
    /\ serving' = [s \in Station |-> serving[s] \union
                     {h.route : h \in {g \in part : s \in Known \intersect {g.from, g.to}}}]
    /\ UNCHANGED <<count, time>>

(* An accepted line is in the network as a whole, and knew all its stops.  *)
AcceptLine(line) ==
    /\ alive
    /\ call' = <<"AddLine", line>>
    /\ \A h \in HopsOf(line) : h.from \in Known /\ h.to \in Known
    /\ Connect(HopsOf(line))
    /\ result' = TRUE
    /\ UNCHANGED alive

(* The route of the hop is in the network before the call.                 *)
IsIn(h) ==
    /\ <<h.from, h.to>> \in adjacent
    /\ h.route \in serving[h.from] \intersect serving[h.to]

(* A line is assumed to be well formed: AddLine may refuse one that is not.*)
RouteTwice(line) == \E q, r \in DOMAIN line : q # r /\ line[q].id = line[r].id

(* A rejected line may leave some of its hops behind. It is rejected only  *)
(* for an unknown stop, because one of its routes was in the network       *)
(* before the call, or because it has two routes of one id.                *)
RejectLine(line) ==
    /\ alive
    /\ call' = <<"AddLine", line>>
    /\ \/ \E h \in HopsOf(line) : h.from \notin Known \/ IsIn(h)
       \/ RouteTwice(line)
    /\ \E part \in SUBSET HopsOf(line) :
          /\ \A h \in part : h.from \in Known /\ h.to \in Known
          /\ Connect(part)
    /\ result' = FALSE
    /\ UNCHANGED alive

(* A line with a stop the network does not know may take the process down, *)
(* after some of its hops were added.                                      *)
CrashOnLine(line) ==
    /\ alive
    /\ call' = <<"AddLine", line>>
    /\ \E h \in HopsOf(line) : h.to \notin Known
    /\ \E part \in SUBSET HopsOf(line) :
          /\ \A h \in part : h.from \in Known
          /\ Connect(part)
    /\ alive' = FALSE
    /\ UNCHANGED result

RecordPassenger(s, by) ==
    /\ alive
    /\ call' = <<"RecordPassengerEvent", s, by>>
    /\ result' = (s \in Known)
    /\ count' = [x \in Known |-> IF x = s THEN count[x] + by ELSE count[x]]
    /\ s \in Known => count[s] + by \in -MaxPassengers..MaxPassengers
    /\ UNCHANGED <<adjacent, time, serving, alive>>

(* One travel time for the pair, in both directions and on every route.    *)
SetTravelTime(a, b, t) ==
    /\ alive
    /\ call' = <<"SetTravelTime", a, b, t>>
    /\ result' = (<<a, b>> \in adjacent)
    /\ time' = [p \in Station \X Station |->
                  IF p \in {<<a, b>>, <<b, a>>} \intersect adjacent THEN t ELSE time[p]]
    /\ UNCHANGED <<count, adjacent, serving, alive>>

Next ==
    \/ \E s \in Station : AddStation(s)
    \/ \E line \in Lines : AcceptLine(line) \/ RejectLine(line) \/ CrashOnLine(line)
    \/ \E s \in Station, by \in {1, -1} : RecordPassenger(s, by)
    \/ \E a, b \in Station, t \in Times : SetTravelTime(a, b, t)

Spec == Init /\ [][Next]_vars
=============================================================================
