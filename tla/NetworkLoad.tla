---------------------------- MODULE NetworkLoad ----------------------------
(***************************************************************************)
(* TransportNetwork::FromJson: a document of stations, lines and travel    *)
(* times is loaded into an empty network by the calls of                   *)
(* TransportNetwork.tla, one iteration of a loop per step. The lines go    *)
(* through a hash map first, so they are added in any order.               *)
(*                                                                         *)
(* An item of the document is Malformed when a key is missing or has a     *)
(* value of another type: reading it throws nlohmann::json::exception.     *)
(***************************************************************************)
EXTENDS TransportNetwork, SequencesExt

CONSTANTS
    Documents,  \* [stations, lines, times] : sequences of items
    Malformed   \* an item that cannot be read

(* lineToRoutes: an item of the lines that has no route leaves no entry.   *)
LineIds(doc) == {item.lineId : item \in {i \in ToSet(doc.lines) : i.routes # <<>>}}

(* Faulty variant: an item replaces the earlier ones of the same line.     *)
LastRoutesOf(doc, id) ==
    doc.lines[CHOOSE i \in DOMAIN doc.lines :
                /\ doc.lines[i].lineId = id /\ doc.lines[i].routes # <<>>
                /\ \A j \in DOMAIN doc.lines : j > i =>
                      doc.lines[j].lineId # id \/ doc.lines[j].routes = <<>>].routes

(* The items of one line are joined, in the order of the document.         *)
RoutesOf(doc, id) ==
    FlattenSeq([i \in DOMAIN doc.lines |->
                  IF doc.lines[i].lineId = id THEN doc.lines[i].routes ELSE <<>>])

(* A route gets the lineId of the item it is in. What is added are lines   *)
(* that callers may add.                                                   *)
ASSUME DocumentsAssumption ==
    \A doc \in Documents :
       /\ doc.stations \in Seq(Station \union {Malformed})
       /\ doc.lines \in Seq(ToSet(doc.lines))
       /\ doc.times \in Seq([from : Station, to : Station, travelTime : Times] \union {Malformed})
       /\ Malformed \notin ToSet(doc.lines) =>
             /\ \A item \in ToSet(doc.lines) :
                   /\ item.routes \in Seq(ToSet(item.routes))
                   /\ \A r \in ToSet(item.routes) : r.lineId = item.lineId
             /\ \A id \in LineIds(doc) : RoutesOf(doc, id) \in Lines

VARIABLES
    document,   \* the argument
    pc,         \* the loop: "stations", "lines", "times"; "returned" or "thrown"
    at,         \* the index of the next station or travel time
    waiting,    \* the line ids of lineToRoutes still to be added
    success     \* the local of that name, in the end the value returned

loader == <<document, pc, at, waiting, success>>

HasItem(items) == at <= Len(items)
IsMalformed(items) == HasItem(items) /\ items[at] = Malformed
-----------------------------------------------------------------------------
LoadInit ==
    /\ Init
    /\ document \in Documents
    /\ pc = "stations"
    /\ at = 1
    /\ waiting = {}
    /\ success = TRUE

(* A station that is there already: std::runtime_error.                    *)
LoadStation ==
    /\ pc = "stations"
    /\ HasItem(document.stations) /\ ~IsMalformed(document.stations)
    /\ AddStation(document.stations[at])
    /\ pc' = IF result' THEN "stations" ELSE "thrown"
    /\ at' = at + 1
    /\ UNCHANGED <<document, waiting, success>>

(* All lines are read before the first one is added.                       *)
ReadLines ==
    /\ pc = "stations"
    /\ ~HasItem(document.stations)
    /\ Malformed \notin ToSet(document.lines)
    /\ pc' = "lines"
    /\ waiting' = LineIds(document)
    /\ UNCHANGED <<vars, document, at, success>>

LoadLine(id) ==
    /\ pc = "lines"
    /\ AddLine(RoutesOf(document, id))
    /\ waiting' = waiting \ {id}
    /\ UNCHANGED <<document, pc, at, success>>

(* AddLine returns false: std::runtime_error.                              *)
RefuseLine(id) ==
    /\ pc = "lines"
    /\ LET line == RoutesOf(document, id) IN \E h \in Hops(line) : AddLineRejected(line, h)
    /\ pc' = "thrown"
    /\ UNCHANGED <<document, at, waiting, success>>

CrashOnLine(id) ==
    /\ pc = "lines"
    /\ LET line == RoutesOf(document, id) IN \E h \in Hops(line) : AddLineCrash(line, h)
    /\ UNCHANGED loader

LinesLoaded ==
    /\ pc = "lines"
    /\ waiting = {}
    /\ pc' = "times"
    /\ at' = 1
    /\ success' = TRUE
    /\ UNCHANGED <<vars, document, waiting>>

LoadTime ==
    /\ pc = "times"
    /\ HasItem(document.times) /\ ~IsMalformed(document.times)
    /\ LET t == document.times[at] IN SetTravelTime(t.from, t.to, t.travelTime)
    /\ success' = (success \/ result')
    /\ at' = at + 1
    /\ UNCHANGED <<document, pc, waiting>>

Return ==
    /\ pc = "times"
    /\ ~HasItem(document.times)
    /\ pc' = "returned"
    /\ UNCHANGED <<vars, document, at, waiting, success>>

JsonException ==
    /\ \/ pc = "stations" /\ IsMalformed(document.stations)
       \/ /\ pc = "stations" /\ ~HasItem(document.stations)
          /\ Malformed \in ToSet(document.lines)
       \/ pc = "times" /\ IsMalformed(document.times)
    /\ pc' = "thrown"
    /\ UNCHANGED <<vars, document, at, waiting, success>>

LoadNext ==
    \/ LoadStation \/ ReadLines
    \/ \E id \in waiting : LoadLine(id) \/ RefuseLine(id) \/ CrashOnLine(id)
    \/ LinesLoaded \/ LoadTime \/ Return \/ JsonException

LoadSpec == LoadInit /\ [][LoadNext]_<<vars, loader>>
-----------------------------------------------------------------------------
(* Properties.                                                             *)

RoutesIn(doc) == UNION {ToSet(item.routes) : item \in ToSet(doc.lines)}

(* The hops of a document, read from its routes and not as AddLine does.   *)
Legs(doc) ==
    UNION { { [ends |-> <<r.stops[i - 1], r.stops[i]>>, label |-> Label(r)]
                : i \in 2..Len(r.stops) } : r \in RoutesIn(doc) }

(* The time the document gives last for a pair of stations, or no time.    *)
LastTime(doc, e) ==
    LET about == {i \in DOMAIN doc.times : <<doc.times[i].from, doc.times[i].to>>
                                              \in {e, <<e[2], e[1]>>}}
    IN  IF about = {} THEN 0
        ELSE doc.times[CHOOSE i \in about : \A j \in about : j <= i].travelTime

(* When FromJson returns, in whatever order the hash map gave the lines,   *)
(* the network holds the document: its stations, the edges and routes of   *)
(* all its lines, also of a line split over several items, and on each     *)
(* edge the time given last for its stations in either direction.          *)
LoadedIsDocument ==
    pc = "returned" =>
       /\ stationIdToNode = ToSet(document.stations)
       /\ DOMAIN edges = {leg.ends : leg \in Legs(document)}
       /\ \A e \in DOMAIN edges :
             /\ edges[e].routes = {leg.label : leg \in {l \in Legs(document) : l.ends = e}}
             /\ edges[e].travelTime = LastTime(document, e)

(* A document that can be read, has each station once, stops at stations   *)
(* of its own only and no two routes with the same ids.                    *)
WellFormed(doc) ==
    /\ \A items \in {doc.stations, doc.lines, doc.times} : Malformed \notin ToSet(items)
    /\ \A i, j \in DOMAIN doc.stations : doc.stations[i] = doc.stations[j] => i = j
    /\ \A r \in RoutesIn(doc) : ToSet(r.stops) \subseteq ToSet(doc.stations)
    /\ \A i, j \in DOMAIN doc.lines :
          \A m \in DOMAIN doc.lines[i].routes, n \in DOMAIN doc.lines[j].routes :
             Label(doc.lines[i].routes[m]) = Label(doc.lines[j].routes[n]) => i = j /\ m = n

(* A well-formed document is loaded: FromJson neither throws nor crashes,  *)
(* however its lines share edges.                                          *)
WellFormedLoads == WellFormed(document) => pc # "thrown" /\ status = "running"
=============================================================================
