# Verification of the network monitor

This directory holds TLA+ models of the London transport network monitor, the
TLC runs that check them and the TLAPS proofs of their most important
properties. Paths such as `transport-network.cpp:102` are files of this
repository (`src/`, `inc/network-monitor/`, `inc/network-monitor-internal/`).

## The system

The program connects to a STOMP server over a secure WebSocket, subscribes to
passenger events, and keeps a transport network up to date with them.

| Component | State | Operations |
|---|---|---|
| `TransportNetwork` | a graph: a node per station with its passenger count, a directed edge per pair of stations some route joins, with its routes and its travel time; incoming edges held a second time at their far end | `AddStation`, `AddLine`, `RecordPassengerEvent`, `SetTravelTime`; queries for counts, routes, travel times; `FromJson`; `GetFastestTravelRoute`, `GetQuietTravelRoute` |
| `WebSocketClient` | the stream, the flag `closed_`, three callbacks, and which asynchronous operations are pending | `Connect`, `Send`, `Close`; handlers of resolve, connect, TLS handshake, WebSocket handshake, read, write, close |
| `StompClient` | `connected_`, `subscribed_`, `disconnected_`, subscription and receipt ids, four callbacks | `Connect`, `Subscribe`, `Close`; `MessageHandler` |
| `StompFrame` | command, headers, body, error code | the constructor: parse, then validate |
| `NetworkMonitor` | a network, a client, an `io_context` | `Configure`, `Run` (for ever or for some seconds), `OnMessage` |
| `WebSocketServer`, `file-downloader`, `main` | | template that cannot be instantiated, one download, command line |

`main` configures a `NetworkMonitor`, which loads the layout (`FromJson`),
creates a `StompClient` and connects. The `StompClient` gives the
`WebSocketClient` three callbacks; all handlers run on the one thread that calls
`io_context::run`. Frames come up through `onMessage` to `NetworkMonitor::OnMessage`,
which calls `RecordPassengerEvent`. An exception in a handler leaves
`io_context::run` and ends the program in `main`.

What is hard here:

- **Partial failure.** `AddLine` and `FromJson` fail in the middle and leave what
  they did; a lookup is checked against the wrong variable.
- **Order of calls.** Lines and times may be added in any order, and lines share
  edges; an edge made after its time was set has none.
- **Two copies of the adjacency**, and two edges per pair of stations that should
  have one travel time.
- **The path search** keeps three maps and a queue with stale entries, adds signed
  counts to unsigned metrics, and leaves ties to hash order.
- **Asynchronous handlers**: a `Close` during the connection chain, a write that
  fails, a server that is silent during the TLS handshake, the end of a connection
  that is seen by two handlers.
- **Two searches with different metrics** whose times are compared in floating point.
- **A parser of four functions**, each of which starts where the last one stopped,
  and a validation that throws for a length that is no number.
- **The end of `Run`**: `io_context::run` returns when nothing is pending, after a
  timer that may fire at any point of the connection.
- **Flags that outlive a connection**: `StompClient` resets none of its three, and
  frames of the server may come at any time, for a subscription that was replaced,
  or before there is a handler for them.

`PROJECT.json` lists these hazards at their lines with the properties that cover
them.

## Modules

| Module | Models |
|---|---|
| `NetworkAPI` | what the comments of `transport-network.h` promise of `TransportNetwork`, without its graph |
| `TransportNetwork` | the class: one action per method that changes the graph (three for `AddLine`: accepted, refused at a hop, crashed at a hop), one operator per query |
| `NetworkLoad` | `FromJson`, over the actions of `TransportNetwork` |
| `RouteSearch` | `GetOptimalTravelRoute`, for both metrics |
| `RoutePlanner` | `GetFastestTravelRoute` and `GetQuietTravelRoute`, over the actions of `RouteSearch` |
| `Connection` | what the comments of `Connect` and `Close` in `websocket-client.h` promise of one connection, without streams and handlers |
| `WebSocketClient` | the class: the user's calls and every handler |
| `StompClient` | the class, over `WebSocketClient`, and the frames of a server |
| `StompFrame` | the constructor: parser and validation |
| `NetworkMonitor` | the class and `main`, over `StompClient` and the counts of `TransportNetwork` |
| `...Proofs` | the theorems about the module of that name (`TransportNetworkProofs`: about `NetworkLoad` as well) |
| `Induction` | lemmas about numbers and recursion the proofs use |
| `MC...` | the small instances for TLC |

`NetworkMonitor` is the composition: its client is `StompClient`, whose stream is
`WebSocketClient`; `StompFrame` stands beside them and tells what `StompClient`
may rely on in a frame that was accepted.

Definitions marked "Faulty variant" are no part of the models. Each stands for a
plausible bug, and shows that a property would notice it: put in place of the
definition below it, the run must fail.

### TransportNetwork

`passengers` is `passengers_` of every node, and its domain the keys of
`stationIdToNode_`. `edges` is the union of the nodes' `toStationIdToEdge_`, a
function from pairs to the routes and the time of the `RouteEdge`; `incoming` is
the union of their `fromStationIdToEdge_`, which holds pointers to the same edges.
`call` and `result` are the last call and its answer, which make the refinement
of `NetworkAPI` compare call by call; `accepted` is a history variable.

`AddLine` visits hops in order. The model computes which hop fails first from
the state before the call and from the earlier hops of the same line, and adds
the hops before it at once: nothing else runs between them. `Rejects` is the two
`return false` that can be reached, `Crashes` the lookup of the current stop at
line 111 whose result is not checked. A crash leaves the edges of the hops before it
and the edge of its own hop, which the far end does not know: the properties of the
graph are about a program that runs.

`NetworkAPI` states when a line may be refused by what was there before the call:
an unknown stop, a route that is in the network (`IsIn`), or a line that is not well
formed, with two routes of one id (`RouteTwice`).

### NetworkLoad

One iteration of each loop of `FromJson` per step. `RoutesOf` is `lineToRoutes`,
which joins the items of one line; `LoadLine` takes any waiting line, as the hash
map may. A malformed item stands for any JSON exception. Loading starts from an
empty network.

### RouteSearch

A stop of the search is a `GraphStop`. `Visit` is one iteration of the queue loop,
for all neighbours at once: they are different stops, none of them the one
visited. The queue is a set, as it never holds an entry twice. Which of several
least entries is on top, and which of several least stops `std::sort` puts first,
is left open, because the code leaves it to hash order. `WalkBack` is one iteration
of the loop that builds the route; `MaxSteps` bounds it where it would run for
ever. All arithmetic of the search is modulo `Modulus`. The graph is given by constants: the
arcs that `TransportNetwork` would hold, and for each query the travel times and
counts.

### RoutePlanner

`call` says which search runs. Both calls search for the fastest route first, so
they are one behaviour up to the end of that search: `ReturnFastest` ends it there,
`SearchQuietest` keeps the route in `fastest` and starts again from new maps. The
factor 1.2 is written in integers: where both sides are equal the time is a multiple
of 5, and the product in `double` is rounded to the exact integer.

### WebSocketClient

`step` is the pending operation of the connection chain, `reading`, `writing` and
`closing` the other pending operations, `stream` the state of the Beast stream as
the class depends on it. A handler and everything it calls is one action. The
stream, the resolver and TCP are external: their handlers may succeed or fail at
any time. The user keeps the rules of the stream (one write, one close at a time,
none during the WebSocket handshake), connects again when nothing of the last
connection is pending, and may leave out the optional callbacks. A callback may
throw (`OnMessageThrows`).

The refinement mapping `ConnectionPhase` reads the phase of `Connection` off the
pending operations: a connection that has ended is told of while a read is still
pending. `Connection` says which calls the user gets: `onConnect` once, if it was
given (`wanted`, mapped to `onConnect_`), when the attempt ends; `onMessage` only
while the connection is open; `onDisconnect` once, unless the user closed. `heard` is
a history variable that flips with each message, so that a call of `onMessage` is a
step of `Connection` (`Message`) and not a stutter.

### StompClient

Every action is an action of `WebSocketClient` (instance `WS`, with its variables)
with what the callbacks of this class do in that handler. `OnWsConnect` calls
`Send` inside the handler of the handshake: `calling` keeps every other step out
until it is done. `token` is the pair of `subscriptionId_` and `receiptId_`, drawn
from a set, so that a draw may repeat. The server is external: it sends any frame
at any time, and `conforms` remembers whether all were in the order of the
protocol. `sent`, `accepted` and `acknowledged` are what it knows of the present
connection; `connectTold` and `onDisconnects` are history variables. Two kinds of
frame throw out of `io_context::run` (`WS!OnMessageThrows`): one that calls the empty
`onMessage_` (`CallsEmpty`), and one for which the constructor of `StompFrame` throws
(`ConstructorThrows`). The second is the frame `BADLENGTH`: any command, with a
content-length that is no number, which `std::stoi` throws for (`stomp-frame.cpp:224`).
The order of the protocol says nothing about it, so `conforms` allows it at any time;
`badLength` remembers it. `GARBLED` is a frame that `StompFrame` stores an error for.

### StompFrame

A text is a sequence of tokens: words, and the three characters the parser looks
for. One step per function of the parser, one `ParseHeader` per header. `idx` is
the index a function gives to the next. `headers_` holds parts of the text, so that
properties can compare the fields with the text they come from. The tables
`requiredHeaders` and `optionalHeaders` are those of `Validate`, with the first of
the two entries for `MESSAGE`. `std::stoi` reads the number a value begins with:
`Number` says which words it can read, and `thrown` is its exception.

### NetworkMonitor

`phase` is where `main` is: before `Configure`, before `Run`, in it, or after it.
`Configure` connects the client with the handlers of this class; `OnConnect` is the
handler that subscribes, kept next to the frame `CONNECTED` by `answering`.
`OnMessage` is `StompClient::MessageHandler` with what the class does with the body:
a body that cannot be read throws, a type that is not known is logged, an unknown
station is refused by `RecordPassengerEvent` (`TN!Recorded`). The two rules of the
stream that this class may break (one `async_write` at a time, no `async_close`
during the WebSocket handshake) are actions of their own that end the program
(`OnConnectOverlaps`, `OnTimerInHandshake`). `OnlyBadInputEnds` names the two windows
in which they may happen by the state of the client, and so says that they happen
nowhere else: the timer has fired and the step of the chain is the handshake; or a
server in order has accepted, `STOMP` is the only frame sent, and the handler of its
write has not run. `ledger` is the server's own count of what it sent for a
subscription it knows.

## Runs

| Run | Shows |
|---|---|
| `transport_network` | After any sequence of calls: edges join known stations and are known at both ends; the directions of a pair agree on the time or one has none; a refused line leaves a leading part of itself, which no later attempt completes: a line is in the network as a whole exactly when `AddLine` returned true for it; `GetRoutesServingStation` is exact; the time along an accepted route is the sum of its hops; the graph implements `NetworkAPI` |
| `transport_network_times` | *Violation*: the time of a pair is not the same for all its routes |
| `network_load` | 80 documents: what was loaded is the document, in whatever order its lines were added; a well-formed document is loaded |
| `route_search` | No edge is left to relax; parents, metrics and distances agree in spite of stale entries; the route is connected and its times add up; the fastest is least over all walks (a reference definition); a route of either call takes at most a fifth longer than any other; the quiet one passes the fewest passengers, unless it takes too long; both calls return |
| `route_search_negative` | *Violation*: a negative count makes a circle of parents, and the way back endless |
| `websocket_client` | A connection that is open, being closed, or lost and not yet reported has a pending read; `onDisconnect` is called for lost connections only, once, and always unless the user closes first; every `Connect` is answered; a close ends everything; the class implements `Connection`: `onConnect` once if it was given, messages while the connection is open, `onDisconnect` once |
| `websocket_client_send` | *Violation*: `onSend` is not called for a message that failed |
| `websocket_client_early_close` | *Violation*: a connection opens after `onClose` |
| `stomp_client` | With a server in order, `IsConnected`, `IsSubscribed` and `onConnect_` tell only what it granted on the present connection; only a frame out of order, or one whose content-length is no number, ends the program; `onDisconnect` is called once, for an accepted connection the user had not closed; every end of a connection clears `IsConnected` |
| `stomp_frame` | 8,486 texts: the parser accepts exactly the frames (a declarative reference); the fields are the text, with nothing left over; a receipt or a message that is accepted has its id; the constructor throws for the frames that are in order but for a content-length that is no number, for each of them and for no other text |
| `stomp_frame_throws` | *Violation*: the result of the constructor is not stored but thrown |
| `network_monitor` | With a server in order every event is counted once, before the receipt, after a close and after an unreadable frame as well; only bad input ends the program, or a broken rule of the stream in one of two windows; when `Run` has returned the client knows it is not connected; a timer ends `Run`; so does the end of the connection |

The violations are disagreements between the code and a comment; `PROJECT.json` quotes
them under "findings".

Three more are in the models without a run of their own. A route that leads to a
station the network does not have takes the process down at `transport-network.cpp:116`,
because line 112 tests the node of the previous stop again, though
`transport-network.h:361` says that `FromJson` throws then: `AddLineCrash`, which
`ImplementsAPI` confines to such lines. `FromJson` never returns false, though
`transport-network.h:358` says it does when no travel time could be set (`success` is
only or-ed onto true). And `StompClient` never resets `disconnected_`, so that after a
second `Connect` that was answered `IsConnected` stays false (`AgreesWithServer` says
only that it never tells too much).

**Bounds.** `transport_network`: three stations, two lines of five routes that
share edges in both directions, one of which can fail between two routes it could
add; two times, counts from -1 to 1. Every hop can be the one that fails, for each
cause, and every edge can be timed before and after its routes. `route_search`: four
known stations and nine arcs on four lines, with a circle, with two routes that
join the same stations, with ways that differ in hops and in changes; times of 0, 1
and 5 around the penalty of 3; every time with one crowd, and every crowd of 0 or 2
where the ways differ by a fifth or less, on both sides of the comparison.
`Modulus` is 100, above every sum that occurs; in `route_search_negative` it is 16,
so that sums wrap in few steps. `websocket_client`: two connections, two messages,
two closes: a second attempt after each way to end the first. `stomp_client`: two
connections, two subscriptions, two tokens and one close: a subscription that
replaces one not yet acknowledged, with the same ids or others, a late receipt, a
second connection with the flags of the first. `stomp_frame`: ten frames, one of them
with a content-length that is no number, so that each other fault meets it, and every
text that differs from one by a token left out, put in or replaced, or is cut off anywhere;
from a receipt, by two. `network_monitor`: one known and one unknown
station, counts from -1 to 1, two `CONNECTED` that make the monitor subscribe; there
is one connection, as in the program.

**Fairness.** `RouteSearch` and `RoutePlanner` are calls that wait for nothing: weak
fairness of the next-state action. In `WebSocketClient` only what ends by itself is
fair: name resolution and TCP (the operating system gives up), the WebSocket and the
closing handshake (`timeout::suggested`), operations on a stream that has ended. The
TLS handshake is not fair: `expires_never` precedes it (line 164) and nothing else
limits it, and `ConnectIsAnswered` says so. A read of an open stream is not fair.
`StompClient` takes the part of this that `EndIsNoticed` needs: aborted reads,
closes, and the end of a handler that has begun. `NetworkMonitor` adds the timer and
the return of `io_context::run`; the timer, and the end of a write, a read or a close
that is possible again and again, are strongly fair, because the `io_context` runs
handlers in the order in which they became ready: a server that sends frame after
frame does not starve them. The server owes nothing. The connection attempt is not
fair here: `TimedRunEnds` and `RunEndsWithConnection` begin when none is running,
and a timer that fires earlier closes nothing, as `websocket_client_early_close` shows of
the `Close` it calls: the connection opens, and `Run` serves it until the server ends
it.

**Deadlock** is not checked: a crashed program stops, a search, a load and a
parse end, `Run` returns, and a client whose user has used up his calls rests.

## Proofs

Every safety invariant and every action property of a passing run is a theorem,
for every value of the constants the assumptions and hypotheses below allow.

`Induction` holds what the proofs about recursive functions need: induction over
sets of numbers (from the well-foundedness of `<`), that a function defined by
recursion on a number exists (`RecursionExists`), and sums.

### The network: `TransportNetworkProofs`

For any stations, lines and times (routes do not repeat a stop,
`LinesAssumption`; times are natural, `TimesAssumption`):

- `TypeCorrect`, `GraphCorrect`, `TimesAgree`. The conjunction `Inv` of the three
  properties is inductive. `SucceedingKnown` is the argument: a hop is only added
  when both its ends were found, the second because the program does not survive
  otherwise.
- `ServesExactly`. Seen from the routes on the edges a step
  does nothing, or adds leading hops of one line, none of which was there
  (`RoutesAfterStep`). So the routes come from lines, and an accepted line is there
  as a whole (`RoutesInv`).
- `LeftoversArePrefixes`, under `RoutesAreDistinct`: no two routes have both ids in
  common. Otherwise a hop that is there may be that of another line. The lines of
  `MCTransportNetwork` satisfy it.
- `WholeLinesWereAccepted`, under `RoutesAreDistinct`: a call that fails leaves out
  a hop behind those it adds (`BeforeIsTotal`). That hop was not there before either,
  because what is there is a leading part; and no call adds hops of another line.
- `RouteTimesAddUp`, under `RoutesAreDistinct` and for finitely many stations: at
  each stop of an accepted route one edge only has the route, the one to the next
  stop, and none at the last; a route has no more stops than there are stations.
- `NetworkImplementsAPI`: every call maps to the same call of `NetworkAPI`. It needs
  `Inv` before and after the step: that `incoming` is the set of all edges makes
  the routes serving a station those of its edges. The hop a call is refused for was
  in the graph before the call, which is what `RejectLine` asks for, or was added by
  the same call for another route of the same id (`RouteTwice`).

The same module proves `NetworkLoad`, for documents of any length
(`DocumentsAssumption`: a route has the line id of its item, and what is added
are lines that callers may add; their routes do not repeat a stop):

- `LoadingIsCalls`: a step of `FromJson` is a call of `TransportNetwork` or leaves it
  alone, so that all the theorems above hold during and after a load.
- `LoadingIsExact` and `WellFormedIsLoaded`. The invariant `LoadInv` says for each of
  the three loops which part of the document the network holds: the stations
  before `at`; the hops of the lines no longer `waiting`, whatever their order; the
  times before `at`, the last one of a pair. `FlattenFacts` is about joining the
  items of a line: all their routes are in it, and distinct ones stay distinct.

### The path search: `RouteSearchProofs`, `RoutePlannerProofs`

For any network, times, counts and modulus, also where sums wrap:

- `TypeCorrect`: every stop seen but the first has a parent that was seen.
- `SearchIsExhaustive`: when the queue is empty no edge could lower a metric. The
  invariant is that a stop either waits in the queue with its present metric or has
  relaxed all its edges (`WaitingOrRelaxed`).
- `PlanTypeCorrect`, `BothSearchesAreExhaustive` carry both over to the two searches
  of `GetQuietTravelRoute`: the new maps satisfy the invariant of a search that begins
  (`RestartInv`).

The other properties are true only where no sum wraps and none is negative. The
hypotheses `NumbersFit(w)`, `TimesFit(w)` and `PlanFits(w)` say so: there are finitely
many stops, no hop costs more than `w`, and `w` times the number of stops (plus two)
is below the modulus; no count is negative where the search looks at counts.
`MCRouteSearch` states that its queries satisfy `PlanFits(8)`, and TLC evaluates it;
`route_search_negative` shows what happens without.

- `ParentsConsistent`, `WayBackEnds`, `RouteIsARoute`. The invariant `SearchOK` adds to
  the first one that stops are settled in the order of their metrics
  (`SettledInOrder`), which bounds every metric by `w` times the number of settled
  stops (`NoWrap`), and that the parents have a rank, which decreases towards the start
  (`IsRank`): the way back meets as many stops as the rank says, and none twice.
  Stale entries change nothing, because no settled stop can be lowered.
- `FastestIsFastest`. With no edge left to relax, the metric of the last stop of a
  walk is at most what the walk costs: by induction over its hops.
- `AnswerIsQuick`, `AnswerIsQuiet`, `BothSearchesAreSound`, for both searches in a row
  (`FastestOK`, `QuietOK`): the route kept from the first is still the fastest while
  the second runs on other metrics.

### The clients

`WebSocketClientProofs`, for any number of calls and any choice of handlers:

- `TypeCorrect`, `AlwaysListens`, `ReportsTheLostOnce`. The invariant adds to them
  that the connection chain and the read loop are never at work together
  (`ChainOrLoop`), that a read is pending until the end of the stream was told
  (`LoopIsSilent`), and that a stream that ended without a close is known as lost
  before it is reported, with a read pending until it is (`LostIsKnown`).
- `ClientImplementsConnection`: under that invariant every step is a step of
  `Connection` or leaves its variables alone.

`StompClientProofs`, for any number of connections, subscriptions and closes, any
ids and any server: `FlagsAgreeWithServer`, `ProtocolNeverCrashes`,
`DisconnectReportedOnce`. No `Connect` resets a flag, so the invariant says what
keeps them from outliving their connection: as long as `IsConnected` holds, the read
loop or a close is still to end (`FlagsAreOfThisConnection`), a close that was made
has set the flag or is pending (`CloseIsNoticed`), and a subscription the server
knows has left its ids (`SentHasToken`). From the last one follows that a frame in
order finds its function, so that only a content-length is left to throw for.
`ClientKeepsConnection`: every step of the
STOMP client is one a user of `WebSocketClient` may take (`StepOfClient`), so that the
theorems about that module, used through an instance (`WSP`), hold of the stream
here, and the composition implements `Connection`.

### Frames: `StompFrameProofs`

For any text over any set of words:

- `IdsAreGiven`. A header is kept with a value that is not empty, only `Validate`
  accepts, and not without the headers the command needs.
- `ParserIsExact`, `FieldsAreRead`. The invariant `ReadInv` says at
  each function of the parser which part of the text is behind `idx` and that it is
  the beginning of a frame: lines of headers, whose fields are in `headers_`, the
  blank line, the body. Where the parser gives up, no frame has that beginning
  (`~IsFrame`): the blank line and the end of the body are unique in a text, so any
  other way to read it would have met the same character.
- `ThrowsForLengths`, in both directions. The first blank line of a text is the one
  the parser stopped at (`FirstIsTheBlank`); the headers it kept fit the command
  exactly when the lines of the text do (`FitAsRead`), whatever their order; so
  `std::stoi` is reached, and throws, exactly when the text says so (`WrongAsRead`).

### The program: `NetworkMonitorProofs`

For any layout, messages, ids and bounds:

- `TypeCorrect`, for the variables of all three layers.
- `CountsAreTheServers`. A server in order accepts once, so the monitor subscribes
  once, and the ids the server knows are the ones `MessageHandler` compares with
  (`SubscribesOnce`): what is delivered is what the server counts.
- `OnlyBadInputEndsIt`. All callbacks the layers below call are given
  (`CallbacksGiven`), and the function for messages is set before a server in order
  sends the first. A server in order has got the frame `STOMP` when it accepts
  (`StompCameFirst`), and makes the monitor subscribe once (`SubscribesOnce`), so
  that the only write a second one can meet is that of `STOMP`.
- `ReturnsDisconnected`. A connection the flags tell of has a read or a close pending
  that will learn of its end (`EndWillBeTold`), and `Run` does not return before.
- `MonitorKeepsConnection`: with the timer, and the actions that break a rule of the
  stream, the program still implements `Connection`.

### Only model-checked

Liveness: `PlanReturns`, `LostIsReported`, `ConnectIsAnswered`, `CloseEndsAll`,
`EndIsNoticed`, `TimedRunEnds`, `RunEndsWithConnection` need fairness, and with it
`ENABLED`, which the prover does not handle. The violations are counterexamples of
TLC.

## Not modelled

Copies of a `TransportNetwork` (shallow, but nothing copies one). The overflow of
`passengers_`. Lifetimes of objects and buffers: the temporary string whose buffer
`StompClient` hands to `async_write`, references captured by lambdas, the
destructor of `WebSocketClient`, the part of a message that a failed read leaves in
`buffer_`. What a broken rule of the stream does besides ending the program.

`WebSocketServer` (`websocket-server.h`) cannot be instantiated, so there is no
behaviour to be faithful to: it names `Session::ServerDisconnectHandler`, which does
not exist, calls a handler of two parameters with one argument, binds an lvalue to an
rvalue parameter and copies a socket that can only be moved. Nothing uses it; its test includes the header only.
`file-downloader` is one download with libcurl and one JSON parse. Of `main` the
command line is left out.

## What is left

That `WalkBack` and the queue loop end, stated as an invariant (a bound on the
visits); a second load into the same network after one that failed; the memory a
write still reads after its frame is gone.
