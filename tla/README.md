# A TLA+ verification of effect-golang-web

`effect-golang-web` puts an effect runtime's typed, scoped programs in front of
HTTP, websockets, gRPC and two versions of AMQP. Most of it is conversion
between representations. What is hard to get right is small and spread out: one
reading shared by many callers, two brokers whose work is split between locks,
a server that has to give everything back whenever its scope closes, consumers
whose acknowledgements travel over links that break, conversations that either
side may leave at any moment, boundaries that turn every way a handler can end
into one answer. This directory models
those parts from the source, checks them with TLC on small instances, and
proves the central ones with TLAPS for instances of any size.

Paths below are relative to `src/`.

## Inventory

| Component | State it keeps | Operations | Meets others through |
|---|---|---|---|
| Upstream client (`web/upstream_*.go`) | answer store, `pending` readings by key, one deferred per reading | `FetchUpstream`: look up, join or start, take a turn, ask, retry, keep, forget the key, complete | callers' fibers, the cache and rate ports, the service |
| In-process 0-9-1 broker (`amqp091/inprocess`) | exchanges, queues, bindings, a bounded backlog per queue, unsettled deliveries, recorded outcomes | declare, publish, consume, take, ack, discard, requeue | one mutex; backlogs are Go channels outside it |
| In-process 1.0 broker (`amqp10/inprocess`) | nodes with backlogs, outcomes; per link: unsettled, detached | declare, attach, detach, send, receive, four dispositions | a broker lock and a lock per link, never held together |
| Server lifecycle (`web/server.go`, `web/serve_loop.go`) | listener, serve fiber, `Serve` goroutine, two channels of capacity one | listen, fork, serve, shut down with or without a grace period, release | scope finalizers, `net/http` |
| Routing (`web/path.go`, `route_tree.go`, `routes.go`) | a tree over path segments | assemble or refuse a surface, resolve with backtracking | routes, the boundary |
| HTTP boundary (`web/adapter.go`, `phase.go`, `route.go`, `cross_origin.go`) | per exchange: cause, answer, phases begun and ended, what was recorded | preflight, dispatch, decode, handle, encode, answer a cause, write | interruption through the request's context, caches in front of the surface |
| 0-9-1 adapter and `examples/dispatch` | connection, channel, consumer, unread deliveries, the envelope in hand | connect, open, subscribe, next, three answers, unsubscribe, close | a broker and library that lose channels |
| 1.0 adapter and `examples/consign` | connection, session, link with its table of unsettled deliveries | connect, open, attach, receive, dispositions, detach | a broker and library that break links |
| Websocket (`websocket/`) and `examples/tally` | a socket per side, owned by a scope; the shared total | accept, dial, send, receive, stream inbound, apply, answer, say goodbye | the boundary's upgrade, a connection that is cut |
| gRPC and Connect (`grpc/`) and `examples/quote` | handlers mounted by path; per call: context, outcome, report | declare, mount, export the contract, call, handle, answer a cause | the caller's deadline and the server's, the connect library |
| Codecs, endpoints, typed calls (`web/codec*.go`, `endpoint*.go`, `call.go`) | the codec under construction, the endpoints of a surface | read, zip, struct, describe, declare, decode, fill a pattern, call | routing, the schema library |
| OpenAPI (`openapi/`), static files, spans, other examples | none that matters between calls | render, serve | |

What is hard in them, and what makes each correct:

- **Upstream client.** Callers, detached readings and cache expiry interleave
  between every two effects; readings fail, retry and die; leaders leave.
  Correct: one reading per key, answers go to who asked, only success is kept,
  every attempt has its turn, every wait ends.
- **The two brokers.** An operation is several critical sections. Correct: a
  message is in one place, settled once, in order.
- **Server lifecycle.** The scope can close at any step of start-up or service,
  and while the accept loop is failing. Correct: the port is given back,
  abandoned requests are told, nothing waits on itself.
- **Routing.** Correct: the tree does what "the most specific match" means,
  independent of the order of declaration.
- **Endpoints and calls.** Codecs nest, and captures are bound by tree nodes that
  other routes may have named. Correct: an endpoint is usable exactly when
  nothing in it reads the same thing twice or reads what its pattern does not
  have, its captures are always bound, and a call reaches the endpoint it was
  made from, or one more specific, with the values it was given.
- **gRPC and Connect.** Two deadlines, the caller's leaving and the handler's end
  race, and codes are translated twice. Correct: a caller may believe what it is
  told, faults are reported once, a call reaches the procedure it means.
- **Conversations.** Both sides leave, the connection is cut, and other
  conversations move the total between a change and its answer. Correct: what is
  heard is what was applied of what was sent, nobody waits for a peer that has
  gone, only what went wrong is reported.
- **Boundary.** An interruption comes between any two effects: between the
  sampler's call and its finalizer, between the warning about a refusal and its
  answer. A cause holds several faults at once; caches replay answers. Correct:
  phases end, faults are accounted for and an interruption is not taken for the
  application's failure, answers name the page that asked.
- **Consumers over a network.** The answer to a delivery races the loss of the
  link that carries it. Correct: nothing is answered twice or claimed without
  having been done, and a reader never stalls behind its own prefetch.

`PROJECT.json` lists the hazards line by line, with the properties that cover
each.

## Modules

One step of a model is the code between two points where another actor may run:
a critical section, an effect, a channel operation, a call into a library.
Definitions carry the names of the Go functions they model, and the `map` in
`PROJECT.json` gives the lines of each. Definitions introduced by "A wrong
variant" are plausible mistakes: each shows that a property can fail, by taking
the place of the definition after it.

| Module | Models | Proofs |
|---|---|---|
| `SharedReading` | abstract: what sharing a reading promises, without locks, fibers, turns or store | |
| `UpstreamClient` | `FetchUpstream` and everything under it; implements `SharedReading` | `UpstreamClientProofs` |
| `Amqp091Broker` | the in-process 0-9-1 broker with publishers, consumers and declaring programs | `Amqp091BrokerProofs` |
| `Amqp10Broker` | the in-process 1.0 broker with its links | `Amqp10BrokerProofs` |
| `ServeLoop` | `ServeWith`, `serveLoop`, the scope; `net/http` external | `ServeLoopProofs` |
| `RouteTree` | assembling and dispatching; a reference without a tree | `SurfaceProofs` |
| `Endpoint` | extends `RouteTree`: codecs built from readers, endpoints declared with them, decoding, and `Call` from a pattern back to an endpoint | `SurfaceProofs` |
| `Exchange` | one or more HTTP exchanges at the boundary, beside a cache | `BoundaryProofs` |
| `RpcCall` | the gRPC and Connect boundary under `examples/quote`, both ends of a call; the library external | `BoundaryProofs` |
| `Dispatch` | the 0-9-1 adapter under `examples/dispatch`; broker external | `WorkersProofs` |
| `Consign` | the 1.0 adapter under `examples/consign`; broker external | `WorkersProofs` |
| `Conversation` | websocket clients and server sides under `examples/tally`; the connection external | `ConversationProofs` |

Each `MC...` module adds only what an instance needs: symmetry sets, the topology
or the procedures of the instance, the changes receivers may state. Three of them
put two modules into one run. `MCSurface` is a composition: endpoints are declared
on the surfaces that `RouteTree` assembles, and calls go through its dispatch.
`MCBoundary` (`Exchange` and `RpcCall`) and `MCWorkers` (`Dispatch` and `Consign`)
hold two systems that share nothing; each is explored from the initial states of
the other, so that the run checks both and not their product.

How state corresponds to code, where it is not by name:

- `UpstreamClient`: `Questions` is what `cacheKey` distinguishes and `Entities`
  what it does not. `Readings` are deferreds; one that nobody holds is used
  again. `phase` is where a reading's fiber is between `claim` and the
  completion in `forkRead`; `pc` is where a caller is in `FetchUpstream` and
  `readOnce`. Status classes are the three the code tells apart.
- `Amqp091Broker`: a copy of a message is its tag. `placements` is what `Publish`
  has routed under the lock and not yet placed; `at = "taken"` and `"returning"`
  are the gaps in `Next` and `Requeue`.
- `Amqp10Broker`: `taken` and `deciding` are the gaps between the link's lock and
  the broker's.
- `ServeLoop`: `owned` is the scope's list of releases; `end` and `abandonment`
  are the two buffered channels.
- `RouteTree`: a node is the sequence of edges that leads to it.
- `Exchange`: a cause is the set of kinds of fault in it; a response is its
  status, the origin it names and what it varies by. In a phase, `begun` says
  that the sampler was called and `ensured` that the effect with its finalizer
  runs; `at = "refusing"` and `"refused"` are before and after the warning in
  `Handle`. A wrapper around a route is what may end an exchange before its phases.
- `Endpoint`: a reader is where it reads, its name, whether it is required, and
  which texts its schema takes; a codec is what it says it reads (which the code
  checks), what it really reads (which a request meets) and its first fault.
  `hand` holds the codecs built and not yet used, `inputs` the codec of each
  declared route.
- `RpcCall`: a cause is a set of faults as in `Exchange`, with the three reasons
  `examples/quote` refuses for; `desk` is where a call is at the server, `caller`
  where its caller is, and `context` the call's context at the server.
- `Conversation`: a frame is a value, an unreadable message, a goodbye or the end
  of the stream; `cut` are the connections somebody or something took away.
  `client` and `server` say where each side is; `held` is the change being
  applied and then the total to answer with.
- `Dispatch`, `Consign`: a message has a `form`: good, unreadable (its body does
  not fit the schema, so the envelope's `Read` refuses) or garbled (its headers
  or properties have no representation, so `Next` or `Receive` fails). `wire`, and
  `dispositions`, are what was written to the socket and not yet seen by the broker. A worker whose
  stream failed gives up its link in `Consign`; in `Dispatch` it may run `Ship`
  again on the channel it still has.

## Runs

| Run | Instance | Shows |
|---|---|---|
| `upstream_safety` | 2 callers, 2 keys, 2 readings, 1 retry, failing store, leaders interrupted anywhere | `SingleFlight`, `AnswersTheQuestion`, `OnlySuccessKept`, `AskedInTurn`, and that the client implements `SharedReading` (`ImplementsPromise`) |
| `upstream_liveness` | 2 callers, 1 key, fair | `EveryWaitEnds`, `EveryKeyReleased` |
| `upstream_answers_the_request` | 2 bodies under one key | a violation: see Findings |
| `amqp091_safety` | 2 publishers, 2 consumers, 2 queues of capacity 2, 4 tags, 1 requeue (with 3 tags) | `OnePlace`, `HeldByOne`, `PublisherOrder` |
| `amqp091_once_per_queue` | 2 programs declaring one topology | a violation: see Findings |
| `amqp10_safety` | 2 senders, 2 receivers, 1 node, 2 messages, 1 return, every change | `OneCopy`, `AnsweredOnce`, `FirstComeFirstTaken` |
| `serve_shutdown` | 3 connections, with and without grace, fair | `PortGivenBack`, `ShutdownDrains`, `NoLateStart`, `CloseEnds` |
| `serve_closing_waits` | 1 connection | a violation: see Findings |
| `surface` | every surface of up to 3 routes of up to 2 segments, every path of up to 3; endpoints of up to 3 readers on an empty surface, of up to 2 beside another route | `MostSpecificServes`, `AllowIsComplete`, `RefusedIffClash`, `UsableIffUnambiguous`, `PathAlwaysCaptured`, `CallFindsItsEndpoint` |
| `boundary` | 2 exchanges, 2 origins, every setting, a runtime that is prompt or not; 1 call, 4 procedures, 2 handlers | `EveryPhaseEnds`, `AccountedFor`, `NamesTheAsker`; `CallerKnows`, `FaultsReported`, `ReachesItsProcedure` |
| `workers` | 2 workers, 2 orders of any form, prefetch 2, 2 offers each, 3 consumers; 2 collectors, 2 shipments of any form, credit 2, 2 transfers each | `OnlyPackedAccepted`, `AnsweredOnce`, `NeverStalls`; `NothingInvented`, `BooksAgree`, `CountsOnlyFailures` |
| `conversation` | 2 conversations, one raw client that sends twice and one that asks once, room for 1 answer, fair | `HeardIsApplied`, `TallyAddsUp`, `ReportedIfBad`, `NobodyLeftWaiting`, `ConversationEnds` |

### Bounds

Two of each kind of actor are enough for every pairwise race, and no code here
treats a third differently. Beyond that each bound is the smallest at which the
interesting case happens: two keys, so that an answer can go astray; two
readings, so that a new one can overlap a landed one; one retry, so that there is
an attempt with a turn of its own and one refused at the limit; queues of
capacity 2 with 4 tags, two that fill one queue of a fanout and two for the fanout
itself, which then stops half-way, and so that a requeue finds its place taken (to
keep the run short, deliveries are only acknowledged once the fourth tag is given
out: the constraint `FourthTag`); three connections, so that one is idle, one busy
and one new at the same shutdown; two offers of a message, so that it can come
back after a lost link; three consumers, so that a stream is run again on a
channel where an earlier one left deliveries unread; two conversations, one with
two messages, so that a total changes between a change and its answer and the
answers of one client have an order; room for one answer, so that the second
has to wait for a client that does not read. One call is enough for `RpcCall`:
calls share only what is mounted. Its procedures are one in the package, one of
the same name outside it, one a package further in and one without a name.
`RouteTree` needs one
literal beside a part that is no literal, two capture names and two methods for
every kind of clash, and `Endpoint` a reader for every place to read from, one name
in two places, and one parameter without a name.

The bounds `MaxTag`, `MaxRequeues`, `MaxReturns`, `MaxOffers`, `MaxTransfers`,
`MaxConsumers`, `MaxRoutes`, `MaxReaders` and `MaxSends` cut off behaviour that the programs could continue for ever, so the
runs that have them do not check deadlock: such a model stops where its bound
is. A server whose scope is closed, an exchange that is written, a call that is
over and a conversation both sides have left have also really stopped. The upstream runs have no such bound and check deadlock.

Symmetry is used in safety runs only, over sets the specification treats alike.
(`FirstComeFirstTaken` and `ImplementsPromise` are checked without fairness, for
which it is sound.) `Conversation` has none: its two clients differ, and it checks
a liveness property.

### Fairness

- `UpstreamClient`: weak fairness of every caller's and every reading's own
  steps. They are fibers; the runtime runs a fiber that can run. Nothing is
  assumed of expiry, of new calls, or of callers leaving. That an exchange with
  the service ends, in some way, is the http.Client's deadline or the closing of
  the runtime.
- `ForkIsPrompt`: in `readOnce` the effect that claims a key and the effect that
  forks its reading are two. A leader interrupted exactly between them would
  leave a key that nobody reads, and whoever joined it would wait for ever. The
  safety runs and all theorems allow that; the liveness run assumes the runtime
  does not look at interruption there. It is the one assumption the liveness
  results rest on that the repository's own code does not establish, and they say
  nothing of that hazard.
- The same gap is in `measurePhase`: the sampler is called inside `Suspend`, and
  what ends the phase is part of the effect returned from there. Nothing is assumed
  of it. `settings.prompt` is chosen at the start, and without it `EveryPhaseEnds`
  allows one phase to stay open, the one interrupted exactly there. Nor is anything
  assumed of where an interruption comes from.
- `ServeLoop`: weak fairness of the serve fiber, of the goroutine in `Serve` and
  of the closing scope. Nothing is assumed of requests, so `CloseEnds` has to
  allow for a shutdown without a grace period that waits for a request that
  never ends; with a grace period it does not.
- `Conversation`: weak fairness of each server side and of a client that is
  reading or saying goodbye. They are fibers, a read returns what has arrived,
  and the library's wait for the other's goodbye is timed. Nothing makes a client
  send, begin to read or leave, nothing makes a connection break, and nothing is
  assumed of interruption; so `ConversationEnds` speaks of conversations whose
  client has gone or whose effect has ended.

## Findings

Three disagreements between what the code does and what it says. Each is a run
that TLC refutes.

1. `upstream_answers_the_request`: the key is described as "the service, what the
   request was about, and the request itself" (`web/upstream_cache.go:17`), but
   body and headers are not in it. Two requests that differ only there share one
   answer.
2. `amqp091_once_per_queue`: "Declaring is idempotent at the broker"
   (`amqp091/topology.go:6`), but the in-process broker's `Bind` appends an equal
   binding again, and one publish then puts two copies on a queue.
3. `serve_closing_waits`: "Closing the scope stops the listener and waits for the
   requests already in flight" (`web/server.go:54`). When the accept loop ended by
   itself, `Shutdown` is never called: nothing is waited for or reported.

Met on the way, and not runs of their own:

- The store is looked up before the claim and not after it, so a caller that
  missed just before a reading kept its answer starts another reading of it. It
  costs a request.
- `Change` has two independent facts (`amqp10/port.go:86`), and the in-process
  broker treats them as one choice: a message that failed and is sent elsewhere
  is not counted as a failed attempt. `Amqp10Broker` has all four combinations;
  no property says the count.
- A message whose headers or properties have no representation fails every
  stream that meets it: it cannot be settled and comes back.
- A deadline that passes at the server ends the handler by interruption, and the
  caller is told Cancelled, of which `grpc/fault.go:48` says that the caller went
  away. `CallerKnows` asks only that the context was not live.
- A phase interrupted between the sampler's call and `Ensuring` is never told to
  have ended, if the runtime looks at interruption between the two, although
  `web/phase.go:36` has it ended "however it ended". `EveryPhaseEnds` shows that
  this is the only way.
- A refusal interrupted between its warning and its answer is warned about as one
  of which "the client was told why" (`web/route.go:219`), and answered 503.
- `Dispatch` counts a prefetch per consumer, which is what RabbitMQ means by
  `Qos(count, 0, false)`; the comment at `amqp091/connect.go:64` says "this channel".
  A broker that counted per channel could stall a stream that is run again behind
  what a cancelled consumer left unread. `NeverStalls` excludes that by the meaning
  it gives the count, and does not check it; that nothing is answered for in such a
  stream's place is checked (`OnlyPackedAccepted`, `AnsweredOnce`).
- A conversation's connection is hijacked, so a closing server neither waits for
  it nor ends it. `ShutdownDrains` and `ClosingWaits` leave hijacked connections
  out, as `net/http` does.
- Header names are compared as written, so `X-Id` and `x-id` pass as two
  parameters though they read one header. The model has one spelling of each.
- What a caller gives for a capture is written into the path as it is: a value
  with a slash becomes two segments. `CallFindsItsEndpoint` is about values that
  are whole segments.
- The comment in `examples/quote` has a price "rounded up to the cent"; the
  conversion truncates. The model leaves prices out.

## Proofs

For any number of actors, keys, messages and connections, and for any value of
the bounds:

| Module | Theorem | States |
|---|---|---|
| `UpstreamClientProofs` | `TypeCorrect` | `TypeOK`, which no run repeats |
| | `SingleFlightCorrect` | `SingleFlight` |
| | `AnswersCorrect` | `AnswersTheQuestion` |
| | `StoreCorrect` | `OnlySuccessKept` |
| | `PacingCorrect` | `AskedInTurn` |
| | `Refinement` | `ImplementsPromise`: `Spec => SharedReading!Spec` |
| `ServeLoopProofs` | `PortCorrect`, `DrainCorrect` | `PortGivenBack`, `ShutdownDrains` |
| | `NoLateStartCorrect` | `NoLateStart`, an action property |
| `BoundaryProofs` | `AskerCorrect`, `AccountCorrect`, `PhasesCorrect` | `NamesTheAsker`, `AccountedFor`, `EveryPhaseEnds` |
| | `ReachCorrect`, `CallerCorrect`, `ReportCorrect` | `ReachesItsProcedure`, `CallerKnows`, `FaultsReported` |
| `WorkersProofs` | `PackedCorrect`, `AnswerCorrect`, `StallCorrect` | `OnlyPackedAccepted`, `AnsweredOnce`, `NeverStalls` of `Dispatch` |
| | `WordsCorrect`, `BooksCorrect`, `CountCorrect` | `NothingInvented`, `BooksAgree`, `CountsOnlyFailures` |
| `Amqp091BrokerProofs` | `PlaceCorrect`, `HolderCorrect`, `OrderCorrect` | `OnePlace`, `HeldByOne`, `PublisherOrder` |
| `Amqp10BrokerProofs` | `OrderCorrect` | `FirstComeFirstTaken`, an action property |
| | `CopyCorrect`, `AnswersCorrect` | `OneCopy`, `AnsweredOnce` |
| `ConversationProofs` | `HeardCorrect`, `WaitsCorrect`, `ReportsCorrect` | `HeardIsApplied`, `NobodyLeftWaiting`, `ReportedIfBad` |
| | `TallyCorrect` | `TallyAddsUp` |
| `SurfaceProofs` | `RefusalCorrect`, `RoutingCorrect`, `AllowCorrect` | `RefusedIffClash`, `MostSpecificServes`, `AllowIsComplete` |
| | `EndpointRoutingCorrect` | the same three, with endpoints among the routes |
| | `UsableCorrect`, `CapturedCorrect`, `CallCorrect` | `UsableIffUnambiguous`, `PathAlwaysCaptured`, `CallFindsItsEndpoint` |

Every invariant and every action property without fairness that a passing run checks
is stated by one of these theorems.

Each rests on the `ASSUME`s of its module: a placeholder (the absent reading,
origin, handler, order, shipment) is none of the real ones, bounds are naturals,
connections and conversations are finitely many, changes have the two facts the
code gives them, names of packages and services are sequences of strings, a
queue a program declares is one of the topology's, and a reader of the
body has the one name all such readers have. The runs evaluate them.

Every proof has the same shape: an inductive invariant, a lemma for the initial
states, a lemma for the steps with one step per action and under it one per
conjunct the action can disturb, and a temporal step at the end. Hardly any
of the properties is inductive by itself. What each invariant adds, and why:

**Upstream client**, `IInv`, whether or not the store fails and the fork is prompt.

- `SingleFlight` needs to know that the caller about to fork leads a reading that
  is claimed and that no other caller leads it: `Shares`. Without it a fork could
  revive a reading whose key has been given to another.
- `AnswersTheQuestion` needs `SingleFlight` (a caller joins what stands under its
  key), `Shares` (a reading somebody awaits is not reused under another key) and
  `ExitsInHand` (the exit a reading hands over is its own).
- `OnlySuccessKept` needs `ExitsInHand`: what a reading in phase "keeping" holds
  is a success of its own.
- `AskedInTurn` needs `TurnCount`, which relates turns, attempts and retries phase
  by phase.

`InductiveStep` has one step per action and, under it, one per conjunct that the
action disturbs. Two frame lemmas, `CallerMoves` and `ReadingMoves`, carry the conjuncts
that an action leaves alone. `PromiseStep` maps each action to
a step of `SharedReading` or a stutter, from `IInv`.

**Server**, `ServeInv`. `PortGivenBack` needs `Ownership`: the port is held only by a
scope that still owns its release, the fiber runs only while it is owned, and the
report is read after it. `ShutdownDrains` needs `Shutdown`: from the moment a
shutdown has ended, either no connection can be busy again, or the report is on
its way from the fiber to the channel to the scope's faults.

**Exchange**, `ExchangeInv`, and `PhasesInv` for the phases. `NamesTheAsker`
needs `Vouched`: an answer under way or kept by a cache was made for its asker and
says so by `Vary`, so that a cache hands it to nobody else. `AccountedFor` needs
`Ledger`: while an exchange still works nothing is recorded of it but the warning of
a refusal that waits for its answer, and what was refused has begun no phase after
decoding. `EveryPhaseEnds` needs that only what has begun has a finalizer and only what
has a finalizer is told to have ended (`PhasesOf`); what is open is then the phase the
exchange is in, and an action that leaves it either ends it or is an interruption
before its finalizer, which a prompt runtime does not take. Both theorems are about
interruptions from anywhere and either kind of runtime.

**RPC**, `RpcInv` and `TellInv`. A call asks at the path of the procedure it means,
also when it is made from the contract (`ContractKeepsPaths`: a procedure that the
contract accepts has the package's prefix and one name after it). `CallerKnows`
needs the fate of every answered call (not served, served or failed, with the
answer that belongs to it), and that the two translations of codes are inverse to
each other (`RoundTrip`).

**Dispatch**, `DeliveryInv`. `AnsweredOnce` needs `Single` (an order is unanswered at
most once on at most one channel, and then not in the queue: `Apply` of one answer
cannot take the ground from under another) and `Owned` (while its channel is open,
what a worker has in hand or still to read is unanswered there, and one or the
other). `NeverStalls` needs `Counted`: what the prefetch counts against a stream is
still to be read, in hand, or its answer is under way. `PackedInv` beside it: an
answer on the wire is justified by what happened before it was written.

**Consign**, `ConsignInv`: the same for dispositions (`Spoken`), and for `BooksAgree`
that a shipment is in flight to at most one link (`OneFlight`), that a disposition
under way is the only one for it and of something its stream has nothing of any
more (`OneDisposition`), and that a collector without a link has nothing. With these
a second invariant, `CountInv`, gives `CountsOnlyFailures`: a failure that is decided
or on its way has been said and is not yet counted, and no second one of the same
shipment is under way beside it (`OnlyWord`).

**0-9-1 broker**, `BrokerInv`: every copy routed is in exactly one of six places (a
publisher's placements, a queue, on its way to or from a consumer, unsettled, ended),
and nothing not yet routed is in any. `OnePlace` counts; the invariant says instead
which of the six sets has one member and that the rest are empty, and the counting is
left to one lemma. It needs `Engaged` (what a consumer between two locks has) and
`Once` (no tag twice in one queue or in one publisher's placements), and, since a tag
is given to each target, that `routeTargets` names declared queues only: shown of its
loop over the bindings by induction over their number (`RoutesToQueues`).
`PublisherOrder` needs `OrderInv`: what a publisher has still to place is newer
than everything it has placed.

**1.0 broker**, `OrderInv`: what waits at a node and was never given back is in the
order of its tags. `CopyInv`, the same five-place argument, gives `OneCopy`; it needs
`Linked`, that a link with anything in hand is attached to one node and a receiver
takes one at a time. `AnswersInv` adds up a message's answers: recorded, held and
being decided are together as many as the times it was handed out.

**Conversation**, `TalkInv`: the queues in between are part of the statement.
`Upward`: what was applied, what is being applied and what is on its way up are
what was sent, and all of it while both sides are there. `Downward`: what was heard,
what is on its way down and what is being answered are the totals applied. A lemma
for each kind of change to one queue (`UpSend`, `UpRead`, `UpApply`, `DownAnswer`,
`DownHear`, ...) carries the arithmetic; `OneAtATime` says that a step of one
conversation is none of another. The other two properties need a second invariant,
`PoliteInv`: whoever may still wait has a goodbye or the end of the stream coming; a
stream ends only where somebody took it away; a client says goodbye last and, unless
it was cut off, is gone only once the server side has ended; and an unreadable message
is met before a goodbye. `TallyInv` relates the total to a fold over folds: that each
is a sum, whatever order its `CHOOSE` takes, is shown by induction over the subsets
of its domain.

**Surface**, `TreeInv` and `EndpointInv`. `TreeInv` says that the tree is the one its
routes make: `Grown` (it has the nodes their patterns need and no others), `Kept` (it
holds each route at its end), `Named` (each capture under its own name), and that a
surface is refused exactly when it is not `Sound`. What insertion sees of the tree is
then as much as comparing the route with every other (`InsertableFits`,
`RefusedClashes`). Dispatch is defined by recursion and shown right in two steps: the
recursion is well-founded in what is left of the path (`WalkedIs`), and, by induction
on that, the walk from a node that the path leads to answers for exactly the routes
below it that match (`WalkRight`): `FirstRight` is the case of one node, where the
turn of the branches is the order of specificity and a branch without the method
adds its methods. `EndpointInv` adds that every codec is `Honest`: the parameters it
says it reads are the keys it reads except the body's, repeat when those do, and it has
a fault when its readers are unsound and, prose aside, only then. Zip keeps that because
concatenation does (`AgreesConcat`), Struct by induction over its fields
(`FieldsAgree`). For `CallFindsItsEndpoint`, a path filled from a pattern matches it
and gives every capture back what filled it (`FilledPath`), and what Handler says of a
matching path does the rest.

Induction over numbers, sequences and subsets is by a lemma without an operator
parameter: a set that holds the first, and with each the next, holds all
(`Counting`, `StepByStep`, `BySubsets`).

Only model-checked:

- liveness and fairness: `EveryWaitEnds`, `EveryKeyReleased`, `CloseEnds`,
  `ConversationEnds`. They rest on fairness, which the prover does not reason about.

## Not modelled

- What a schema makes of a value, conversions a program gives (`Convert`, and so
  what `PageParams` refuses), outputs and naming strategies: pure functions over an
  external schema library. Which texts a schema takes is part of `Endpoint`; where
  only accepting or refusing matters to control, it is a nondeterministic outcome
  (`Exchange`, `RpcCall`, `Dispatch`, `Consign`).
- The wire formats of Connect and gRPC, and the prices of `examples/quote`.
- `Release` over a network broker, which nothing in `src/` uses, and the failures of
  the 1.0 sender link.
- OpenAPI rendering, static files, spans, page responses, wording of faults:
  layout, or wrappers around a handler that keep no state. The other examples:
  demonstration programs around in-memory stores and fixed tables.
- Brokers over the network, `net/http`, the effect runtime, the cache and rate
  adapters: external, modelled as far as the code here can tell.
- Time: a grace period, a backoff or an expiry is a step that may happen at any
  moment.

## Plan

Done, in this order: the upstream client with its abstract specification and
proofs; the two brokers; the server; routing; the boundary; the two network
adapters with the programs on top of them; conversations; the gRPC and Connect
boundary; endpoints and typed calls; proofs of every safety property of every
module.

Left:

1. In `Amqp091Broker`, a consumer that keeps an envelope after giving it back: the
   tag keeps its value, and a late second answer hits somebody else's delivery.
   Nothing in `src/` does so, and nothing says what it should do.
2. An abstract at-least-once queue that `Amqp091Broker` and `Dispatch` both
   implement, so that what the programs may rely on is stated once.

## Running

    tlc -config UpstreamSafety.cfg MCUpstreamClient
    tlapm UpstreamClientProofs.tla

and likewise for every run in `PROJECT.json`.
