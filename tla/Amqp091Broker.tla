--------------------------- MODULE Amqp091Broker ---------------------------
(***************************************************************************)
(* The in-process AMQP 0-9-1 broker (amqp091/inprocess) and the programs   *)
(* that use it through the port: programs that declare their topology at   *)
(* start-up, publishers, and consumers that pull a subscription one        *)
(* delivery at a time and settle each.                                     *)
(*                                                                         *)
(* Broker.mutex makes routing, settling and declaring atomic.  A queue's   *)
(* backlog is a Go channel of its own: placing on it and taking from it    *)
(* happen outside the lock, so between the critical section that routes or *)
(* settles a message and the moment it is on (or off) a backlog, every     *)
(* other actor may run.  Those gaps are steps of their own here.           *)
(***************************************************************************)
EXTENDS Naturals, Sequences, SequencesExt, FiniteSets

CONSTANTS
  Publishers,   \* fibers that publish
  Consumers,    \* fibers that consume
  Programs,     \* start-ups that declare the topology
  Queues,       \* queue names
  Topology,     \* [exchanges, queues, bindings], each a sequence, as Declare takes
  Targets,      \* what publishers aim at: [exchange, key]
  DefaultExchange,  \* the exchange named ""
  Capacity,     \* how many messages a backlog holds (1024 in the code)
  MaxTag,       \* bound: tags the broker gives out
  MaxRequeues,  \* bound: times one delivery is requeued
  NoQueue, NoTag

ASSUME BrokerAssumption ==
  /\ Capacity \in Nat \ {0}
  /\ MaxTag \in Nat
  /\ MaxRequeues \in Nat
  /\ NoQueue \notin Queues
  /\ NoTag \notin 1 .. MaxTag

Tags == 1 .. MaxTag
Kinds == {"direct", "fanout", "topic"}

VARIABLES
  exchanges,   \* declared exchanges: a set of [name, kind], one per name
  queues,      \* declared queue names
  bindings,    \* sequence of [exchange, queue, key]
  step,        \* how far each program's Declare has come, or "refused"
  tag,         \* the last tag given out
  queueOf,     \* the queue each tag was routed to
  sender,      \* the publisher each tag's message came from
  placements,  \* what each publisher has routed and not yet offered
  backlog,     \* what waits in each queue
  unsettled,   \* what each queue has handed out
  at,          \* where each consumer is
  source,      \* the queue each consumer subscribed to
  hand,        \* the delivery each consumer has
  redelivered, \* tags offered more than once
  acks, discards, requeues,  \* how often each tag was settled each way
  dropped      \* tags whose offer met a full queue; whoever offered was told

topologyVars  == <<exchanges, queues, bindings, step>>
publishVars   == <<tag, queueOf, sender, placements>>
consumerVars  == <<at, source, hand>>
outcomeVars   == <<acks, discards, requeues>>
vars == <<topologyVars, publishVars, backlog, unsettled, consumerVars,
          redelivered, outcomeVars, dropped>>

ConsumerStates == {"idle", "waiting", "taken", "holding", "returning", "closed"}

TypeOK ==
  /\ \A e \in exchanges : e.kind \in Kinds
  /\ queues \subseteq Queues
  /\ tag \in 0 .. MaxTag
  /\ queueOf \in [Tags -> Queues \cup {NoQueue}]
  /\ placements \in [Publishers -> Seq(Tags)]
  /\ backlog \in [Queues -> Seq(Tags)]
  /\ \A q \in Queues : Len(backlog[q]) <= Capacity
  /\ unsettled \in [Queues -> SUBSET Tags]
  /\ at \in [Consumers -> ConsumerStates]
  /\ source \in [Consumers -> Queues \cup {NoQueue}]
  /\ hand \in [Consumers -> Tags \cup {NoTag}]
  /\ redelivered \subseteq Tags
  /\ acks \in [Tags -> Nat] /\ discards \in [Tags -> Nat] /\ requeues \in [Tags -> Nat]
  /\ dropped \subseteq Tags

Init ==
  /\ exchanges = {} /\ queues = {} /\ bindings = <<>>
  /\ step = [p \in Programs |-> 0]
  /\ tag = 0
  /\ queueOf = [t \in Tags |-> NoQueue]
  /\ sender = [t \in Tags |-> NoTag]
  /\ placements = [p \in Publishers |-> <<>>]
  /\ backlog = [q \in Queues |-> <<>>]
  /\ unsettled = [q \in Queues |-> {}]
  /\ at = [c \in Consumers |-> "idle"]
  /\ source = [c \in Consumers |-> NoQueue]
  /\ hand = [c \in Consumers |-> NoTag]
  /\ redelivered = {}
  /\ acks = [t \in Tags |-> 0]
  /\ discards = [t \in Tags |-> 0]
  /\ requeues = [t \in Tags |-> 0]
  /\ dropped = {}

-----------------------------------------------------------------------------
(* Declaring the topology.                                                 *)

(* Declare: exchanges and queues first, then the bindings.                 *)
Declarations == Topology.exchanges \o Topology.queues \o Topology.bindings

ASSUME TopologyAssumption ==
  /\ Len(Declarations) \in Nat
  /\ \A i \in 1 .. Len(Declarations) :
       Declarations[i].op = "queue" => Declarations[i].queue \in Queues

known(name) == \E e \in exchanges : e.name = name

(* An exchange declared again replaces what stood under its name.          *)
DeclareExchange(e) ==
  /\ exchanges' = {x \in exchanges : x.name # e.name} \cup {[name |-> e.name, kind |-> e.kind]}
  /\ UNCHANGED <<queues, bindings>>

(* A queue that is already there is left as it is, with what it holds.     *)
DeclareQueue(d) ==
  /\ queues' = queues \cup {d.queue}
  /\ UNCHANGED <<exchanges, bindings>>

(* Refused unless the exchange and the queue are there; otherwise appended,*)
(* whether or not the same binding already stands.                         *)
Bind(b) ==
  /\ known(b.exchange) /\ b.queue \in queues
  /\ bindings' = Append(bindings, [exchange |-> b.exchange, queue |-> b.queue, key |-> b.key])
  /\ UNCHANGED <<exchanges, queues>>

(* One effect of Declare's ForEach; a refused binding fails the rest.      *)
Declare(p) ==
  /\ step[p] \in 0 .. Len(Declarations) - 1
  /\ LET d == Declarations[step[p] + 1] IN
       \/ /\ \/ d.op = "exchange" /\ DeclareExchange(d)
             \/ d.op = "queue" /\ DeclareQueue(d)
             \/ d.op = "bind" /\ Bind(d)
          /\ step' = [step EXCEPT ![p] = @ + 1]
       \/ /\ d.op = "bind"
          /\ ~(known(d.exchange) /\ d.queue \in queues)
          /\ step' = [step EXCEPT ![p] = Len(Declarations) + 1]
          /\ UNCHANGED <<exchanges, queues, bindings>>
  /\ UNCHANGED <<publishVars, backlog, unsettled, consumerVars,
                 redelivered, outcomeVars, dropped>>

-----------------------------------------------------------------------------
(* Publishing.                                                             *)

(* routeTargets: the default exchange routes by queue name; any other by   *)
(* its bindings, one entry per binding that matches.                       *)
matches(b, target) ==
  /\ b.exchange = target.exchange
  /\ \E e \in exchanges : /\ e.name = target.exchange
                          /\ e.kind = "fanout" \/ b.key = target.key

routeTargets(target) ==
  IF target.exchange = DefaultExchange THEN <<target.key>>
  ELSE LET bound[n \in 0 .. Len(bindings)] ==
             IF n = 0 THEN <<>>
             ELSE IF matches(bindings[n], target)
                  THEN Append(bound[n - 1], bindings[n].queue)
                  ELSE bound[n - 1]
       IN  bound[Len(bindings)]

(* A target nobody can route to: an unknown exchange, a kind this broker   *)
(* does not route by, or (at the default exchange) an undeclared queue.    *)
Refused(target) ==
  IF target.exchange = DefaultExchange THEN target.key \notin queues
  ELSE ~\E e \in exchanges : e.name = target.exchange /\ e.kind \in {"direct", "fanout"}

(* queuesFor, under the lock: a tag and a placement per queue reached.  A  *)
(* target that is refused changes nothing; one that reaches no queue has   *)
(* no placements, and the message is gone without a word.                  *)
Publish(p, target) ==
  LET names == routeTargets(target) IN
  /\ placements[p] = <<>>
  /\ ~Refused(target)
  /\ Len(names) > 0
  /\ tag + Len(names) <= MaxTag
  /\ tag' = tag + Len(names)
  /\ placements' = [placements EXCEPT ![p] = [i \in DOMAIN names |-> tag + i]]
  /\ queueOf' = [t \in Tags |-> IF t \in tag + 1 .. tag'
                                THEN names[t - tag] ELSE queueOf[t]]
  /\ sender' = [t \in Tags |-> IF t \in tag + 1 .. tag' THEN p ELSE sender[t]]
  /\ UNCHANGED <<topologyVars, backlog, unsettled, consumerVars,
                 redelivered, outcomeVars, dropped>>

(* A wrong variant: the message goes in front.                             *)
offerInFront(t) ==
  /\ Len(backlog[queueOf[t]]) < Capacity
  /\ backlog' = [backlog EXCEPT ![queueOf[t]] = <<t>> \o @]
  /\ UNCHANGED dropped

(* A wrong variant: a full queue pushes its oldest message out.            *)
offerDisplacing(t) ==
  /\ backlog' = [backlog EXCEPT ![queueOf[t]] =
                   Append(IF Len(@) < Capacity THEN @ ELSE Tail(@), t)]
  /\ UNCHANGED dropped

(* offer: put the message on its queue without waiting for room.           *)
offer(t) ==
  /\ Len(backlog[queueOf[t]]) < Capacity
  /\ backlog' = [backlog EXCEPT ![queueOf[t]] = Append(@, t)]
  /\ UNCHANGED dropped

(* Outside the lock: the next placement finds room.                        *)
PlaceNext(p) ==
  /\ placements[p] # <<>>
  /\ offer(Head(placements[p]))
  /\ placements' = [placements EXCEPT ![p] = Tail(@)]
  /\ UNCHANGED <<topologyVars, tag, queueOf, sender, unsettled, consumerVars,
                 redelivered, outcomeVars>>

(* Outside the lock: the queue is full, so Publish fails there.  What was  *)
(* placed stays placed; this copy and the ones after it are not made.      *)
PlaceFails(p) ==
  /\ placements[p] # <<>>
  /\ Len(backlog[queueOf[Head(placements[p])]]) >= Capacity
  /\ dropped' = dropped \cup ToSet(placements[p])
  /\ placements' = [placements EXCEPT ![p] = <<>>]
  /\ UNCHANGED <<topologyVars, tag, queueOf, sender, backlog, unsettled,
                 consumerVars, redelivered, outcomeVars>>

-----------------------------------------------------------------------------
(* Consuming.                                                              *)

(* Consume, under the lock; refused for a queue nobody declared.           *)
Consume(c, q) ==
  /\ at[c] = "idle"
  /\ q \in queues
  /\ at' = [at EXCEPT ![c] = "waiting"]
  /\ source' = [source EXCEPT ![c] = q]
  /\ UNCHANGED <<topologyVars, publishVars, backlog, unsettled, hand,
                 redelivered, outcomeVars, dropped>>

(* Next: the receive from the backlog, outside the lock.                   *)
Take(c) ==
  /\ at[c] = "waiting"
  /\ backlog[source[c]] # <<>>
  /\ hand' = [hand EXCEPT ![c] = Head(backlog[source[c]])]
  /\ backlog' = [backlog EXCEPT ![source[c]] = Tail(@)]
  /\ at' = [at EXCEPT ![c] = "taken"]
  /\ UNCHANGED <<topologyVars, publishVars, unsettled, source,
                 redelivered, outcomeVars, dropped>>

(* A wrong variant: the delivery is handed out without being recorded.     *)
RecordNothing(c) ==
  /\ at[c] = "taken"
  /\ at' = [at EXCEPT ![c] = "holding"]
  /\ UNCHANGED <<topologyVars, publishVars, backlog, unsettled, source, hand,
                 redelivered, outcomeVars, dropped>>

(* Next: under the lock, the delivery is unsettled until it is settled.    *)
Record(c) ==
  /\ at[c] = "taken"
  /\ unsettled' = [unsettled EXCEPT ![source[c]] = @ \cup {hand[c]}]
  /\ at' = [at EXCEPT ![c] = "holding"]
  /\ UNCHANGED <<topologyVars, publishVars, backlog, source, hand,
                 redelivered, outcomeVars, dropped>>

(* settle, under the lock: only an unsettled delivery, and only once.      *)
settle(c, next) ==
  /\ at[c] = "holding"
  /\ hand[c] \in unsettled[source[c]]
  /\ unsettled' = [unsettled EXCEPT ![source[c]] = @ \ {hand[c]}]
  /\ at' = [at EXCEPT ![c] = next]

Ack(c) ==
  /\ settle(c, "waiting")
  /\ acks' = [acks EXCEPT ![hand[c]] = @ + 1]
  /\ hand' = [hand EXCEPT ![c] = NoTag]
  /\ UNCHANGED <<topologyVars, publishVars, backlog, source,
                 redelivered, discards, requeues, dropped>>

Discard(c) ==
  /\ settle(c, "waiting")
  /\ discards' = [discards EXCEPT ![hand[c]] = @ + 1]
  /\ hand' = [hand EXCEPT ![c] = NoTag]
  /\ UNCHANGED <<topologyVars, publishVars, backlog, source,
                 redelivered, acks, requeues, dropped>>

(* Requeue's first half, under the lock.                                   *)
Requeue(c) ==
  /\ settle(c, "returning")
  /\ requeues[hand[c]] < MaxRequeues
  /\ requeues' = [requeues EXCEPT ![hand[c]] = @ + 1]
  /\ redelivered' = redelivered \cup {hand[c]}
  /\ UNCHANGED <<topologyVars, publishVars, backlog, source, hand,
                 acks, discards, dropped>>

(* Requeue's second half, outside the lock: at the end of the backlog.     *)
PutBack(c) ==
  /\ at[c] = "returning"
  /\ offer(hand[c])
  /\ at' = [at EXCEPT ![c] = "waiting"]
  /\ hand' = [hand EXCEPT ![c] = NoTag]
  /\ UNCHANGED <<topologyVars, publishVars, unsettled, source,
                 redelivered, outcomeVars>>

(* The queue filled up meanwhile: Requeue fails, and the delivery is       *)
(* neither unsettled nor on the queue.  The consumer reads on or stops.    *)
PutBackFails(c) ==
  /\ at[c] = "returning"
  /\ Len(backlog[queueOf[hand[c]]]) >= Capacity
  /\ dropped' = dropped \cup {hand[c]}
  /\ \E next \in {"waiting", "closed"} : at' = [at EXCEPT ![c] = next]
  /\ hand' = [hand EXCEPT ![c] = NoTag]
  /\ UNCHANGED <<topologyVars, publishVars, backlog, unsettled, source,
                 redelivered, outcomeVars>>

(* The consumer ends: its context is cancelled while it waits, or it stops *)
(* with a delivery in hand.  Close gives nothing back.                     *)
Close(c) ==
  /\ at[c] \in {"waiting", "holding"}
  /\ at' = [at EXCEPT ![c] = "closed"]
  /\ UNCHANGED <<topologyVars, publishVars, backlog, unsettled, source, hand,
                 redelivered, outcomeVars, dropped>>

-----------------------------------------------------------------------------
Next ==
  \/ \E p \in Programs : Declare(p)
  \/ \E p \in Publishers, target \in Targets : Publish(p, target)
  \/ \E p \in Publishers : PlaceNext(p) \/ PlaceFails(p)
  \/ \E c \in Consumers, q \in Queues : Consume(c, q)
  \/ \E c \in Consumers :
       \/ Take(c) \/ Record(c)
       \/ Ack(c) \/ Discard(c) \/ Requeue(c)
       \/ PutBack(c) \/ PutBackFails(c)
       \/ Close(c)

Spec == Init /\ [][Next]_vars

-----------------------------------------------------------------------------
(* Properties.                                                             *)

(* Where a copy of a message is.                                           *)
Places(t) ==
  {<<"placing", p>> : p \in {x \in Publishers : t \in ToSet(placements[x])}}
  \cup {<<"backlog", q>> : q \in {x \in Queues : t \in ToSet(backlog[x])}}
  \cup {<<"taken", c>> : c \in {x \in Consumers : at[x] = "taken" /\ hand[x] = t}}
  \cup {<<"unsettled", q>> : q \in {x \in Queues : t \in unsettled[x]}}
  \cup {<<"returning", c>> : c \in {x \in Consumers : at[x] = "returning" /\ hand[x] = t}}
  \cup (IF acks[t] > 0 THEN {<<"accepted">>} ELSE {})
  \cup (IF discards[t] > 0 THEN {<<"discarded">>} ELSE {})
  \cup (IF t \in dropped THEN {<<"dropped">>} ELSE {})

(* No message is lost or doubled in the gaps between the lock and the      *)
(* backlogs: every copy the broker gave a tag is in exactly one place, and *)
(* in a sequence once.                                                     *)
OnePlace ==
  /\ \A t \in Tags : Cardinality(Places(t)) = IF t <= tag THEN 1 ELSE 0
  /\ \A q \in Queues : IsInjective(backlog[q])
  /\ \A p \in Publishers : IsInjective(placements[p])

(* A delivery a consumer holds is unsettled and its own: nobody else holds *)
(* it, so the consumer's settlement is never refused as an unknown tag.    *)
HeldByOne ==
  \A c \in Consumers : at[c] = "holding" =>
    /\ hand[c] \in unsettled[source[c]]
    /\ \A d \in Consumers : d # c /\ hand[d] # NoTag => hand[d] # hand[c]

(* What one publisher sends to one queue waits there in the order it was   *)
(* sent, whoever publishes beside it, until a copy has been requeued.      *)
PublisherOrder ==
  \A q \in Queues : \A i, j \in DOMAIN backlog[q] :
    LET t == backlog[q][i]
        u == backlog[q][j]
    IN  i < j /\ sender[t] = sender[u] /\ {t, u} \cap redelivered = {} => t < u

(* "queuesFor is the message, once per queue the target routes it to"      *)
(* (operations.go) and "Declaring is idempotent at the broker"             *)
(* (topology.go): with the same topology declared by every program, one    *)
(* publish puts at most one copy on each queue.                            *)
OncePerQueue ==
  \A p \in Publishers : \A i, j \in DOMAIN placements[p] :
    i # j => queueOf[placements[p][i]] # queueOf[placements[p][j]]
=============================================================================
