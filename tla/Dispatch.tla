------------------------------ MODULE Dispatch ------------------------------
(***************************************************************************)
(* Consuming an AMQP 0-9-1 queue through the adapter (amqp091/connect.go,  *)
(* amqp091/channel.go, amqp091/deliveries.go, amqp091/consume.go) as       *)
(* examples/dispatch does: a worker opens a channel with a prefetch, runs  *)
(* Ship over a subscription, and acknowledges each order by what the       *)
(* packing of it did.                                                      *)
(*                                                                         *)
(* The broker and the library below the channel are external.  The broker  *)
(* pushes deliveries ahead of Next, as far as the prefetch goes; answers   *)
(* are written to a socket and nobody confirms them; a channel that is     *)
(* lost takes the answers under way with it, and what was unacknowledged   *)
(* on it goes back to the queue.  A worker may run Ship again on the       *)
(* channel it has, as a program that reads a few orders at a time does.    *)
(***************************************************************************)
EXTENDS Naturals, Sequences, SequencesExt

CONSTANTS
  Workers,       \* programs that run Ship, each on a channel of its own
  Orders,        \* the messages
  PrefetchCount, \* unacknowledged deliveries the broker sends one consumer
  MaxOffers,     \* bound: times the broker pushes one message
  MaxConsumers,  \* bound: consumers the process opens
  NoOrder

ASSUME DispatchAssumption ==
  /\ NoOrder \notin Orders
  /\ PrefetchCount \in Nat \ {0} /\ MaxOffers \in Nat /\ MaxConsumers \in Nat

VARIABLES
  placed,     \* orders somebody has tried to publish
  form,       \* "good", "unreadable" (the schema refuses the body) or "garbled"
              \* (a header has no representation here), of each
  queue,      \* orders waiting at the broker
  accepted, dropped,   \* orders the broker is done with
  offers,     \* times each was pushed
  unacked,    \* per channel, in the order of the tags: [order, consumer]
  wire,       \* answers on their way: [channel, order, answer, multiple]
  channel,    \* "none", "connected" (a connection without one), "open" or "gone"
  consumers,  \* the counter consumer tags are made of
  consumer,   \* the number of each channel's consumer, 0 when it has none
  unread,     \* pushed into each subscription's Go channel and not read
  at,         \* where each worker's stream is
  hand,       \* the order of the envelope in hand
  packed,     \* orders some warehouse packed
  emitted     \* orders the streams gave out

brokerVars  == <<queue, accepted, dropped, offers, unacked, wire>>
channelVars == <<channel, consumers, consumer, unread>>
sendVars    == <<placed, form>>
resultVars  == <<packed, emitted>>
vars == <<sendVars, brokerVars, channelVars, at, hand, resultVars>>

Init ==
  /\ placed = {} /\ form \in [Orders -> {"good", "unreadable", "garbled"}]
  /\ queue = {} /\ accepted = {} /\ dropped = {}
  /\ offers = [o \in Orders |-> 0]
  /\ unacked = [w \in Workers |-> <<>>] /\ wire = {}
  /\ channel = [w \in Workers |-> "none"]
  /\ consumers = 0 /\ consumer = [w \in Workers |-> 0]
  /\ unread = [w \in Workers |-> <<>>]
  /\ at = [w \in Workers |-> "idle"] /\ hand = [w \in Workers |-> NoOrder]
  /\ packed = {} /\ emitted = {}

OrdersOf(deliveries) == {deliveries[i].order : i \in DOMAIN deliveries}

-----------------------------------------------------------------------------
(* The channel and what the broker does on it.                             *)

(* Publish, without publisher confirms: whether it succeeds or fails, the  *)
(* broker has the message or has not.                                      *)
Publish(o) == queue' \in {queue, queue \cup {o}}

(* Encode: only what the schema accepts becomes a message.                 *)
Encode(o) == form[o] = "good"

(* Place publishes an order it could encode.                               *)
Place(o) ==
  /\ o \notin placed /\ Encode(o)
  /\ placed' = placed \cup {o}
  /\ Publish(o)
  /\ UNCHANGED <<form, accepted, dropped, offers, unacked, wire, channelVars, at, hand, resultVars>>

(* External: another program publishes to the queue what Ship cannot read. *)
PlaceOther(o) ==
  /\ o \notin placed /\ ~Encode(o)
  /\ placed' = placed \cup {o}
  /\ queue' = queue \cup {o}
  /\ UNCHANGED <<form, accepted, dropped, offers, unacked, wire, channelVars, at, hand, resultVars>>

(* Connect opens a connection for the scope to close.                      *)
Connect(w) ==
  /\ channel[w] = "none"
  /\ channel' = [channel EXCEPT ![w] = "connected"]
  /\ UNCHANGED <<sendVars, brokerVars, consumers, consumer, unread, at, hand, resultVars>>

(* Open takes a channel on it; its Prefetch bounds what Push may send.     *)
Open(w) ==
  /\ channel[w] = "connected"
  /\ channel' = [channel EXCEPT ![w] = "open"]
  /\ UNCHANGED <<sendVars, brokerVars, consumers, consumer, unread, at, hand, resultVars>>

(* closeChannel, by the scope that opened it, after the stream's own scope *)
(* is closed and behind the answers already written.  A channel that is    *)
(* gone is closed without complaint (ignoreClosed).                        *)
closeChannel(w) ==
  /\ channel[w] \in {"open", "gone"} /\ at[w] = "idle"
  /\ \A a \in wire : a.channel # w
  /\ channel' = [channel EXCEPT ![w] = "connected"]
  /\ queue' = queue \cup OrdersOf(unacked[w])
  /\ unacked' = [unacked EXCEPT ![w] = <<>>]
  /\ UNCHANGED <<sendVars, accepted, dropped, offers, wire, consumers, consumer, unread,
                 at, hand, resultVars>>

(* disconnect closes the connection, which is held until its channel is    *)
(* closed; one the broker closed before is no fault.                       *)
disconnect(w) ==
  /\ channel[w] = "connected"
  /\ channel' = [channel EXCEPT ![w] = "none"]
  /\ UNCHANGED <<sendVars, brokerVars, consumers, consumer, unread, at, hand, resultVars>>

(* The prefetch the worker asked for leaves room for one more.  The broker *)
(* counts it per consumer, what RabbitMQ means by Qos(count, 0, false);    *)
(* the comment at amqp091/connect.go:64 speaks of the channel.             *)
Prefetch(w) ==
  Len(SelectSeq(unacked[w], LAMBDA d : d.consumer = consumer[w])) < PrefetchCount

(* External: the broker pushes a delivery to a consumer that has room.     *)
Push(w, o) ==
  /\ channel[w] = "open" /\ consumer[w] # 0 /\ o \in queue
  /\ Prefetch(w)
  /\ offers[o] < MaxOffers
  /\ queue' = queue \ {o}
  /\ unacked' = [unacked EXCEPT ![w] = Append(@, [order |-> o, consumer |-> consumer[w]])]
  /\ unread' = [unread EXCEPT ![w] = Append(@, o)]
  /\ offers' = [offers EXCEPT ![o] = @ + 1]
  /\ UNCHANGED <<sendVars, accepted, dropped, wire, channel, consumers, consumer, at, hand, resultVars>>

(* External: the channel, or its connection, is lost.                      *)
Lose(w) ==
  /\ channel[w] = "open"
  /\ channel' = [channel EXCEPT ![w] = "gone"]
  /\ consumer' = [consumer EXCEPT ![w] = 0]
  /\ wire' = {a \in wire : a.channel # w}
  /\ queue' = queue \cup OrdersOf(unacked[w])
  /\ unacked' = [unacked EXCEPT ![w] = <<>>]
  /\ UNCHANGED <<sendVars, accepted, dropped, offers, consumers, unread, at, hand, resultVars>>

(* External: the broker does what an answer says, to the delivery it names *)
(* or, where it is a multiple one, to every delivery up to it.             *)
Apply(a) ==
  LET held == unacked[a.channel] IN
  \E last \in DOMAIN held :
    LET first  == IF a.multiple THEN 1 ELSE last
        orders == OrdersOf(SubSeq(held, first, last))
    IN /\ held[last].order = a.order
       /\ wire' = wire \ {a}
       /\ unacked' = [unacked EXCEPT ![a.channel] =
                        SubSeq(@, 1, first - 1) \o SubSeq(@, last + 1, Len(@))]
       /\ accepted' = IF a.answer = "ack" THEN accepted \cup orders ELSE accepted
       /\ dropped' = IF a.answer = "discard" THEN dropped \cup orders ELSE dropped
       /\ queue' = IF a.answer = "requeue" THEN queue \cup orders ELSE queue
       /\ UNCHANGED <<sendVars, offers, channelVars, at, hand, resultVars>>

-----------------------------------------------------------------------------
(* The subscription.                                                       *)

(* Consume: a consumer under a tag no other consumer has.                  *)
Consume(w) ==
  /\ consumers < MaxConsumers
  /\ consumers' = consumers + 1
  /\ consumer' = [consumer EXCEPT ![w] = consumers + 1]
  /\ unread' = [unread EXCEPT ![w] = <<>>]

(* subscribe, when Ship is run; its release is unsubscribe.                *)
subscribe(w) ==
  /\ at[w] = "idle" /\ channel[w] = "open"
  /\ Consume(w)
  /\ at' = [at EXCEPT ![w] = "waiting"]
  /\ UNCHANGED <<sendVars, brokerVars, channel, hand, resultVars>>

(* Close cancels the consumer and leaves the channel open: what was pushed *)
(* and not read stays unacknowledged on it.  Nobody reads the Go channel   *)
(* again.                                                                  *)
Close(w) ==
  /\ consumer' = [consumer EXCEPT ![w] = 0]
  /\ unread' = [unread EXCEPT ![w] = <<>>]

(* unsubscribe: the stream's scope closes, however the stream ended.       *)
unsubscribe(w) ==
  /\ at[w] = "closing"
  /\ Close(w)
  /\ at' = [at EXCEPT ![w] = "idle"]
  /\ hand' = [hand EXCEPT ![w] = NoOrder]
  /\ UNCHANGED <<sendVars, brokerVars, channel, consumers, resultVars>>

(* Headers refuses a table with a value that has no representation here.   *)
Headers(o) == form[o] # "garbled"

(* deliveryOf: what Headers refuses is no delivery.                        *)
deliveryOf(o) == Headers(o)

(* decodeDelivery: whether the envelope's Read gives a value.              *)
decodeDelivery(o) == form[o] # "unreadable"

(* Next: a delivery into the hand; or the error that fails the stream, and *)
(* leaves the delivery unanswered.  What the Go channel still holds may be *)
(* read after the broker's channel is gone.                                *)
NextDelivery(w) ==
  /\ at[w] = "waiting" /\ unread[w] # <<>>
  /\ unread' = [unread EXCEPT ![w] = Tail(@)]
  /\ IF deliveryOf(Head(unread[w]))
       THEN at' = [at EXCEPT ![w] = "received"] /\ hand' = [hand EXCEPT ![w] = Head(unread[w])]
       ELSE at' = [at EXCEPT ![w] = "closing"] /\ UNCHANGED hand
  /\ UNCHANGED <<sendVars, brokerVars, channel, consumers, consumer, resultVars>>

(* The stream stops: its subscription ended, its reader has had enough, or *)
(* the program is interrupted while it waits, packs or has packed.         *)
Stop(w) ==
  /\ at[w] \in {"waiting", "received", "packed"}
  /\ at' = [at EXCEPT ![w] = "closing"]
  /\ UNCHANGED <<sendVars, brokerVars, channelVars, hand, resultVars>>

-----------------------------------------------------------------------------
(* shipOrder, and the three answers.                                       *)

Written(w, answer, multiple) ==
  wire' = wire \cup {[channel |-> w, order |-> hand[w], answer |-> answer, multiple |-> multiple]}

(* A wrong variant: an acknowledgement of everything up to the tag.        *)
AckMultiple(w) == channel[w] = "open" /\ Written(w, "ack", TRUE)

(* The three answers name one delivery; they fail on a channel that is gone. *)
Ack(w)     == channel[w] = "open" /\ Written(w, "ack", FALSE)
Discard(w) == channel[w] = "open" /\ Written(w, "discard", FALSE)
Requeue(w) == channel[w] = "open" /\ Written(w, "requeue", FALSE)

(* The stream goes on after an answer, and fails without one.              *)
Answered(w) == at' = [at EXCEPT ![w] = "waiting"] /\ hand' = [hand EXCEPT ![w] = NoOrder]
Unanswered(w) ==
  /\ channel[w] # "open"
  /\ at' = [at EXCEPT ![w] = "closing"]
  /\ UNCHANGED <<wire, hand>>

(* A wrong variant: what cannot be read is skipped.                        *)
SkipUnread(w) ==
  /\ at[w] = "received" /\ ~decodeDelivery(hand[w])
  /\ Answered(w)
  /\ UNCHANGED <<sendVars, brokerVars, channelVars, resultVars>>

(* An order the schema refuses is discarded.                               *)
DiscardUnread(w) ==
  /\ at[w] = "received" /\ ~decodeDelivery(hand[w])
  /\ (Discard(w) /\ Answered(w)) \/ Unanswered(w)
  /\ UNCHANGED <<sendVars, queue, accepted, dropped, offers, unacked, channelVars, resultVars>>

(* The packing succeeds, and the acknowledgement follows in a step of its  *)
(* own: the channel may be lost in between.                                *)
Pack(w) ==
  /\ at[w] = "received" /\ decodeDelivery(hand[w])
  /\ packed' = packed \cup {hand[w]}
  /\ at' = [at EXCEPT ![w] = "packed"]
  /\ UNCHANGED <<sendVars, brokerVars, channelVars, hand, emitted>>

(* Packed: acknowledged, and only then given out.  A failing Ack is caught *)
(* by the CatchAll, whose Requeue fails on the same channel.               *)
AckPacked(w) ==
  /\ at[w] = "packed"
  /\ \/ Ack(w) /\ Answered(w) /\ emitted' = emitted \cup {hand[w]}
     \/ Unanswered(w) /\ UNCHANGED emitted
  /\ UNCHANGED <<sendVars, queue, accepted, dropped, offers, unacked, channelVars, packed>>

(* A wrong variant: the order given back is tried once more at once.       *)
RequeueAndKeep(w) ==
  /\ at[w] = "received" /\ decodeDelivery(hand[w])
  /\ Requeue(w) /\ UNCHANGED <<at, hand>>
  /\ UNCHANGED <<sendVars, queue, accepted, dropped, offers, unacked, channelVars, resultVars>>

(* The packing fails: the order comes back to the queue.                   *)
RequeueRefused(w) ==
  /\ at[w] = "received" /\ decodeDelivery(hand[w])
  /\ (Requeue(w) /\ Answered(w)) \/ Unanswered(w)
  /\ UNCHANGED <<sendVars, queue, accepted, dropped, offers, unacked, channelVars, resultVars>>

Next ==
  \/ \E o \in Orders : Place(o) \/ PlaceOther(o)
  \/ \E a \in wire : Apply(a)
  \/ \E w \in Workers, o \in Orders : Push(w, o)
  \/ \E w \in Workers :
       \/ Connect(w) \/ Open(w) \/ closeChannel(w) \/ disconnect(w) \/ Lose(w)
       \/ subscribe(w) \/ unsubscribe(w) \/ NextDelivery(w) \/ Stop(w)
       \/ DiscardUnread(w) \/ Pack(w) \/ AckPacked(w) \/ RequeueRefused(w)

Spec == Init /\ [][Next]_vars

-----------------------------------------------------------------------------
(* Properties.                                                             *)

(* "Only an order that was packed is accepted, and only then does it       *)
(* appear in the stream", and only what cannot be read is dropped: also    *)
(* for what an earlier subscription left unread on the same channel.       *)
OnlyPackedAccepted ==
  /\ accepted \cup emitted \subseteq packed
  /\ \A o \in dropped : form[o] = "unreadable"

(* An answer on its way names a delivery the broker still holds unanswered *)
(* on that channel, and no other answer names it: a second one would make  *)
(* the broker close the channel under everything else on it.               *)
AnsweredOnce ==
  \A a \in wire :
    /\ a.order \in OrdersOf(unacked[a.channel])
    /\ \A b \in wire : b.channel = a.channel /\ b.order = a.order => b = a
    /\ a.order # hand[a.channel]

(* A stream that waits is owed nothing it cannot come by: what the broker  *)
(* counts against its consumer is still to be read or its answer is under  *)
(* way, so the prefetch never runs out on a reader that goes on reading;   *)
(* and a consumer nobody reads is always about to be cancelled.  What an   *)
(* earlier consumer left on the channel is not counted against it, by the  *)
(* meaning Prefetch gives the count.                                       *)
NeverStalls ==
  \A w \in Workers :
    /\ at[w] = "waiting" /\ channel[w] = "open" =>
         \A i \in DOMAIN unacked[w] : unacked[w][i].consumer = consumer[w] =>
           \/ Contains(unread[w], unacked[w][i].order)
           \/ \E a \in wire : a.channel = w /\ a.order = unacked[w][i].order
    /\ at[w] = "idle" => consumer[w] = 0
=============================================================================
