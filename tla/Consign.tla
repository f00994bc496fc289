------------------------------ MODULE Consign ------------------------------
(***************************************************************************)
(* Consuming an AMQP 1.0 node through the adapter (amqp10/links.go,        *)
(* amqp10/connect.go, amqp10/receive.go) as examples/consign does: a       *)
(* worker attaches a receiver link in a scope, streams what arrives,       *)
(* offers each shipment to its carrier and makes the disposition that says *)
(* what the carrier did.                                                   *)
(*                                                                         *)
(* The broker and the library below the link are external.  The broker     *)
(* transfers messages ahead of Receive, as far as the link's credit goes;  *)
(* dispositions travel to it; a link it detaches, or a connection that is  *)
(* lost, takes the dispositions under way with it, and what was in flight  *)
(* on the link goes back to the node.                                      *)
(***************************************************************************)
EXTENDS Naturals, FiniteSets

CONSTANTS
  Collectors,    \* programs that run Collect, each on a link of its own
  Shipments,     \* the messages
  Credit,        \* messages the broker may have in flight to a link
  MaxTransfers,  \* bound: times the broker transfers one message
  NoShipment

ASSUME ConsignAssumption ==
  /\ NoShipment \notin Shipments
  /\ Credit \in Nat \ {0} /\ MaxTransfers \in Nat

VARIABLES
  handed,           \* shipments the sender has tried to send
  shape,            \* "good", "unreadable" (the schema refuses the body) or "garbled"
                    \* (its properties have no representation here), of each
  node,             \* shipments waiting at the node
  flight,           \* what the broker has in flight to each link
  taken, rejected,  \* shipments the broker is done with
  count,            \* the broker's count of failed deliveries of each
  transfers,        \* times each was transferred
  dispositions,     \* dispositions on their way: [link, shipment, disposition]
  link,             \* "none", "connected", "session", "attached" or "broken"
  buffer,           \* transferred to a link and not yet received from it
  unsettled,        \* receiverLink.unsettled
  stage,            \* where each worker's stream is
  parcel,           \* the shipment of the envelope in hand
  decision,         \* the disposition it is to get
  collected,        \* shipments some carrier took
  never,            \* shipments some carrier said Never of
  notNow,           \* times carriers said NotNow of each
  given             \* shipments the streams gave out

nodeVars    == <<node, flight, taken, rejected, count, transfers, dispositions>>
linkVars    == <<link, buffer, unsettled>>
workerVars  == <<stage, parcel, decision>>
carrierVars == <<collected, never, notNow>>
handVars    == <<handed, shape>>
consignVars == <<handVars, nodeVars, linkVars, workerVars, carrierVars, given>>

Accept == [kind |-> "accept"]
Reject == [kind |-> "reject"]
Modify(failed, elsewhere) == [kind |-> "modify", failed |-> failed, elsewhere |-> elsewhere]

ConsignInit ==
  /\ handed = {} /\ shape \in [Shipments -> {"good", "unreadable", "garbled"}]
  /\ node = {} /\ flight = [w \in Collectors |-> {}]
  /\ taken = {} /\ rejected = {}
  /\ count = [s \in Shipments |-> 0] /\ transfers = [s \in Shipments |-> 0]
  /\ dispositions = {}
  /\ link = [w \in Collectors |-> "none"]
  /\ buffer = [w \in Collectors |-> {}] /\ unsettled = [w \in Collectors |-> {}]
  /\ stage = [w \in Collectors |-> "idle"]
  /\ parcel = [w \in Collectors |-> NoShipment] /\ decision = [w \in Collectors |-> Accept]
  /\ collected = {} /\ never = {} /\ notNow = [s \in Shipments |-> 0]
  /\ given = {}

-----------------------------------------------------------------------------
(* Sending.                                                                *)

(* Send: the broker has the message, or (after a fault) may not have it.   *)
Send(s) == node' \in {node, node \cup {s}}

(* Encode: only what the schema accepts becomes a message.                 *)
Encode10(s) == shape[s] = "good"

(* Hand sends a shipment it could encode.                                  *)
Hand(s) ==
  /\ s \notin handed /\ Encode10(s)
  /\ handed' = handed \cup {s}
  /\ Send(s)
  /\ UNCHANGED <<shape, flight, taken, rejected, count, transfers, dispositions, linkVars,
                 workerVars, carrierVars, given>>

(* External: another program sends to the node what Collect cannot read.   *)
HandOther(s) ==
  /\ s \notin handed /\ ~Encode10(s)
  /\ handed' = handed \cup {s}
  /\ node' = node \cup {s}
  /\ UNCHANGED <<shape, flight, taken, rejected, count, transfers, dispositions, linkVars,
                 workerVars, carrierVars, given>>

-----------------------------------------------------------------------------
(* The link.                                                               *)

Hold(w, from, to) ==
  /\ link[w] = from
  /\ link' = [link EXCEPT ![w] = to]
  /\ UNCHANGED <<handVars, nodeVars, buffer, unsettled, workerVars, carrierVars, given>>

(* A connection, a session on it and a link on that, each for the scope to *)
(* release, the last one first.                                            *)
Connect10(w)    == Hold(w, "none", "connected")
Open10(w)       == Hold(w, "connected", "session")
Receiver(w)   == Hold(w, "session", "attached")
endSession(w) == Hold(w, "session", "connected")
disconnect10(w) == Hold(w, "connected", "none")

(* The scope closes: detachReceiver, and nothing is left of the link.  The *)
(* detach follows the dispositions sent before it.                         *)
detachReceiver(w) ==
  /\ link[w] \in {"attached", "broken"}
  /\ stage[w] \in {"idle", "failed"}
  /\ \A d \in dispositions : d.link # w
  /\ link' = [link EXCEPT ![w] = "session"]
  /\ node' = node \cup flight[w]
  /\ flight' = [flight EXCEPT ![w] = {}]
  /\ buffer' = [buffer EXCEPT ![w] = {}]
  /\ unsettled' = [unsettled EXCEPT ![w] = {}]
  /\ stage' = [stage EXCEPT ![w] = "idle"]
  /\ UNCHANGED <<handVars, taken, rejected, count, transfers, dispositions, parcel, decision,
                 carrierVars, given>>

(* External: the broker transfers a message, within the link's credit.     *)
Transfer(w, s) ==
  /\ link[w] = "attached" /\ s \in node
  /\ Cardinality(flight[w]) < Credit
  /\ transfers[s] < MaxTransfers
  /\ node' = node \ {s}
  /\ flight' = [flight EXCEPT ![w] = @ \cup {s}]
  /\ buffer' = [buffer EXCEPT ![w] = @ \cup {s}]
  /\ transfers' = [transfers EXCEPT ![s] = @ + 1]
  /\ UNCHANGED <<handVars, taken, rejected, count, dispositions, link, unsettled,
                 workerVars, carrierVars, given>>

(* External: the link is detached or its connection lost.                  *)
Break(w) ==
  /\ link[w] = "attached"
  /\ link' = [link EXCEPT ![w] = "broken"]
  /\ dispositions' = {d \in dispositions : d.link # w}
  /\ node' = node \cup flight[w]
  /\ flight' = [flight EXCEPT ![w] = {}]
  /\ UNCHANGED <<handVars, taken, rejected, count, transfers, buffer, unsettled,
                 workerVars, carrierVars, given>>

(* External: the broker does what a disposition says.                      *)
ApplyDisposition(d) ==
  /\ dispositions' = dispositions \ {d}
  /\ flight' = [flight EXCEPT ![d.link] = @ \ {d.shipment}]
  /\ taken' = IF d.disposition = Accept THEN taken \cup {d.shipment} ELSE taken
  /\ rejected' = IF d.disposition = Reject THEN rejected \cup {d.shipment} ELSE rejected
  /\ node' = IF d.disposition.kind = "modify" THEN node \cup {d.shipment} ELSE node
  /\ count' = [count EXCEPT ![d.shipment] =
                 IF d.disposition.kind = "modify" /\ d.disposition.failed THEN @ + 1 ELSE @]
  /\ UNCHANGED <<handVars, transfers, linkVars, workerVars, carrierVars, given>>

-----------------------------------------------------------------------------
(* The worker: Collect, one delivery at a time.                            *)

Collect(w) ==
  /\ stage[w] = "idle" /\ link[w] \in {"attached", "broken"}
  /\ stage' = [stage EXCEPT ![w] = "waiting"]
  /\ UNCHANGED <<handVars, nodeVars, linkVars, parcel, decision, carrierVars, given>>

(* ReadProperties refuses a value that has no representation here.         *)
ReadProperties(s) == shape[s] # "garbled"

(* deliveryOf: what ReadProperties refuses fails the Receive.              *)
deliveryOf10(s) == ReadProperties(s)

(* decodeDelivery: whether the envelope's Read gives a value.              *)
decodeDelivery10(s) == shape[s] # "unreadable"

(* A wrong variant: the delivery is not remembered.                        *)
ReceiveForgetting(w, s) ==
  /\ stage[w] = "waiting" /\ s \in buffer[w] /\ deliveryOf10(s)
  /\ buffer' = [buffer EXCEPT ![w] = @ \ {s}]
  /\ parcel' = [parcel EXCEPT ![w] = s]
  /\ stage' = [stage EXCEPT ![w] = "received"]
  /\ UNCHANGED <<handVars, nodeVars, link, unsettled, decision, carrierVars, given>>

(* Receive: the message is remembered until it is settled.  What has been  *)
(* transferred is received even after the link is gone.                    *)
Receive(w, s) ==
  /\ stage[w] = "waiting" /\ s \in buffer[w] /\ deliveryOf10(s)
  /\ buffer' = [buffer EXCEPT ![w] = @ \ {s}]
  /\ unsettled' = [unsettled EXCEPT ![w] = @ \cup {s}]
  /\ parcel' = [parcel EXCEPT ![w] = s]
  /\ stage' = [stage EXCEPT ![w] = "received"]
  /\ UNCHANGED <<handVars, nodeVars, link, decision, carrierVars, given>>

(* Receive fails on a message the adapter cannot represent, and with it    *)
(* the stream: the message stays with the broker, unsettled.               *)
ReceiveFails(w, s) ==
  /\ stage[w] = "waiting" /\ s \in buffer[w] /\ ~deliveryOf10(s)
  /\ buffer' = [buffer EXCEPT ![w] = @ \ {s}]
  /\ stage' = [stage EXCEPT ![w] = "failed"]
  /\ UNCHANGED <<handVars, nodeVars, link, unsettled, parcel, decision, carrierVars, given>>

(* A detached link is the end of the messages; so is having read enough.   *)
EndOfStream(w) ==
  /\ stage[w] = "waiting"
  /\ stage' = [stage EXCEPT ![w] = "idle"]
  /\ UNCHANGED <<handVars, nodeVars, linkVars, parcel, decision, carrierVars, given>>

(* collectConsignment: a shipment that cannot be read is rejected.         *)
Unread(w) ==
  /\ stage[w] = "received" /\ ~decodeDelivery10(parcel[w])
  /\ decision' = [decision EXCEPT ![w] = Reject]
  /\ stage' = [stage EXCEPT ![w] = "settling"]
  /\ UNCHANGED <<handVars, nodeVars, linkVars, parcel, carrierVars, given>>

(* A wrong variant: every refusal counts as an attempt.                    *)
settleAsFailed(outcome) ==
  CASE outcome = "collection" -> Accept
    [] outcome = "never"      -> Reject
    [] outcome = "notNow"     -> Modify(TRUE, FALSE)
    [] outcome = "notMe"      -> Modify(TRUE, TRUE)

(* A wrong variant: whatever is not final is accepted.                     *)
settleAccepting(outcome) == IF outcome = "never" THEN Reject ELSE Accept

(* settleConsignment: each outcome has a disposition of its own.           *)
settleConsignment(outcome) ==
  CASE outcome = "collection" -> Accept
    [] outcome = "never"      -> Reject
    [] outcome = "notNow"     -> Modify(TRUE, FALSE)
    [] outcome = "notMe"      -> Modify(FALSE, TRUE)

(* The carrier answers.                                                    *)
Offer(w, outcome) ==
  /\ stage[w] = "received" /\ decodeDelivery10(parcel[w])
  /\ decision' = [decision EXCEPT ![w] = settleConsignment(outcome)]
  /\ collected' = IF outcome = "collection" THEN collected \cup {parcel[w]} ELSE collected
  /\ never' = IF outcome = "never" THEN never \cup {parcel[w]} ELSE never
  /\ notNow' = [notNow EXCEPT ![parcel[w]] = IF outcome = "notNow" THEN @ + 1 ELSE @]
  /\ stage' = [stage EXCEPT ![w] = "settling"]
  /\ UNCHANGED <<handVars, nodeVars, linkVars, parcel, given>>

(* settle: forgotten first; the disposition goes out only if it was there. *)
settle(w, sent) ==
  /\ unsettled' = [unsettled EXCEPT ![w] = @ \ {parcel[w]}]
  /\ dispositions' = IF sent THEN dispositions \cup
               {[link |-> w, shipment |-> parcel[w], disposition |-> decision[w]]} ELSE dispositions

(* The disposition succeeds: an accepted shipment appears in the stream.   *)
Settled(w) ==
  /\ stage[w] = "settling" /\ link[w] = "attached" /\ parcel[w] \in unsettled[w]
  /\ settle(w, TRUE)
  /\ given' = IF decision[w] = Accept THEN given \cup {parcel[w]} ELSE given
  /\ stage' = [stage EXCEPT ![w] = "waiting"]
  /\ UNCHANGED <<handVars, node, flight, taken, rejected, count, transfers, link, buffer,
                 parcel, decision, carrierVars>>

(* The disposition fails: the link is gone, the delivery is not known, or  *)
(* the context is done, whether or not it went out.  So does the stream.   *)
SettleFails(w) ==
  /\ stage[w] = "settling"
  /\ \E sent \in BOOLEAN :
       /\ sent => link[w] = "attached" /\ parcel[w] \in unsettled[w]
       /\ settle(w, sent)
  /\ stage' = [stage EXCEPT ![w] = "failed"]
  /\ UNCHANGED <<handVars, node, flight, taken, rejected, count, transfers, link, buffer,
                 parcel, decision, carrierVars, given>>

(* The carrier faults, or the program is interrupted, and the stream with  *)
(* it: the delivery in hand is never settled.                              *)
Abandon(w) ==
  /\ stage[w] \in {"waiting", "received", "settling"}
  /\ stage' = [stage EXCEPT ![w] = "failed"]
  /\ UNCHANGED <<handVars, nodeVars, linkVars, parcel, decision, carrierVars, given>>

Outcomes == {"collection", "notNow", "notMe", "never"}

ConsignNext ==
  \/ \E s \in Shipments : Hand(s) \/ HandOther(s)
  \/ \E d \in dispositions : ApplyDisposition(d)
  \/ \E w \in Collectors, s \in Shipments : Transfer(w, s) \/ Receive(w, s) \/ ReceiveFails(w, s)
  \/ \E w \in Collectors, outcome \in Outcomes : Offer(w, outcome)
  \/ \E w \in Collectors :
       \/ Connect10(w) \/ Open10(w) \/ Receiver(w) \/ Break(w)
       \/ detachReceiver(w) \/ endSession(w) \/ disconnect10(w)
       \/ Collect(w) \/ EndOfStream(w) \/ Unread(w)
       \/ Settled(w) \/ SettleFails(w) \/ Abandon(w)

ConsignSpec == ConsignInit /\ [][ConsignNext]_consignVars

-----------------------------------------------------------------------------
(* Properties.                                                             *)

(* Nothing is said of a shipment that no carrier said: what the broker     *)
(* forgets as accepted, and what a stream gives out, was collected; what   *)
(* goes to the dead letters is unreadable or was refused for good; however *)
(* links break and messages come back in between.                          *)
NothingInvented ==
  /\ taken \cup given \subseteq collected
  /\ \A s \in rejected : shape[s] = "unreadable" \/ s \in never

(* While a worker's stream has not failed, the link's own books are the    *)
(* broker's: what is in flight to it is waiting to be received, remembered *)
(* as unsettled, or being settled, and only the delivery in hand is        *)
(* remembered.  So a running stream never strands a message, or its credit.*)
BooksAgree ==
  \A w \in Collectors : stage[w] # "failed" =>
    /\ link[w] = "attached" =>
         flight[w] = buffer[w] \cup unsettled[w] \cup {d.shipment : d \in {x \in dispositions : x.link = w}}
    /\ unsettled[w] = IF stage[w] \in {"received", "settling"} THEN {parcel[w]} ELSE {}

(* A broker that counts failed deliveries to decide when a message has     *)
(* failed too often never counts more than the carriers' failed attempts:  *)
(* a shipment sent elsewhere, or carried back by a lost link, is not one.  *)
CountsOnlyFailures == \A s \in Shipments : count[s] <= notNow[s]
=============================================================================
