---------------------------- MODULE WorkersProofs --------------------------
(***************************************************************************)
(* Dispatch and Consign, for any workers and collectors, orders and        *)
(* shipments, prefetch and credit: what is accepted, what is dropped, and  *)
(* what an answer is about.                                                *)
(***************************************************************************)
EXTENDS Dispatch, Consign, SequenceTheorems, TLAPS

-----------------------------------------------------------------------------
(* Dispatch: the deliveries on the channels, and what is said of them.     *)

Shaped ==
  /\ placed \subseteq Orders /\ queue \subseteq placed
  /\ unacked \in [Workers -> Seq([order : Orders, consumer : Nat])]
  /\ unread \in [Workers -> Seq(Orders)]
  /\ hand \in [Workers -> Orders \cup {NoOrder}]
  /\ consumers \in Nat /\ consumer \in [Workers -> Nat]
  /\ channel \in [Workers -> {"none", "connected", "open", "gone"}]
  /\ at \in [Workers -> {"idle", "waiting", "received", "packed", "closing"}]
  /\ \A o \in Orders : form[o] \in {"good", "unreadable", "garbled"}

(* What is on its way on a channel, and what its broker end holds.         *)
Told(w) == {a.order : a \in {x \in wire : x.channel = w}}
Unacked(w) == {unacked[w][i].order : i \in 1 .. Len(unacked[w])}

(* What a worker has by where it is: nothing without a channel, and no     *)
(* consumer number is used again.                                          *)
Phased(w) ==
  /\ at[w] = "idle" => consumer[w] = 0 /\ unread[w] = <<>>
  /\ at[w] \in {"idle", "waiting"} => hand[w] = NoOrder
  /\ at[w] \in {"received", "packed"} => hand[w] # NoOrder
  /\ at[w] # "idle" => channel[w] \in {"open", "gone"}
  /\ channel[w] # "open" => unacked[w] = <<>>
  /\ consumer[w] <= consumers
  /\ \A i \in 1 .. Len(unacked[w]) : unacked[w][i].consumer <= consumers

(* While its channel is open, what a worker has in hand or still to read   *)
(* is unanswered on that channel, and is one or the other.                 *)
Owned(w) ==
  channel[w] = "open" =>
    /\ hand[w] # NoOrder => hand[w] \in Unacked(w) \ Told(w)
    /\ \A i \in 1 .. Len(unread[w]) :
         /\ unread[w][i] \in Unacked(w) \ (Told(w) \cup {hand[w]})
         /\ \A j \in 1 .. Len(unread[w]) : i # j => unread[w][i] # unread[w][j]

(* What the prefetch counts against a stream that goes on: still to be     *)
(* read, in hand or answered.                                              *)
Counted(w) ==
  channel[w] = "open" /\ at[w] \in {"waiting", "received", "packed"} =>
    \A i \in 1 .. Len(unacked[w]) : unacked[w][i].consumer = consumer[w] =>
      \/ \E j \in 1 .. Len(unread[w]) : unread[w][j] = unacked[w][i].order
      \/ unacked[w][i].order \in Told(w)
      \/ unacked[w][i].order = hand[w]

Working(w) == Phased(w) /\ Owned(w) /\ Counted(w)

(* An order is at most once on a channel, and then not in the queue.       *)
Single ==
  /\ \A w \in Workers : \A i \in 1 .. Len(unacked[w]) :
       unacked[w][i].order \in placed \ queue
  /\ \A v, w \in Workers : \A i \in 1 .. Len(unacked[v]), j \in 1 .. Len(unacked[w]) :
       unacked[v][i].order = unacked[w][j].order => v = w /\ i = j

(* Answers name one delivery each, held on a channel that is open.         *)
Answering ==
  \A a \in wire :
    /\ a.channel \in Workers /\ channel[a.channel] = "open" /\ ~a.multiple
    /\ a.order \in Unacked(a.channel)
    /\ \A b \in wire : b.channel = a.channel /\ b.order = a.order => b = a

(* Invariant by induction.                                                 *)
DeliveryInv == Shaped /\ Single /\ Answering /\ \A w \in Workers : Working(w)

(* What a worker that has packed holds was packed, and an answer on its    *)
(* way is an acknowledgement of an order that was packed, or the           *)
(* discarding of one that cannot be read, or a requeue.                    *)
Meant ==
  /\ \A w \in Workers : at[w] = "packed" => hand[w] \in packed
  /\ \A a \in wire :
       /\ a.answer = "ack" => a.order \in packed
       /\ a.answer = "discard" => form[a.order] = "unreadable"

(* Invariant by induction, beside DeliveryInv.                             *)
PackedInv == Meant /\ OnlyPackedAccepted

-----------------------------------------------------------------------------
(* The broker's end of a channel, as it speaks of orders.                  *)
LEMMA HeldOrders ==
  ASSUME Shaped, NEW w \in Workers PROVE OrdersOf(unacked[w]) = Unacked(w)
<1>1. DOMAIN unacked[w] = 1 .. Len(unacked[w])
  BY LenProperties DEF Shaped
<1>2. QED
  BY <1>1 DEF OrdersOf, Unacked

(* One taken out of a sequence.                                            *)
LEMMA TakenOut ==
  ASSUME NEW S, NEW s \in Seq(S), NEW n \in 1 .. Len(s)
  PROVE  LET rest == SubSeq(s, 1, n - 1) \o SubSeq(s, n + 1, Len(s)) IN
         /\ rest \in Seq(S) /\ Len(rest) = Len(s) - 1
         /\ \A i \in 1 .. Len(s) - 1 : rest[i] = s[IF i < n THEN i ELSE i + 1]
<1> DEFINE front == SubSeq(s, 1, n - 1)
           back == SubSeq(s, n + 1, Len(s))
<1>1. Len(s) \in Nat /\ \A i \in 1 .. Len(s) : s[i] \in S
  BY LenProperties, ElementOfSeq
<1>2. /\ front \in Seq(S) /\ Len(front) = n - 1
      /\ \A i \in 1 .. n - 1 : front[i] = s[i]
  <2>1. 1 \in Int /\ n - 1 \in Int /\ \A i \in 1 .. n - 1 : s[i] \in S
    BY <1>1
  <2>2. /\ front \in Seq(S) /\ Len(front) = IF 1 <= n - 1 THEN (n - 1) - 1 + 1 ELSE 0
        /\ \A i \in 1 .. (n - 1) - 1 + 1 : front[i] = s[1 + i - 1]
    BY <2>1, SubSeqProperties
  <2> HIDE DEF front
  <2>3. QED
    BY <1>1, <2>2
<1>3. /\ back \in Seq(S) /\ Len(back) = Len(s) - n
      /\ \A i \in 1 .. Len(s) - n : back[i] = s[n + i]
  <2>1. n + 1 \in Int /\ Len(s) \in Int /\ \A i \in n + 1 .. Len(s) : s[i] \in S
    BY <1>1
  <2>2. /\ back \in Seq(S)
        /\ Len(back) = IF n + 1 <= Len(s) THEN Len(s) - (n + 1) + 1 ELSE 0
        /\ \A i \in 1 .. Len(s) - (n + 1) + 1 : back[i] = s[(n + 1) + i - 1]
    BY <2>1, SubSeqProperties
  <2> HIDE DEF back
  <2>3. QED
    BY <1>1, <2>2
<1> HIDE DEF front, back
<1>4. /\ front \o back \in Seq(S) /\ Len(front \o back) = Len(front) + Len(back)
      /\ \A i \in 1 .. Len(front) + Len(back) :
           (front \o back)[i] = IF i <= Len(front) THEN front[i] ELSE back[i - Len(front)]
  BY <1>2, <1>3, ConcatProperties
<1>5. Len(front) + Len(back) = Len(s) - 1
  BY <1>1, <1>2, <1>3
<1>6. ASSUME NEW i \in 1 .. Len(s) - 1
      PROVE  (front \o back)[i] = s[IF i < n THEN i ELSE i + 1]
  <2>1. CASE i < n
    BY <1>1, <1>2, <1>4, <1>5, <2>1
  <2>2. CASE ~(i < n)
    <3>1. i - (n - 1) \in 1 .. Len(s) - n /\ n + (i - (n - 1)) = i + 1 /\ ~(i <= n - 1)
      BY <1>1, <2>2
    <3>2. (front \o back)[i] = back[i - (n - 1)]
      BY <1>2, <1>4, <1>5, <3>1
    <3>3. QED
      BY <1>3, <2>2, <3>1, <3>2
  <2>3. QED
    BY <2>1, <2>2
<1>7. QED
  BY <1>4, <1>5, <1>6 DEF front, back

(* What is on a channel is an order.                                       *)
LEMMA OnChannel ==
  ASSUME Shaped, NEW w \in Workers, NEW i \in 1 .. Len(unacked[w])
  PROVE  /\ unacked[w][i].order \in Orders /\ unacked[w][i].order # NoOrder
         /\ unacked[w][i].consumer \in Nat
<1>1. unacked[w] \in Seq([order : Orders, consumer : Nat])
  BY DEF Shaped
<1>2. unacked[w][i] \in [order : Orders, consumer : Nat]
  BY <1>1, ElementOfSeq
<1>3. QED
  BY <1>2, DispatchAssumption

(* Nothing is on any channel at first.                                     *)
LEMMA DeliveryInitial == Init => DeliveryInv
<1> SUFFICES ASSUME Init PROVE DeliveryInv
  OBVIOUS
<1>1. Shaped
  BY DEF Init, Shaped
<1>2. Single /\ Answering
  BY DEF Init, Single, Answering
<1>3. \A w \in Workers : Working(w)
  BY DEF Init, Working, Phased, Owned, Counted
<1>4. QED
  BY <1>1, <1>2, <1>3 DEF DeliveryInv

(* A worker whose channel and stream a step leaves alone.                  *)
LEMMA Untouched ==
  ASSUME Shaped, Shaped', NEW v \in Workers, Working(v),
         unacked'[v] = unacked[v], unread'[v] = unread[v], hand'[v] = hand[v],
         at'[v] = at[v], channel'[v] = channel[v], consumer'[v] = consumer[v],
         Told(v)' = Told(v), consumers <= consumers'
  PROVE  Working(v)'
<1>1. Unacked(v)' = Unacked(v)
  BY DEF Unacked
<1>2. Owned(v)' /\ Counted(v)'
  BY <1>1 DEF Working, Owned, Counted
<1>3. Phased(v)'
  <2>1. /\ consumers \in Nat /\ consumers' \in Nat /\ consumer[v] \in Nat
        /\ \A i \in 1 .. Len(unacked[v]) : unacked[v][i].consumer \in Nat
    BY OnChannel DEF Shaped
  <2>2. /\ consumer[v] <= consumers'
        /\ \A i \in 1 .. Len(unacked[v]) : unacked[v][i].consumer <= consumers'
    BY <2>1 DEF Working, Phased
  <2>3. QED
    BY <2>2 DEF Working, Phased
<1>4. QED
  BY <1>2, <1>3 DEF Working

(* A step of one worker that the broker has no part in.                    *)
LEMMA Local ==
  ASSUME DeliveryInv, Shaped', NEW w \in Workers,
         UNCHANGED <<placed, queue, unacked, wire>>, consumers <= consumers',
         \A v \in Workers \ {w} : /\ unread'[v] = unread[v] /\ hand'[v] = hand[v]
                                  /\ at'[v] = at[v] /\ channel'[v] = channel[v]
                                  /\ consumer'[v] = consumer[v],
         channel[w] = "open" => channel'[w] = "open",
         Working(w)'
  PROVE  DeliveryInv'
<1>1. \A v : Told(v)' = Told(v) /\ Unacked(v)' = Unacked(v)
  BY DEF Told, Unacked
<1>2. \A v \in Workers \ {w} : Working(v)'
  BY <1>1, Untouched DEF DeliveryInv
<1>3. Single'
  BY DEF DeliveryInv, Single
<1>4. Answering'
  BY <1>1 DEF DeliveryInv, Answering
<1>5. QED
  BY <1>2, <1>3, <1>4 DEF DeliveryInv

(* Publishing, by this program or another.                                 *)
LEMMA Placed ==
  ASSUME DeliveryInv, NEW o \in Orders, Place(o) \/ PlaceOther(o)
  PROVE  DeliveryInv'
<1> USE DEF brokerVars, channelVars, sendVars, resultVars
<1>1. /\ o \notin placed /\ placed' = placed \cup {o} /\ queue' \subseteq queue \cup {o}
      /\ UNCHANGED <<form, unacked, wire, channel, consumers, consumer, unread, at, hand>>
  BY DEF Place, PlaceOther, Publish
<1>2. Shaped'
  BY <1>1 DEF DeliveryInv, Shaped
<1>3. Single'
  BY <1>1 DEF DeliveryInv, Single
<1>4. \A v : Told(v)' = Told(v) /\ Unacked(v)' = Unacked(v)
  BY <1>1 DEF Told, Unacked
<1>5. Answering'
  BY <1>1, <1>4 DEF DeliveryInv, Answering
<1>6. consumers <= consumers'
  BY <1>1 DEF DeliveryInv, Shaped
<1>7. \A v \in Workers : Working(v)'
  BY <1>1, <1>2, <1>4, <1>6, Untouched DEF DeliveryInv
<1>8. QED
  BY <1>2, <1>3, <1>5, <1>7 DEF DeliveryInv

(* A channel or connection that is opened or closed with nothing on it.    *)
LEMMA Connected ==
  ASSUME DeliveryInv, NEW w \in Workers, Connect(w) \/ Open(w) \/ disconnect(w)
  PROVE  DeliveryInv'
<1> USE DEF brokerVars, channelVars, sendVars, resultVars
<1>1. /\ channel[w] \notin {"open", "gone"}
      /\ \E c \in {"none", "connected", "open"} : channel' = [channel EXCEPT ![w] = c]
      /\ UNCHANGED <<form, placed, queue, unacked, wire, consumers, consumer, unread, at, hand>>
  BY DEF Connect, Open, disconnect
<1>2. Shaped'
  BY <1>1, ZenonT(40) DEF DeliveryInv, Shaped
<1>3. at[w] = "idle" /\ unread[w] = <<>> /\ hand[w] = NoOrder /\ unacked[w] = <<>>
  BY <1>1 DEF DeliveryInv, Shaped, Working, Phased
<1>4. Working(w)'
  BY <1>1, <1>3 DEF DeliveryInv, Working, Phased, Owned, Counted
<1>5. consumers <= consumers'
  BY <1>1 DEF DeliveryInv, Shaped
<1>6. QED
  BY <1>1, <1>2, <1>4, <1>5, Local DEF DeliveryInv, Shaped

(* A subscription is opened under a number nothing on the channel has, and *)
(* closed.                                                                 *)
LEMMA Subscribed ==
  ASSUME DeliveryInv, NEW w \in Workers, subscribe(w) \/ unsubscribe(w)
  PROVE  DeliveryInv'
<1> USE DEF brokerVars, channelVars, sendVars, resultVars
<1>1. CASE subscribe(w)
  <2>1. /\ at[w] = "idle" /\ channel[w] = "open" /\ consumers' = consumers + 1
        /\ consumer' = [consumer EXCEPT ![w] = consumers + 1]
        /\ unread' = [unread EXCEPT ![w] = <<>>] /\ at' = [at EXCEPT ![w] = "waiting"]
        /\ UNCHANGED <<form, placed, queue, unacked, wire, channel, hand>>
    BY <1>1 DEF subscribe, Consume
  <2>2. Shaped' /\ consumers <= consumers'
    <3>1. /\ unread' \in [Workers -> Seq(Orders)]
          /\ at' \in [Workers -> {"idle", "waiting", "received", "packed", "closing"}]
          /\ consumer' \in [Workers -> Nat] /\ consumers' \in Nat /\ consumers <= consumers'
          /\ hand' \in [Workers -> Orders \cup {NoOrder}]
      BY <2>1 DEF DeliveryInv, Shaped
    <3>2. QED
      BY <2>1, <3>1 DEF DeliveryInv, Shaped
  <2>3. /\ consumers \in Nat
        /\ \A i \in 1 .. Len(unacked[w]) :
             unacked[w][i].consumer \in Nat /\ unacked[w][i].consumer <= consumers
    BY OnChannel DEF DeliveryInv, Shaped, Working, Phased
  <2>4. /\ unread'[w] = <<>> /\ hand'[w] = NoOrder /\ at'[w] = "waiting"
        /\ consumer'[w] = consumers + 1
    BY <2>1 DEF DeliveryInv, Shaped, Working, Phased
  <2>5. /\ \A i \in 1 .. Len(unacked[w]) :
             unacked[w][i].consumer # consumers + 1 /\ unacked[w][i].consumer <= consumers + 1
    BY <2>3
  <2>6. Working(w)'
    BY <2>1, <2>3, <2>4, <2>5 DEF Working, Phased, Owned, Counted
  <2>7. QED
    BY <2>1, <2>2, <2>6, Local DEF DeliveryInv, Shaped
<1>2. CASE unsubscribe(w)
  <2>1. /\ at[w] = "closing" /\ consumer' = [consumer EXCEPT ![w] = 0]
        /\ unread' = [unread EXCEPT ![w] = <<>>] /\ at' = [at EXCEPT ![w] = "idle"]
        /\ hand' = [hand EXCEPT ![w] = NoOrder]
        /\ UNCHANGED <<form, placed, queue, unacked, wire, channel, consumers>>
    BY <1>2 DEF unsubscribe, Close
  <2>2. Shaped' /\ consumers <= consumers'
    <3>1. /\ unread' \in [Workers -> Seq(Orders)]
          /\ at' \in [Workers -> {"idle", "waiting", "received", "packed", "closing"}]
          /\ consumer' \in [Workers -> Nat] /\ consumers' \in Nat /\ consumers <= consumers'
          /\ hand' \in [Workers -> Orders \cup {NoOrder}]
      BY <2>1 DEF DeliveryInv, Shaped
    <3>2. QED
      BY <2>1, <3>1 DEF DeliveryInv, Shaped
  <2>3. /\ unread'[w] = <<>> /\ hand'[w] = NoOrder /\ at'[w] = "idle" /\ consumer'[w] = 0
        /\ consumers \in Nat
    BY <2>1 DEF DeliveryInv, Shaped
  <2>4. Working(w)'
    BY <2>1, <2>3 DEF DeliveryInv, Working, Phased, Owned, Counted
  <2>5. QED
    BY <2>1, <2>2, <2>4, Local DEF DeliveryInv, Shaped
<1>3. QED
  BY <1>1, <1>2

(* A delivery is read from the Go channel.                                 *)
LEMMA ReadNext ==
  ASSUME DeliveryInv, NEW w \in Workers, NextDelivery(w)
  PROVE  DeliveryInv'
<1> USE DEF brokerVars, channelVars, sendVars, resultVars
<1> DEFINE s == unread[w]
           o == Head(s)
<1>1. /\ at[w] = "waiting" /\ s # <<>> /\ unread' = [unread EXCEPT ![w] = Tail(@)]
      /\ \/ /\ at' = [at EXCEPT ![w] = "received"] /\ hand' = [hand EXCEPT ![w] = o]
         \/ at' = [at EXCEPT ![w] = "closing"] /\ UNCHANGED hand
      /\ UNCHANGED <<form, placed, queue, unacked, wire, channel, consumers, consumer>>
  BY DEF NextDelivery
<1>2. /\ o \in Orders /\ Tail(s) \in Seq(Orders) /\ o = s[1] /\ Len(s) \in Nat /\ Len(s) > 0
      /\ Len(Tail(s)) = Len(s) - 1
      /\ \A i \in 1 .. Len(s) - 1 : Tail(s)[i] = s[i + 1]
  BY <1>1, HeadTailProperties, EmptySeq, LenProperties DEF DeliveryInv, Shaped
<1>3. /\ unread'[w] = Tail(s) /\ hand[w] = NoOrder /\ o # NoOrder
      /\ \/ at'[w] = "received" /\ hand'[w] = o
         \/ at'[w] = "closing" /\ hand'[w] = NoOrder
  BY <1>1, <1>2, DispatchAssumption DEF DeliveryInv, Shaped, Working, Phased
<1>4. Shaped' /\ consumers <= consumers'
  <2>1. /\ unread' \in [Workers -> Seq(Orders)]
        /\ at' \in [Workers -> {"idle", "waiting", "received", "packed", "closing"}]
        /\ hand' \in [Workers -> Orders \cup {NoOrder}]
    BY <1>1, <1>2, ZenonT(40) DEF DeliveryInv, Shaped
  <2>2. Shaped'
    BY <1>1, <2>1 DEF DeliveryInv, Shaped
  <2>3. consumers <= consumers'
    BY <1>1 DEF DeliveryInv, Shaped
  <2>4. QED
    BY <2>2, <2>3
<1> HIDE DEF o
<1>5. Told(w)' = Told(w) /\ Unacked(w)' = Unacked(w)
  BY <1>1 DEF Told, Unacked
<1>6. Phased(w)'
  BY <1>1, <1>3 DEF DeliveryInv, Working, Phased
<1>7. Owned(w)'
  <2> SUFFICES ASSUME channel[w] = "open"
               PROVE  /\ hand'[w] # NoOrder => hand'[w] \in Unacked(w) \ Told(w)
                      /\ \A i \in 1 .. Len(Tail(s)) :
                           /\ Tail(s)[i] \in Unacked(w) \ (Told(w) \cup {hand'[w]})
                           /\ \A j \in 1 .. Len(Tail(s)) : i # j => Tail(s)[i] # Tail(s)[j]
    <3>1. UNCHANGED channel /\ unread'[w] = Tail(s)
      BY <1>1, <1>3
    <3> HIDE DEF s
    <3>2. QED
      BY <1>5, <3>1 DEF Owned
  <2>1. \A i \in 1 .. Len(s) :
          /\ s[i] \in Unacked(w) \ Told(w)
          /\ \A j \in 1 .. Len(s) : i # j => s[i] # s[j]
    BY DEF DeliveryInv, Working, Owned
  <2>2. 1 \in 1 .. Len(s) /\ \A i \in 1 .. Len(Tail(s)) : i + 1 \in 1 .. Len(s) /\ i + 1 # 1
    BY <1>2
  <2>3. \A i \in 1 .. Len(Tail(s)) :
          /\ Tail(s)[i] \in Unacked(w) \ Told(w) /\ Tail(s)[i] # o
          /\ \A j \in 1 .. Len(Tail(s)) : i # j => Tail(s)[i] # Tail(s)[j]
    BY <1>2, <2>1, <2>2
  <2>4. \A i \in 1 .. Len(Tail(s)) : Tail(s)[i] # NoOrder
    BY <1>2, ElementOfSeq, DispatchAssumption
  <2>5. o \in Unacked(w) \ Told(w)
    BY <1>2, <2>1, <2>2
  <2>6. QED
    BY <1>3, <2>3, <2>4, <2>5
<1>8. Counted(w)'
  <2> SUFFICES ASSUME channel[w] = "open", at'[w] = "received", hand'[w] = o,
                      NEW i \in 1 .. Len(unacked[w]), unacked[w][i].consumer = consumer[w]
               PROVE  \/ \E j \in 1 .. Len(Tail(s)) : Tail(s)[j] = unacked[w][i].order
                      \/ unacked[w][i].order \in Told(w)
                      \/ unacked[w][i].order = o
    <3>1. UNCHANGED <<channel, consumer, unacked>> /\ unread'[w] = Tail(s)
      BY <1>1, <1>3
    <3>2. at'[w] \in {"waiting", "received", "packed"} => at'[w] = "received" /\ hand'[w] = o
      BY <1>3
    <3> HIDE DEF s
    <3>3. QED
      BY <1>5, <3>1, <3>2 DEF Counted
  <2>1. \/ \E j \in 1 .. Len(s) : s[j] = unacked[w][i].order
        \/ unacked[w][i].order \in Told(w)
        \/ unacked[w][i].order = NoOrder
    BY <1>1, <1>3 DEF DeliveryInv, Working, Counted
  <2>2. unacked[w][i].order # NoOrder
    BY OnChannel DEF DeliveryInv
  <2>3. ASSUME NEW j \in 1 .. Len(s), s[j] # o PROVE \E k \in 1 .. Len(Tail(s)) : Tail(s)[k] = s[j]
    <3>1. j - 1 \in 1 .. Len(s) - 1 /\ (j - 1) + 1 = j
      BY <1>2, <2>3
    <3>2. Tail(s)[j - 1] = s[j]
      BY <1>2, <3>1
    <3>3. QED
      BY <1>2, <3>1, <3>2
  <2>4. QED
    BY <2>1, <2>2, <2>3
<1>9. QED
  BY <1>1, <1>4, <1>6, <1>7, <1>8, Local DEF DeliveryInv, Shaped, Working

(* A stream that stops, packs, or fails for want of a channel.             *)
LEMMA GoesOn ==
  ASSUME DeliveryInv, NEW w \in Workers, NEW where \in {"packed", "closing"},
         at' = [at EXCEPT ![w] = where], at[w] # "idle",
         where = "packed" => at[w] = "received",
         UNCHANGED <<form, placed, queue, unacked, wire, channel, consumers, consumer, unread, hand>>
  PROVE  DeliveryInv'
<1>1. Shaped' /\ consumers <= consumers' /\ at'[w] = where
  <2>1. /\ at' \in [Workers -> {"idle", "waiting", "received", "packed", "closing"}]
        /\ at'[w] = where
    BY DEF DeliveryInv, Shaped
  <2>2. Shaped'
    BY <2>1 DEF DeliveryInv, Shaped
  <2>3. consumers <= consumers'
    BY DEF DeliveryInv, Shaped
  <2>4. QED
    BY <2>1, <2>2, <2>3
<1>2. Told(w)' = Told(w) /\ Unacked(w)' = Unacked(w)
  BY DEF Told, Unacked
<1>3. Phased(w)' /\ Owned(w)' /\ Counted(w)'
  BY <1>1, <1>2 DEF DeliveryInv, Working, Phased, Owned, Counted
<1>4. QED
  BY <1>1, <1>3, Local DEF DeliveryInv, Shaped, Working

(* An answer is written about the order in hand, which nobody has answered. *)
LEMMA Answers ==
  ASSUME DeliveryInv, NEW w \in Workers, NEW answer, Written(w, answer, FALSE), Answered(w),
         channel[w] = "open", at[w] \in {"received", "packed"},
         UNCHANGED <<form, placed, queue, unacked, channel, consumers, consumer, unread>>
  PROVE  DeliveryInv'
<1> PICK o : o = hand[w]
  OBVIOUS
<1> DEFINE new == [channel |-> w, order |-> o, answer |-> answer, multiple |-> FALSE]
<1>1. /\ wire' = wire \cup {new} /\ new.channel = w /\ new.order = o /\ ~new.multiple
      /\ at' = [at EXCEPT ![w] = "waiting"] /\ hand' = [hand EXCEPT ![w] = NoOrder]
  BY DEF Written, Answered
<1> HIDE DEF new
<1>2. Shaped'
  <2>1. /\ at' \in [Workers -> {"idle", "waiting", "received", "packed", "closing"}]
        /\ hand' \in [Workers -> Orders \cup {NoOrder}]
    BY <1>1 DEF DeliveryInv, Shaped
  <2>2. QED
    BY <2>1 DEF DeliveryInv, Shaped
<1>3. consumers <= consumers'
  BY DEF DeliveryInv, Shaped
<1>4. at'[w] = "waiting" /\ hand'[w] = NoOrder
  BY <1>1 DEF DeliveryInv, Shaped
<1>5. o # NoOrder /\ o \in Unacked(w) /\ o \notin Told(w)
  BY DEF DeliveryInv, Working, Phased, Owned
<1>6. /\ Told(w)' = Told(w) \cup {o} /\ \A v : Unacked(v)' = Unacked(v)
      /\ \A v \in Workers \ {w} : Told(v)' = Told(v)
  BY <1>1 DEF Told, Unacked
<1>7. \A v \in Workers \ {w} : Working(v)'
  <2>1. \A v \in Workers \ {w} : at'[v] = at[v] /\ hand'[v] = hand[v]
    BY <1>1 DEF DeliveryInv, Shaped
  <2>2. QED
    BY <1>2, <1>3, <1>6, <2>1, Untouched DEF DeliveryInv
<1>8. Working(w)'
  <2>1. Phased(w)'
    BY <1>4 DEF DeliveryInv, Working, Phased
  <2>2. Owned(w)'
    <3>1. \A i \in 1 .. Len(unread[w]) :
            /\ unread[w][i] \in Unacked(w) \ (Told(w) \cup {o})
            /\ \A j \in 1 .. Len(unread[w]) : i # j => unread[w][i] # unread[w][j]
      BY DEF DeliveryInv, Working, Owned
    <3>2. \A i \in 1 .. Len(unread[w]) : unread[w][i] # NoOrder
      BY ElementOfSeq, DispatchAssumption DEF DeliveryInv, Shaped
    <3>3. QED
      BY <1>4, <1>6, <3>1, <3>2 DEF Owned
  <2>3. Counted(w)'
    BY <1>4, <1>6 DEF DeliveryInv, Working, Counted
  <2>4. QED
    BY <2>1, <2>2, <2>3 DEF Working
<1>9. Single'
  BY DEF DeliveryInv, Single
<1>10. Answering'
  <2>1. \A a \in wire : a.channel = w => a.order # o
    BY <1>5 DEF Told
  <2>2. QED
    BY <1>1, <1>5, <1>6, <2>1 DEF DeliveryInv, Answering
<1>11. QED
  BY <1>2, <1>7, <1>8, <1>9, <1>10 DEF DeliveryInv

(* A channel that ends, with what was on it back in the queue.             *)
LEMMA ChannelEnds ==
  ASSUME DeliveryInv, NEW w \in Workers, Lose(w) \/ closeChannel(w)
  PROVE  DeliveryInv'
<1> USE DEF brokerVars, channelVars, sendVars, resultVars
<1>1. /\ wire' = {a \in wire : a.channel # w}
      /\ queue' = queue \cup Unacked(w)
      /\ unacked' = [unacked EXCEPT ![w] = <<>>]
      /\ UNCHANGED <<form, placed, consumers, unread, at, hand>>
  <2>1. queue' = queue \cup OrdersOf(unacked[w])
    BY DEF Lose, closeChannel
  <2>2. wire' = {a \in wire : a.channel # w}
    BY DEF Lose, closeChannel
  <2>3. QED
    BY <2>1, <2>2, HeldOrders DEF DeliveryInv, Lose, closeChannel
<1>2. /\ \/ channel' = [channel EXCEPT ![w] = "gone"]
         \/ channel' = [channel EXCEPT ![w] = "connected"] /\ at[w] = "idle"
      /\ channel[w] \in {"open", "gone"}
      /\ consumer' \in {consumer, [consumer EXCEPT ![w] = 0]}
  BY DEF Lose, closeChannel
<1>3. Shaped'
  <2>1. Unacked(w) \subseteq placed
    BY DEF DeliveryInv, Single, Unacked
  <2>2. unacked' \in [Workers -> Seq([order : Orders, consumer : Nat])]
    <3>1. <<>> \in Seq([order : Orders, consumer : Nat])
      BY EmptySeq
    <3>2. QED
      BY <1>1, <3>1 DEF DeliveryInv, Shaped
  <2>3. consumer' \in [Workers -> Nat]
    BY <1>2 DEF DeliveryInv, Shaped
  <2>4. channel' \in [Workers -> {"none", "connected", "open", "gone"}]
    BY <1>2 DEF DeliveryInv, Shaped
  <2>5. QED
    BY <1>1, <2>1, <2>2, <2>3, <2>4 DEF DeliveryInv, Shaped
<1>4. consumers <= consumers'
  BY <1>1 DEF DeliveryInv, Shaped
<1>5. /\ unacked'[w] = <<>> /\ channel'[w] # "open"
      /\ channel'[w] = "gone" \/ at[w] = "idle"
      /\ consumer'[w] \in {0, consumer[w]}
      /\ \A v \in Workers \ {w} : /\ unacked'[v] = unacked[v] /\ channel'[v] = channel[v]
                                  /\ consumer'[v] = consumer[v]
  BY <1>1, <1>2 DEF DeliveryInv, Shaped
<1>6. \A v \in Workers \ {w} : Told(v)' = Told(v) /\ Unacked(v)' = Unacked(v)
  BY <1>1, <1>5 DEF Told, Unacked
<1>7. \A v \in Workers \ {w} : Working(v)'
  BY <1>1, <1>3, <1>4, <1>5, <1>6, Untouched DEF DeliveryInv
<1>8. Working(w)'
  <2>1. Phased(w)'
    <3>1. consumer'[w] <= consumers
      BY <1>5 DEF DeliveryInv, Shaped, Working, Phased
    <3>2. QED
      BY <1>1, <1>5, <3>1 DEF DeliveryInv, Working, Phased
  <2>2. QED
    BY <1>5, <2>1 DEF Working, Owned, Counted
<1>9. Single'
  <2>1. \A v \in Workers \ {w} : \A i \in 1 .. Len(unacked[v]) : unacked[v][i].order \notin Unacked(w)
    BY DEF DeliveryInv, Single, Unacked
  <2>2. Len(unacked'[w]) = 0
    BY <1>5
  <2>3. \A v \in Workers : \A i \in 1 .. Len(unacked'[v]) :
          v # w /\ unacked'[v] = unacked[v] /\ i \in 1 .. Len(unacked[v])
    BY <1>5, <2>2
  <2>4. QED
    BY <1>1, <2>1, <2>3 DEF DeliveryInv, Single
<1>10. Answering'
  BY <1>1, <1>5, <1>6 DEF DeliveryInv, Answering
<1>11. QED
  BY <1>3, <1>7, <1>8, <1>9, <1>10 DEF DeliveryInv

(* The broker pushes an order to a consumer.                               *)
LEMMA Pushed ==
  ASSUME DeliveryInv, NEW w \in Workers, NEW o \in Orders, Push(w, o)
  PROVE  DeliveryInv'
<1> USE DEF brokerVars, channelVars, sendVars, resultVars
<1> DEFINE held == unacked[w]
           s == unread[w]
           new == [order |-> o, consumer |-> consumer[w]]
<1>1. /\ channel[w] = "open" /\ consumer[w] # 0 /\ o \in queue /\ queue' = queue \ {o}
      /\ unacked' = [unacked EXCEPT ![w] = Append(held, new)]
      /\ unread' = [unread EXCEPT ![w] = Append(s, o)]
      /\ UNCHANGED <<form, placed, wire, channel, consumers, consumer, at, hand>>
  BY DEF Push
<1>2. /\ new \in [order : Orders, consumer : Nat] /\ new.order = o
      /\ new.consumer = consumer[w] /\ held \in Seq([order : Orders, consumer : Nat])
      /\ s \in Seq(Orders) /\ Len(held) \in Nat /\ Len(s) \in Nat
  BY LenProperties DEF DeliveryInv, Shaped
<1>3. /\ unacked'[w] = Append(held, new) /\ unread'[w] = Append(s, o)
      /\ \A v \in Workers \ {w} : unacked'[v] = unacked[v] /\ unread'[v] = unread[v]
  BY <1>1 DEF DeliveryInv, Shaped
<1> HIDE DEF new, held, s
<1>4. /\ unacked'[w] \in Seq([order : Orders, consumer : Nat])
      /\ Len(unacked'[w]) = Len(held) + 1 /\ unacked'[w][Len(held) + 1] = new
      /\ \A i \in 1 .. Len(held) : unacked'[w][i] = held[i]
  BY <1>2, <1>3, AppendProperties
<1>5. /\ unread'[w] \in Seq(Orders) /\ Len(unread'[w]) = Len(s) + 1
      /\ unread'[w][Len(s) + 1] = o
      /\ \A i \in 1 .. Len(s) : unread'[w][i] = s[i]
  BY <1>2, <1>3, AppendProperties
<1>6. \A i \in 1 .. Len(held) + 1 : i \in 1 .. Len(held) \/ i = Len(held) + 1
  BY <1>2
<1>7. \A i \in 1 .. Len(s) + 1 : i \in 1 .. Len(s) \/ i = Len(s) + 1
  BY <1>2
<1>8. Len(held) + 1 \in 1 .. Len(held) + 1 /\ 1 .. Len(held) \subseteq 1 .. Len(held) + 1
  BY <1>2
<1>9. Shaped'
  <2>1. unacked' \in [Workers -> Seq([order : Orders, consumer : Nat])]
    BY <1>1, <1>3, <1>4 DEF DeliveryInv, Shaped
  <2>2. unread' \in [Workers -> Seq(Orders)]
    BY <1>1, <1>3, <1>5 DEF DeliveryInv, Shaped
  <2>3. queue' \subseteq placed
    BY <1>1 DEF DeliveryInv, Shaped
  <2>4. QED
    BY <1>1, <2>1, <2>2, <2>3 DEF DeliveryInv, Shaped
<1>10. consumers <= consumers'
  BY <1>1 DEF DeliveryInv, Shaped
<1>11. /\ \A v : Told(v)' = Told(v) 
       /\ \A v \in Workers \ {w} : Unacked(v)' = Unacked(v)
  BY <1>1, <1>3 DEF Told, Unacked
<1>12. Unacked(w)' = Unacked(w) \cup {o}
  <2>1. Unacked(w) = {held[i].order : i \in 1 .. Len(held)}
    BY DEF Unacked, held
  <2>2. Unacked(w)' = {unacked'[w][i].order : i \in 1 .. Len(held) + 1}
    BY <1>4 DEF Unacked
  <2>3. QED
    BY <1>2, <1>4, <1>6, <1>8, <2>1, <2>2
<1>13. \A v \in Workers : o \notin Unacked(v)
  BY <1>1 DEF DeliveryInv, Single, Unacked
<1>14. o \notin Told(w) /\ o # hand[w]
  BY <1>1, <1>13, DispatchAssumption DEF DeliveryInv, Answering, Told, Working, Owned
<1>15. \A v \in Workers \ {w} : Working(v)'
  BY <1>1, <1>3, <1>9, <1>10, <1>11, Untouched DEF DeliveryInv
<1>16. Working(w)'
  <2>1. Phased(w)'
    <3>1. at[w] # "idle"
      BY <1>1 DEF DeliveryInv, Working, Phased
    <3>2. \A i \in 1 .. Len(held) + 1 : unacked'[w][i].consumer <= consumers
      BY <1>2, <1>4, <1>6 DEF DeliveryInv, Working, Phased, held
    <3>3. QED
      BY <1>1, <1>4, <3>1, <3>2 DEF DeliveryInv, Working, Phased
  <2>2. Owned(w)'
    <3>1. \A i \in 1 .. Len(s) :
            /\ s[i] \in Unacked(w) \ (Told(w) \cup {hand[w]})
            /\ \A j \in 1 .. Len(s) : i # j => s[i] # s[j]
      BY <1>1 DEF DeliveryInv, Working, Owned, s
    <3>2. \A i \in 1 .. Len(s) : s[i] # o
      BY <1>13, <3>1
    <3>3. \A i \in 1 .. Len(s) + 1 :
            /\ unread'[w][i] \in Unacked(w)' \ (Told(w) \cup {hand[w]})
            /\ \A j \in 1 .. Len(s) + 1 : i # j => unread'[w][i] # unread'[w][j]
      BY <1>5, <1>7, <1>12, <1>14, <3>1, <3>2
    <3>4. hand[w] # NoOrder => hand[w] \in Unacked(w)' \ Told(w)
      BY <1>1, <1>12 DEF DeliveryInv, Working, Owned
    <3>5. QED
      BY <1>1, <1>5, <1>11, <3>3, <3>4 DEF Owned
  <2>3. Counted(w)'
    <3> SUFFICES ASSUME at[w] \in {"waiting", "received", "packed"},
                        NEW i \in 1 .. Len(held) + 1, unacked'[w][i].consumer = consumer[w]
                 PROVE  \/ \E j \in 1 .. Len(s) + 1 : unread'[w][j] = unacked'[w][i].order
                        \/ unacked'[w][i].order \in Told(w)
                        \/ unacked'[w][i].order = hand[w]
      BY <1>1, <1>4, <1>5, <1>11, ZenonT(40) DEF Counted
    <3>1. CASE i = Len(held) + 1
      <4>1. Len(s) + 1 \in 1 .. Len(s) + 1
        BY <1>2
      <4>2. QED
        BY <1>2, <1>4, <1>5, <3>1, <4>1
    <3>2. CASE i \in 1 .. Len(held)
      <4>1. \/ \E j \in 1 .. Len(s) : s[j] = held[i].order
            \/ held[i].order \in Told(w)
            \/ held[i].order = hand[w]
        BY <1>1, <1>4, <3>2 DEF DeliveryInv, Working, Counted, held, s
      <4>2. \A j \in 1 .. Len(s) : j \in 1 .. Len(s) + 1
        BY <1>2
      <4>3. QED
        BY <1>4, <1>5, <3>2, <4>1, <4>2
    <3>3. QED
      BY <1>6, <3>1, <3>2
  <2>4. QED
    BY <2>1, <2>2, <2>3 DEF Working
<1>17. Single'
  <2>1. \A v \in Workers : \A i \in 1 .. Len(unacked[v]) :
          unacked[v][i].order \in placed \ queue /\ unacked[v][i].order # o
    BY <1>1 DEF DeliveryInv, Single
  <2>2. \A i \in 1 .. Len(held) + 1 : unacked'[w][i].order \in placed \ queue'
    BY <1>1, <1>2, <1>4, <1>6, <2>1 DEF DeliveryInv, Shaped, held
  <2>3. \A v \in Workers : \A i \in 1 .. Len(unacked'[v]) :
          unacked'[v][i].order \in placed \ queue'
    BY <1>1, <1>3, <1>4, <2>1, <2>2
  <2>4. ASSUME NEW u \in Workers, NEW v \in Workers,
               NEW i \in 1 .. Len(unacked'[u]), NEW j \in 1 .. Len(unacked'[v]),
               unacked'[u][i].order = unacked'[v][j].order
        PROVE  u = v /\ i = j
    <3>1. \/ u = w /\ i = Len(held) + 1 /\ unacked'[u][i].order = o
          \/ i \in 1 .. Len(unacked[u]) /\ unacked'[u][i].order = unacked[u][i].order
      BY <1>2, <1>3, <1>4, <1>6 DEF held
    <3>2. \/ v = w /\ j = Len(held) + 1 /\ unacked'[v][j].order = o
          \/ j \in 1 .. Len(unacked[v]) /\ unacked'[v][j].order = unacked[v][j].order
      BY <1>2, <1>3, <1>4, <1>6 DEF held
    <3>3. QED
      BY <2>1, <2>4, <3>1, <3>2 DEF DeliveryInv, Single
  <2>5. QED
    BY <1>1, <2>3, <2>4 DEF Single
<1>18. Answering'
  BY <1>1, <1>11, <1>12 DEF DeliveryInv, Answering
<1>19. QED
  BY <1>9, <1>15, <1>16, <1>17, <1>18 DEF DeliveryInv

(* What applying an answer does: the one delivery it names is settled.     *)
LEMMA AppliesToOne ==
  ASSUME DeliveryInv, NEW a \in wire, Apply(a)
  PROVE  LET held == unacked[a.channel] IN
         \E n \in 1 .. Len(held) :
           /\ held[n].order = a.order
           /\ wire' = wire \ {a}
           /\ unacked' = [unacked EXCEPT ![a.channel] =
                            SubSeq(held, 1, n - 1) \o SubSeq(held, n + 1, Len(held))]
           /\ accepted' = IF a.answer = "ack" THEN accepted \cup {a.order} ELSE accepted
           /\ dropped' = IF a.answer = "discard" THEN dropped \cup {a.order} ELSE dropped
           /\ queue' = IF a.answer = "requeue" THEN queue \cup {a.order} ELSE queue
           /\ UNCHANGED <<placed, form, channel, consumers, consumer, unread, at, hand,
                          packed, emitted>>
<1> DEFINE held == unacked[a.channel]
<1>1. a.channel \in Workers /\ ~a.multiple
  BY DEF DeliveryInv, Answering
<1>2. /\ held \in Seq([order : Orders, consumer : Nat]) /\ DOMAIN held = 1 .. Len(held)
      /\ Len(held) \in Nat
  BY <1>1, LenProperties DEF DeliveryInv, Shaped
<1>3. PICK n \in 1 .. Len(held) :
        /\ held[n].order = a.order
        /\ wire' = wire \ {a}
        /\ unacked' = [unacked EXCEPT ![a.channel] =
                         SubSeq(@, 1, n - 1) \o SubSeq(@, n + 1, Len(@))]
        /\ accepted' = IF a.answer = "ack" THEN accepted \cup OrdersOf(SubSeq(held, n, n)) ELSE accepted
        /\ dropped' = IF a.answer = "discard" THEN dropped \cup OrdersOf(SubSeq(held, n, n)) ELSE dropped
        /\ queue' = IF a.answer = "requeue" THEN queue \cup OrdersOf(SubSeq(held, n, n)) ELSE queue
        /\ UNCHANGED <<sendVars, offers, channelVars, at, hand, resultVars>>
  BY <1>1, <1>2, Zenon DEF Apply
<1>4. OrdersOf(SubSeq(held, n, n)) = {a.order}
  <2> HIDE DEF held
  <2>0. n \in 1 .. Len(held) /\ n \in Int /\ \A i \in n .. n : i = n
    BY <1>2, <1>3
  <2>1. \A i \in n .. n : held[i] \in [order : Orders, consumer : Nat]
    BY <1>2, <2>0, ElementOfSeq
  <2>2. /\ SubSeq(held, n, n) \in Seq([order : Orders, consumer : Nat])
        /\ Len(SubSeq(held, n, n)) = IF n <= n THEN n - n + 1 ELSE 0
        /\ \A i \in 1 .. n - n + 1 : SubSeq(held, n, n)[i] = held[n + i - 1]
    BY <2>0, <2>1, SubSeqProperties
  <2> PICK one : one = SubSeq(held, n, n)
    OBVIOUS
  <2>3. one \in Seq([order : Orders, consumer : Nat]) /\ Len(one) = 1 /\ one[1] = held[n]
    <3>1. n <= n /\ n - n + 1 = 1 /\ 1 \in 1 .. n - n + 1 /\ n + 1 - 1 = n
      BY <2>0
    <3>2. QED
      BY <2>2, <3>1
  <2>4. DOMAIN one = {1}
    BY <2>3, LenProperties
  <2>5. QED
    BY <1>3, <2>3, <2>4 DEF OrdersOf
<1>5. QED
  BY <1>2, <1>3, <1>4 DEF sendVars, channelVars, resultVars

(* The broker does what an answer says.                                    *)
LEMMA Applied ==
  ASSUME DeliveryInv, NEW a \in wire, Apply(a)
  PROVE  DeliveryInv'
<1> PICK w \in Workers : w = a.channel
  BY DEF DeliveryInv, Answering
<1> PICK o : o = a.order
  OBVIOUS
<1> DEFINE held == unacked[w]
<1>1. PICK n \in 1 .. Len(held) :
        /\ held[n].order = o /\ wire' = wire \ {a}
        /\ unacked' = [unacked EXCEPT ![w] =
                         SubSeq(held, 1, n - 1) \o SubSeq(held, n + 1, Len(held))]
        /\ queue' \subseteq queue \cup {o}
        /\ UNCHANGED <<placed, form, channel, consumers, consumer, unread, at, hand>>
  BY AppliesToOne, Zenon
<1>2. held \in Seq([order : Orders, consumer : Nat]) /\ Len(held) \in Nat
  BY LenProperties DEF DeliveryInv, Shaped
<1>3. /\ unacked'[w] \in Seq([order : Orders, consumer : Nat])
      /\ Len(unacked'[w]) = Len(held) - 1
      /\ \A i \in 1 .. Len(held) - 1 : unacked'[w][i] = held[IF i < n THEN i ELSE i + 1]
      /\ \A v \in Workers \ {w} : unacked'[v] = unacked[v]
  <2>1. /\ unacked'[w] = SubSeq(held, 1, n - 1) \o SubSeq(held, n + 1, Len(held))
        /\ \A v \in Workers \ {w} : unacked'[v] = unacked[v]
    BY <1>1 DEF DeliveryInv, Shaped
  <2> HIDE DEF held
  <2>2. LET rest == SubSeq(held, 1, n - 1) \o SubSeq(held, n + 1, Len(held)) IN
        /\ rest \in Seq([order : Orders, consumer : Nat]) /\ Len(rest) = Len(held) - 1
        /\ \A i \in 1 .. Len(held) - 1 : rest[i] = held[IF i < n THEN i ELSE i + 1]
    BY <1>2, TakenOut
  <2>3. QED
    BY <2>1, <2>2, Zenon
<1>4. \A v \in Workers : \A i \in 1 .. Len(unacked'[v]) :
        LET k == IF v = w /\ i >= n THEN i + 1 ELSE i IN
        k \in 1 .. Len(unacked[v]) /\ unacked'[v][i] = unacked[v][k] /\ ~(v = w /\ k = n)
  <2>1. \A i \in 1 .. Len(held) - 1 :
          LET k == IF i >= n THEN i + 1 ELSE i IN
          k \in 1 .. Len(held) /\ unacked'[w][i] = held[k] /\ k # n
    BY <1>2, <1>3
  <2>2. QED
    BY <1>3, <2>1
<1>5. \A v \in Workers : \A k \in 1 .. Len(unacked[v]) :
        unacked[v][k].order = o => v = w /\ k = n
  BY <1>1 DEF DeliveryInv, Single
<1>6. Unacked(w)' = Unacked(w) \ {o}
  <2>1. \A i \in 1 .. Len(unacked'[w]) : unacked'[w][i].order \in Unacked(w) \ {o}
    BY <1>4, <1>5 DEF Unacked
  <2>2. ASSUME NEW k \in 1 .. Len(held), held[k].order # o
        PROVE  \E i \in 1 .. Len(unacked'[w]) : unacked'[w][i] = held[k]
    <3> HIDE DEF held
    <3>1. CASE k < n
      <4>1. k \in 1 .. Len(held) - 1
        BY <1>2, <3>1
      <4>2. QED
        BY <1>3, <3>1, <4>1
    <3>2. CASE k > n
      <4>1. k - 1 \in 1 .. Len(held) - 1 /\ ~(k - 1 < n) /\ (k - 1) + 1 = k
        BY <1>2, <3>2
      <4>2. QED
        BY <1>3, <4>1
    <3>3. k # n /\ k \in Int /\ n \in Int
      BY <1>1, <1>2, <2>2
    <3>4. QED
      BY <3>1, <3>2, <3>3
  <2>3. Unacked(w)' \subseteq Unacked(w) \ {o}
    BY <2>1 DEF Unacked
  <2>4. ASSUME NEW p \in Unacked(w) \ {o} PROVE p \in Unacked(w)'
    <3>1. PICK k \in 1 .. Len(held) : held[k].order = p
      BY DEF Unacked
    <3>2. PICK i \in 1 .. Len(unacked'[w]) : unacked'[w][i] = held[k]
      BY <2>2, <3>1
    <3> HIDE DEF held
    <3>3. QED
      BY <3>1, <3>2 DEF Unacked
  <2>5. QED
    BY <2>3, <2>4
<1>7. /\ Told(w)' = Told(w) \ {o} /\ o \in Told(w)
      /\ \A v \in Workers \ {w} : Told(v)' = Told(v) /\ Unacked(v)' = Unacked(v)
  <2>1. \A b \in wire : b.channel = w /\ b.order = o => b = a
    BY DEF DeliveryInv, Answering
  <2>2. Told(w)' = Told(w) \ {o} /\ o \in Told(w)
    BY <1>1, <2>1 DEF Told
  <2>3. \A v \in Workers \ {w} : Told(v)' = Told(v)
    BY <1>1 DEF Told
  <2>4. \A v \in Workers \ {w} : Unacked(v)' = Unacked(v)
    BY <1>3 DEF Unacked
  <2>5. QED
    BY <2>2, <2>3, <2>4
<1>8. Shaped'
  <2>1. o \in placed
    BY <1>1 DEF DeliveryInv, Single
  <2>2. queue' \subseteq placed
    BY <1>1, <2>1 DEF DeliveryInv, Shaped
  <2>3. unacked' \in [Workers -> Seq([order : Orders, consumer : Nat])]
    <3>1. SubSeq(held, 1, n - 1) \o SubSeq(held, n + 1, Len(held)) \in Seq([order : Orders, consumer : Nat])
      BY <1>2, TakenOut
    <3> HIDE DEF held
    <3>2. QED
      BY <1>1, <3>1 DEF DeliveryInv, Shaped
  <2>4. QED
    BY <1>1, <2>2, <2>3 DEF DeliveryInv, Shaped
<1>9. consumers <= consumers'
  BY <1>1 DEF DeliveryInv, Shaped
<1>10. \A v \in Workers \ {w} : Working(v)'
  BY <1>1, <1>3, <1>7, <1>8, <1>9, Untouched DEF DeliveryInv
<1>11. Working(w)'
  <2>1. Phased(w)'
    <3>1. channel[w] = "open"
      BY DEF DeliveryInv, Answering
    <3>2. \A i \in 1 .. Len(unacked'[w]) : unacked'[w][i].consumer <= consumers
      BY <1>4, SMTT(20) DEF DeliveryInv, Working, Phased
    <3>3. QED
      BY <1>1, <3>1, <3>2 DEF DeliveryInv, Working, Phased
  <2>2. Owned(w)'
    BY <1>1, <1>6, <1>7 DEF DeliveryInv, Working, Owned
  <2>3. Counted(w)'
    <3>1. \A i \in 1 .. Len(unacked'[w]) : \E k \in 1 .. Len(unacked[w]) :
            unacked'[w][i] = unacked[w][k] /\ unacked[w][k].order # o
      BY <1>4, <1>5
    <3> SUFFICES ASSUME channel[w] = "open", at[w] \in {"waiting", "received", "packed"},
                        NEW i \in 1 .. Len(unacked'[w]), unacked'[w][i].consumer = consumer[w]
                 PROVE  \/ \E j \in 1 .. Len(unread[w]) : unread[w][j] = unacked'[w][i].order
                        \/ unacked'[w][i].order \in Told(w) \ {o}
                        \/ unacked'[w][i].order = hand[w]
      BY <1>1, <1>7, ZenonT(40) DEF Counted
    <3>2. PICK k \in 1 .. Len(unacked[w]) :
            unacked'[w][i] = unacked[w][k] /\ unacked[w][k].order # o
      BY <3>1
    <3>3. \/ \E j \in 1 .. Len(unread[w]) : unread[w][j] = unacked[w][k].order
          \/ unacked[w][k].order \in Told(w)
          \/ unacked[w][k].order = hand[w]
      BY <3>2 DEF DeliveryInv, Working, Counted
    <3>4. QED
      BY <3>2, <3>3
  <2>4. QED
    BY <2>1, <2>2, <2>3 DEF Working
<1>12. Single'
  <2>1. \A v \in Workers : \A i \in 1 .. Len(unacked'[v]) :
          unacked'[v][i].order \in placed \ queue'
    <3>1. ASSUME NEW v \in Workers, NEW i \in 1 .. Len(unacked'[v])
          PROVE  \E k \in 1 .. Len(unacked[v]) :
                   unacked'[v][i] = unacked[v][k] /\ unacked[v][k].order # o
      <4> DEFINE k == IF v = w /\ i >= n THEN i + 1 ELSE i
      <4>1. k \in 1 .. Len(unacked[v]) /\ unacked'[v][i] = unacked[v][k] /\ ~(v = w /\ k = n)
        BY <1>4
      <4> HIDE DEF k, held
      <4>2. unacked[v][k].order # o
        BY <1>5, <4>1
      <4>3. QED
        BY <4>1, <4>2
    <3>2. \A v \in Workers : \A k \in 1 .. Len(unacked[v]) :
            unacked[v][k].order \in placed \ queue
      BY DEF DeliveryInv, Single
    <3>3. UNCHANGED placed /\ queue' \subseteq queue \cup {o}
      BY <1>1
    <3> HIDE DEF held
    <3>4. ASSUME NEW v \in Workers, NEW i \in 1 .. Len(unacked'[v])
          PROVE  unacked'[v][i].order \in placed \ queue'
      <4>1. PICK k \in 1 .. Len(unacked[v]) :
              unacked'[v][i] = unacked[v][k] /\ unacked[v][k].order # o
        BY <3>1
      <4>2. unacked[v][k].order \in placed \ queue
        BY <3>2
      <4>3. QED
        BY <3>3, <4>1, <4>2
    <3>5. QED
      BY <1>1, <3>4
  <2>2. ASSUME NEW u \in Workers, NEW v \in Workers,
               NEW i \in 1 .. Len(unacked'[u]), NEW j \in 1 .. Len(unacked'[v]),
               unacked'[u][i].order = unacked'[v][j].order
        PROVE  u = v /\ i = j
    <3> DEFINE k == IF u = w /\ i >= n THEN i + 1 ELSE i
               l == IF v = w /\ j >= n THEN j + 1 ELSE j
    <3>1. /\ k \in 1 .. Len(unacked[u]) /\ unacked'[u][i] = unacked[u][k]
          /\ l \in 1 .. Len(unacked[v]) /\ unacked'[v][j] = unacked[v][l]
      BY <1>4
    <3>2. u = v /\ k = l
      <4> HIDE DEF k, l
      <4>1. QED
        BY <2>2, <3>1 DEF DeliveryInv, Single
    <3>3. i \in Int /\ j \in Int /\ n \in Int
      BY <1>2
    <3>4. QED
      BY <3>2, <3>3
  <2>3. QED
    BY <1>1, <2>1, <2>2 DEF Single
<1>13. Answering'
  <2>1. \A b \in wire' : b \in wire /\ ~(b.channel = w /\ b.order = o)
    BY <1>1 DEF DeliveryInv, Answering
  <2>2. QED
    BY <1>1, <1>6, <1>7, <2>1 DEF DeliveryInv, Answering
<1>14. QED
  BY <1>8, <1>10, <1>11, <1>12, <1>13 DEF DeliveryInv

(* Every step preserves the invariant.                                     *)
LEMMA DeliveryStep == DeliveryInv /\ [Next]_vars => DeliveryInv'
<1> SUFFICES ASSUME DeliveryInv, [Next]_vars PROVE DeliveryInv'
  OBVIOUS
<1> USE DEF sendVars, brokerVars, channelVars, resultVars
<1>1. ASSUME NEW w \in Workers, Stop(w) \/ Pack(w) PROVE DeliveryInv'
  BY <1>1, GoesOn DEF Stop, Pack
<1>2. ASSUME NEW w \in Workers, DiscardUnread(w) \/ RequeueRefused(w) \/ AckPacked(w)
      PROVE  DeliveryInv'
  <2>1. /\ at[w] \in {"received", "packed"}
        /\ UNCHANGED <<form, placed, queue, unacked, channel, consumers, consumer, unread>>
        /\ \/ Unanswered(w)
           \/ /\ channel[w] = "open" /\ Answered(w)
              /\ \E answer \in {"ack", "discard", "requeue"} : Written(w, answer, FALSE)
    BY <1>2 DEF DiscardUnread, RequeueRefused, AckPacked, Ack, Discard, Requeue
  <2>2. CASE Unanswered(w)
    BY <2>1, <2>2, GoesOn DEF Unanswered
  <2>3. QED
    BY <2>1, <2>2, Answers
<1>3. CASE UNCHANGED vars
  <2>1. /\ UNCHANGED <<placed, form, queue, unacked, wire, channel, consumers, consumer>>
        /\ UNCHANGED <<unread, at, hand>>
    BY <1>3 DEF vars
  <2>2. \A v : Told(v)' = Told(v) /\ Unacked(v)' = Unacked(v)
    BY <2>1 DEF Told, Unacked
  <2>3. Shaped'
    BY <2>1 DEF DeliveryInv, Shaped
  <2>4. Single' /\ Answering'
    BY <2>1, <2>2 DEF DeliveryInv, Single, Answering
  <2>5. consumers <= consumers'
    BY <2>1 DEF DeliveryInv, Shaped
  <2>6. \A v \in Workers : Working(v)'
    BY <2>1, <2>2, <2>3, <2>5, Untouched DEF DeliveryInv
  <2>7. QED
    BY <2>3, <2>4, <2>6 DEF DeliveryInv
<1>4. QED
  BY <1>1, <1>2, <1>3, Placed, Applied, Pushed, Connected, ChannelEnds, Subscribed, ReadNext
     DEF Next

-----------------------------------------------------------------------------
(* Nothing is on its way.                                                  *)
LEMMA PackedInitial == Init => PackedInv
BY DEF Init, PackedInv, Meant, OnlyPackedAccepted

(* Every step preserves what the answers mean.                             *)
LEMMA PackedStep == DeliveryInv /\ PackedInv /\ [Next]_vars => PackedInv'
<1> SUFFICES ASSUME DeliveryInv, PackedInv, [Next]_vars PROVE PackedInv'
  OBVIOUS
<1> USE DEF PackedInv, sendVars, brokerVars, channelVars, resultVars
<1>0. DOMAIN at = Workers /\ DOMAIN hand = Workers
  BY DEF DeliveryInv, Shaped
<1>1. ASSUME UNCHANGED <<form, at, hand, packed, emitted, accepted, dropped>>,
             wire' \subseteq wire
      PROVE  PackedInv'
  BY <1>1 DEF Meant, OnlyPackedAccepted
<1>2. ASSUME NEW w \in Workers, NEW where, where # "packed", NEW what,
             at' = [at EXCEPT ![w] = where],
             hand' \in {hand, [hand EXCEPT ![w] = what]},
             UNCHANGED <<form, packed, emitted, accepted, dropped>>,
             wire' \subseteq wire
      PROVE  PackedInv'
  BY <1>0, <1>2 DEF Meant, OnlyPackedAccepted
<1>3. ASSUME NEW o \in Orders, Place(o) \/ PlaceOther(o) PROVE PackedInv'
  BY <1>1, <1>3 DEF Place, PlaceOther
<1>4. ASSUME NEW a \in wire, Apply(a) PROVE PackedInv'
  <2>1. /\ wire' = wire \ {a} /\ UNCHANGED <<form, at, hand, packed, emitted>>
        /\ accepted' = IF a.answer = "ack" THEN accepted \cup {a.order} ELSE accepted
        /\ dropped' = IF a.answer = "discard" THEN dropped \cup {a.order} ELSE dropped
    BY <1>4, AppliesToOne, Zenon
  <2>2. /\ a.answer = "ack" => a.order \in packed
        /\ a.answer = "discard" => form[a.order] = "unreadable"
    BY DEF Meant
  <2>3. OnlyPackedAccepted'
    BY <2>1, <2>2 DEF OnlyPackedAccepted
  <2>4. QED
    BY <2>1, <2>3 DEF Meant
<1>5. ASSUME NEW w \in Workers, NEW o \in Orders, Push(w, o) PROVE PackedInv'
  BY <1>1, <1>5 DEF Push
<1>6. ASSUME NEW w \in Workers,
             Connect(w) \/ Open(w) \/ closeChannel(w) \/ disconnect(w) \/ Lose(w)
      PROVE  PackedInv'
  BY <1>1, <1>6 DEF Connect, Open, closeChannel, disconnect, Lose
<1>7. ASSUME NEW w \in Workers,
             subscribe(w) \/ unsubscribe(w) \/ NextDelivery(w) \/ Stop(w)
      PROVE  PackedInv'
  <2>1. /\ UNCHANGED <<form, packed, emitted, accepted, dropped, wire>>
        /\ \E where \in {"waiting", "idle", "received", "closing"} :
             at' = [at EXCEPT ![w] = where]
        /\ \E what : hand' \in {hand, [hand EXCEPT ![w] = what]}
    BY <1>7 DEF subscribe, unsubscribe, NextDelivery, Stop
  <2>2. QED
    BY <1>2, <2>1
<1>8. ASSUME NEW w \in Workers, DiscardUnread(w) \/ RequeueRefused(w) PROVE PackedInv'
  <2>1. CASE Unanswered(w)
    BY <1>2, <1>8, <2>1 DEF DiscardUnread, RequeueRefused, Unanswered
  <2>2. ASSUME NEW answer \in {"discard", "requeue"}, Written(w, answer, FALSE), Answered(w),
               answer = "discard" => form[hand[w]] = "unreadable"
        PROVE  PackedInv'
    <3>1. UNCHANGED <<form, packed, emitted, accepted, dropped>>
      BY <1>8 DEF DiscardUnread, RequeueRefused
    <3>2. QED
      BY <1>0, <2>2, <3>1 DEF Written, Answered, Meant, OnlyPackedAccepted
  <2>3. QED
    BY <1>8, <2>1, <2>2 DEF DiscardUnread, RequeueRefused, Discard, Requeue, decodeDelivery
<1>9. ASSUME NEW w \in Workers, Pack(w) PROVE PackedInv'
  BY <1>0, <1>9 DEF Pack, Meant, OnlyPackedAccepted
<1>10. ASSUME NEW w \in Workers, AckPacked(w) PROVE PackedInv'
  <2>1. CASE Unanswered(w) /\ UNCHANGED emitted
    BY <1>2, <1>10, <2>1 DEF AckPacked, Unanswered
  <2>2. CASE Ack(w) /\ Answered(w) /\ emitted' = emitted \cup {hand[w]}
    <3>1. hand[w] \in packed /\ UNCHANGED <<form, packed, accepted, dropped>>
      BY <1>10 DEF AckPacked, Meant
    <3>2. QED
      BY <1>0, <2>2, <3>1 DEF Ack, Written, Answered, Meant, OnlyPackedAccepted
  <2>3. QED
    BY <1>10, <2>1, <2>2 DEF AckPacked
<1>11. CASE UNCHANGED vars
  BY <1>1, <1>11 DEF vars
<1>12. QED
  BY <1>3, <1>4, <1>5, <1>6, <1>7, <1>8, <1>9, <1>10, <1>11 DEF Next

(* "Only an order that was packed is accepted, and only then does it       *)
(* appear in the stream" (dispatch.go), and only what cannot be read is    *)
(* dropped, however channels are lost under the workers.                   *)
THEOREM PackedCorrect == Spec => []OnlyPackedAccepted
BY DeliveryInitial, DeliveryStep, PackedInitial, PackedStep, PTL DEF Spec, PackedInv

(* The invariant says what the run's property says of the answers.         *)
LEMMA AnswersHeld == DeliveryInv => AnsweredOnce
<1> SUFFICES ASSUME DeliveryInv, NEW a \in wire
             PROVE  /\ a.order \in OrdersOf(unacked[a.channel])
                    /\ \A b \in wire : b.channel = a.channel /\ b.order = a.order => b = a
                    /\ a.order # hand[a.channel]
  BY DEF AnsweredOnce
<1>1. /\ a.channel \in Workers /\ channel[a.channel] = "open"
      /\ a.order \in Unacked(a.channel)
      /\ \A b \in wire : b.channel = a.channel /\ b.order = a.order => b = a
  BY DEF DeliveryInv, Answering
<1>2. a.order # NoOrder
  BY <1>1, OnChannel DEF DeliveryInv, Unacked
<1>3. a.order \in Told(a.channel)
  BY DEF Told
<1>4. a.order # hand[a.channel]
  BY <1>1, <1>2, <1>3 DEF DeliveryInv, Working, Owned
<1>5. QED
  BY <1>1, <1>4, HeldOrders DEF DeliveryInv

(* The answers Ship gives (Ack, Discard and Requeue of dispatch.go, each   *)
(* once per order) name a delivery the broker still holds on that channel, *)
(* and no two name the same one, for any workers, orders and prefetch.     *)
THEOREM AnswerCorrect == Spec => []AnsweredOnce
BY DeliveryInitial, DeliveryStep, AnswersHeld, PTL DEF Spec

(* The invariant says what the run's property says of the prefetch.        *)
LEMMA PrefetchFree == DeliveryInv => NeverStalls
<1> SUFFICES ASSUME DeliveryInv, NEW w \in Workers
             PROVE  /\ at[w] = "waiting" /\ channel[w] = "open" =>
                         \A i \in DOMAIN unacked[w] : unacked[w][i].consumer = consumer[w] =>
                           \/ Contains(unread[w], unacked[w][i].order)
                           \/ \E a \in wire : a.channel = w /\ a.order = unacked[w][i].order
                    /\ at[w] = "idle" => consumer[w] = 0
  BY DEF NeverStalls
<1>1. at[w] = "idle" => consumer[w] = 0
  BY DEF DeliveryInv, Working, Phased
<1>2. ASSUME at[w] = "waiting", channel[w] = "open", NEW i \in DOMAIN unacked[w],
             unacked[w][i].consumer = consumer[w]
      PROVE  \/ Contains(unread[w], unacked[w][i].order)
             \/ \E a \in wire : a.channel = w /\ a.order = unacked[w][i].order
  <2>1. i \in 1 .. Len(unacked[w])
    BY LenProperties DEF DeliveryInv, Shaped
  <2>2. hand[w] = NoOrder /\ unacked[w][i].order # NoOrder
    BY <1>2, <2>1, OnChannel DEF DeliveryInv, Working, Phased
  <2>3. \/ \E j \in 1 .. Len(unread[w]) : unread[w][j] = unacked[w][i].order
        \/ unacked[w][i].order \in Told(w)
    BY <1>2, <2>1, <2>2 DEF DeliveryInv, Working, Counted
  <2>4. QED
    BY <2>3 DEF Told, Contains
<1>3. QED
  BY <1>1, <1>2

(* A stream that waits on an open channel is owed nothing it cannot come   *)
(* by: what the prefetch counts against its consumer is still to be read   *)
(* or answered, whatever earlier subscriptions left on the channel, and a  *)
(* consumer is cancelled before its worker is idle (unsubscribe).          *)
THEOREM StallCorrect == Spec => []NeverStalls
BY DeliveryInitial, DeliveryStep, PrefetchFree, PTL DEF Spec

-----------------------------------------------------------------------------
(* Consign: collecting over links that break, for any number of            *)
(* collectors, links and shipments and any credit.                         *)

Decisions == {Accept, Reject, Modify(TRUE, FALSE), Modify(FALSE, TRUE)}

(* The shipments whose disposition is on its way over a link.              *)
Underway(w) == {d.shipment : d \in {x \in dispositions : x.link = w}}

Typed ==
  /\ stage \in [Collectors -> {"idle", "waiting", "received", "settling", "failed"}]
  /\ link \in [Collectors -> {"none", "connected", "session", "attached", "broken"}]
  /\ parcel \in [Collectors -> Shipments \cup {NoShipment}]
  /\ decision \in [Collectors -> Decisions]
  /\ flight \in [Collectors -> SUBSET Shipments]
  /\ buffer \in [Collectors -> SUBSET Shipments]
  /\ unsettled \in [Collectors -> SUBSET Shipments]
  /\ dispositions \subseteq
       [link : Collectors, shipment : Shipments, disposition : Decisions]

(* A disposition that says a shipment is done was a carrier's word, or     *)
(* says that nobody can read it.                                           *)
Justified(s, disposition) ==
  /\ disposition = Accept => s \in collected
  /\ disposition = Reject => shape[s] = "unreadable" \/ s \in never

(* What is decided, and what is on its way, is justified.                  *)
Spoken ==
  /\ \A w \in Collectors : stage[w] = "settling" => Justified(parcel[w], decision[w])
  /\ \A d \in dispositions : Justified(d.shipment, d.disposition)

(* A shipment the broker has is at the node or in flight to one link.      *)
OneFlight ==
  /\ node \subseteq handed
  /\ \A w \in Collectors : flight[w] \subseteq handed /\ flight[w] \cap node = {}
  /\ \A v, w \in Collectors : v # w => flight[v] \cap flight[w] = {}

(* A disposition under way is for a shipment in flight to its link, and is *)
(* the only one for it; a running stream has nothing of it left.           *)
OneDisposition ==
  /\ \A d \in dispositions : link[d.link] = "attached" /\ d.shipment \in flight[d.link]
  /\ \A d, e \in dispositions : d.link = e.link /\ d.shipment = e.shipment => d = e
  /\ \A w \in Collectors : stage[w] # "failed" /\ link[w] = "attached" =>
       /\ buffer[w] \cap unsettled[w] = {}
       /\ \A d \in dispositions :
            d.link = w => d.shipment \notin buffer[w] /\ d.shipment \notin unsettled[w]

(* A collector without a link has nothing.                                 *)
Unlinked ==
  \A w \in Collectors : link[w] \notin {"attached", "broken"} =>
    stage[w] = "idle" /\ flight[w] = {} /\ buffer[w] = {} /\ unsettled[w] = {}

(* Invariant by induction.                                                 *)
ConsignInv ==
  /\ Typed /\ Spoken /\ NothingInvented
  /\ OneFlight /\ OneDisposition /\ Unlinked /\ BooksAgree

-----------------------------------------------------------------------------
(* The four dispositions are told apart by their kind.                     *)
LEMMA Kinds ==
  /\ Accept # Reject
  /\ \A f, e : Modify(f, e) # Accept /\ Modify(f, e) # Reject
  /\ Accept.kind = "accept" /\ Reject.kind = "reject"
BY DEF Accept, Reject, Modify

(* What settleConsignment makes of a carrier's word is justified by it.    *)
LEMMA SettledAsSaid ==
  ASSUME NEW outcome \in Outcomes
  PROVE  /\ settleConsignment(outcome) \in Decisions
         /\ settleConsignment(outcome) = Accept => outcome = "collection"
         /\ settleConsignment(outcome) = Reject => outcome = "never"
<1>1. CASE outcome = "collection"
  BY <1>1, Kinds DEF settleConsignment, Decisions
<1>2. CASE outcome = "never"
  BY <1>2, Kinds DEF settleConsignment, Decisions
<1>3. CASE outcome = "notNow"
  BY <1>3, Kinds DEF settleConsignment, Decisions
<1>4. CASE outcome = "notMe"
  BY <1>4, Kinds DEF settleConsignment, Decisions
<1>5. QED
  BY <1>1, <1>2, <1>3, <1>4 DEF Outcomes

(* Nothing has been sent, and nobody is connected.                         *)
LEMMA ConsignInitial == ConsignInit => ConsignInv
<1> SUFFICES ASSUME ConsignInit PROVE ConsignInv
  OBVIOUS
<1>1. Typed
  BY DEF ConsignInit, Typed, Decisions
<1>2. Spoken /\ NothingInvented
  BY DEF ConsignInit, Spoken, NothingInvented
<1>3. OneFlight /\ OneDisposition /\ Unlinked /\ BooksAgree
  BY DEF ConsignInit, OneFlight, OneDisposition, Unlinked, BooksAgree
<1>4. QED
  BY <1>1, <1>2, <1>3 DEF ConsignInv

(* What carriers have said stays said.                                     *)
LEMMA WordsKept ==
  ASSUME Spoken, NothingInvented, collected \subseteq collected', never \subseteq never',
         UNCHANGED <<shape, taken, rejected, given>>, dispositions' \subseteq dispositions,
         \A w \in Collectors : stage'[w] = "settling" =>
           Justified(parcel[w], decision[w])' \/ (stage[w] = "settling"
             /\ parcel'[w] = parcel[w] /\ decision'[w] = decision[w])
  PROVE  Spoken' /\ NothingInvented'
<1>1. Spoken'
  BY DEF Spoken, Justified
<1>2. NothingInvented'
  BY DEF NothingInvented
<1>3. QED
  BY <1>1, <1>2

(* Every step keeps the types.                                             *)
LEMMA TypesKept == ConsignInv /\ [ConsignNext]_consignVars => Typed'
<1> SUFFICES ASSUME ConsignInv, [ConsignNext]_consignVars PROVE Typed'
  OBVIOUS
<1> USE DEF ConsignInv, Typed, handVars, nodeVars, linkVars, workerVars, carrierVars
<1>1. ASSUME NEW s \in Shipments, Hand(s) \/ HandOther(s) PROVE Typed'
  BY <1>1 DEF Hand, HandOther
<1>2. ASSUME NEW d \in dispositions, ApplyDisposition(d) PROVE Typed'
  BY <1>2 DEF ApplyDisposition
<1>3. ASSUME NEW w \in Collectors, NEW s \in Shipments,
             Transfer(w, s) \/ Receive(w, s) \/ ReceiveFails(w, s)
      PROVE  Typed'
  BY <1>3 DEF Transfer, Receive, ReceiveFails
<1>4. ASSUME NEW w \in Collectors, NEW outcome \in Outcomes, Offer(w, outcome) PROVE Typed'
  BY <1>4, SettledAsSaid DEF Offer
<1>5. ASSUME NEW w \in Collectors,
             \/ Connect10(w) \/ Open10(w) \/ Receiver(w) \/ endSession(w) \/ disconnect10(w)
      PROVE  Typed'
  BY <1>5 DEF Connect10, Open10, Receiver, endSession, disconnect10, Hold
<1>6. ASSUME NEW w \in Collectors, Break(w) PROVE Typed'
  BY <1>6 DEF Break
<1>7. ASSUME NEW w \in Collectors, detachReceiver(w) PROVE Typed'
  BY <1>7 DEF detachReceiver
<1>8. ASSUME NEW w \in Collectors, Collect(w) \/ EndOfStream(w) \/ Abandon(w) PROVE Typed'
  BY <1>8 DEF Collect, EndOfStream, Abandon
<1>9. ASSUME NEW w \in Collectors, Unread(w) PROVE Typed'
  BY <1>9 DEF Unread, Decisions
<1>10. ASSUME NEW w \in Collectors, Settled(w) PROVE Typed'
  BY <1>10 DEF Settled, settle
<1>11. ASSUME NEW w \in Collectors, SettleFails(w) PROVE Typed'
  BY <1>11 DEF SettleFails, settle
<1>12. CASE UNCHANGED consignVars
  BY <1>12 DEF consignVars
<1>13. QED
  BY <1>1, <1>2, <1>3, <1>4, <1>5, <1>6, <1>7, <1>8, <1>9, <1>10, <1>11, <1>12
     DEF ConsignNext

(* No step says of a shipment what no carrier said.                        *)
LEMMA WordsSpoken ==
  ConsignInv /\ [ConsignNext]_consignVars => Spoken' /\ NothingInvented'
<1> SUFFICES ASSUME ConsignInv, [ConsignNext]_consignVars
             PROVE  Spoken' /\ NothingInvented'
  OBVIOUS
<1> USE DEF ConsignInv, handVars, nodeVars, linkVars, workerVars, carrierVars
<1>1. ASSUME NEW s \in Shipments, Hand(s) \/ HandOther(s)
      PROVE  Spoken' /\ NothingInvented'
  BY <1>1, WordsKept DEF Hand, HandOther
<1>2. ASSUME NEW d \in dispositions, ApplyDisposition(d)
      PROVE  Spoken' /\ NothingInvented'
  <2>1. Justified(d.shipment, d.disposition)
    BY DEF Spoken
  <2>2. Spoken'
    BY <1>2 DEF ApplyDisposition, Spoken, Justified
  <2>3. NothingInvented'
    BY <1>2, <2>1 DEF ApplyDisposition, NothingInvented, Justified
  <2>4. QED
    BY <2>2, <2>3
<1>3. ASSUME NEW w \in Collectors, NEW s \in Shipments,
             Transfer(w, s) \/ Receive(w, s) \/ ReceiveFails(w, s)
      PROVE  Spoken' /\ NothingInvented'
  <2>1. \A v \in Collectors : stage'[v] = "settling" =>
          stage[v] = "settling" /\ parcel'[v] = parcel[v] /\ decision'[v] = decision[v]
    BY <1>3 DEF Transfer, Receive, ReceiveFails, Typed
  <2>2. UNCHANGED <<shape, taken, rejected, given, collected, never, dispositions>>
    BY <1>3 DEF Transfer, Receive, ReceiveFails
  <2>3. QED
    BY <2>1, <2>2, WordsKept
<1>4. ASSUME NEW w \in Collectors, NEW outcome \in Outcomes, Offer(w, outcome)
      PROVE  Spoken' /\ NothingInvented'
  <2>1. \A v \in Collectors \ {w} : stage'[v] = "settling" =>
          stage[v] = "settling" /\ parcel'[v] = parcel[v] /\ decision'[v] = decision[v]
    BY <1>4 DEF Offer, Typed
  <2>2. decision'[w] = settleConsignment(outcome) /\ parcel'[w] = parcel[w]
    BY <1>4 DEF Offer, Typed
  <2>3. Justified(parcel[w], decision[w])'
    BY <1>4, <2>2, SettledAsSaid DEF Offer, Justified
  <2>4. QED
    BY <1>4, <2>1, <2>3, WordsKept DEF Offer
<1>5. ASSUME NEW w \in Collectors, Unread(w) PROVE Spoken' /\ NothingInvented'
  <2>1. \A v \in Collectors \ {w} : stage'[v] = "settling" =>
          stage[v] = "settling" /\ parcel'[v] = parcel[v] /\ decision'[v] = decision[v]
    BY <1>5 DEF Unread, Typed
  <2>2. decision'[w] = Reject /\ parcel'[w] = parcel[w] /\ shape'[parcel[w]] = "unreadable"
    BY <1>5 DEF Unread, Typed, decodeDelivery10
  <2>3. Justified(parcel[w], decision[w])'
    BY <2>2, Kinds DEF Justified
  <2>4. QED
    BY <1>5, <2>1, <2>3, WordsKept DEF Unread
<1>6. ASSUME NEW w \in Collectors, Settled(w) PROVE Spoken' /\ NothingInvented'
  <2>1. Justified(parcel[w], decision[w])
    BY <1>6 DEF Settled, Spoken
  <2>2. \A v \in Collectors : stage'[v] = "settling" => stage[v] = "settling"
    BY <1>6 DEF Settled, Typed
  <2>3. Spoken'
    BY <1>6, <2>1, <2>2 DEF Settled, settle, Spoken, Justified
  <2>4. NothingInvented'
    BY <1>6, <2>1 DEF Settled, settle, NothingInvented, Justified
  <2>5. QED
    BY <2>3, <2>4
<1>7. ASSUME NEW w \in Collectors, SettleFails(w) PROVE Spoken' /\ NothingInvented'
  <2>1. Justified(parcel[w], decision[w])
    BY <1>7 DEF SettleFails, Spoken
  <2>2. \A v \in Collectors : stage'[v] = "settling" => stage[v] = "settling"
    BY <1>7 DEF SettleFails, Typed
  <2>3. Spoken'
    BY <1>7, <2>1, <2>2 DEF SettleFails, settle, Spoken, Justified
  <2>4. NothingInvented'
    BY <1>7 DEF SettleFails, settle, NothingInvented
  <2>5. QED
    BY <2>3, <2>4
<1>8. ASSUME NEW w \in Collectors,
             \/ Connect10(w) \/ Open10(w) \/ Receiver(w) \/ endSession(w) \/ disconnect10(w)
             \/ Break(w) \/ detachReceiver(w) \/ Collect(w) \/ EndOfStream(w) \/ Abandon(w)
      PROVE  Spoken' /\ NothingInvented'
  <2>1. \A v \in Collectors : stage'[v] = "settling" =>
          stage[v] = "settling" /\ parcel'[v] = parcel[v] /\ decision'[v] = decision[v]
    BY <1>8 DEF Connect10, Open10, Receiver, endSession, disconnect10, Hold, Break,
       detachReceiver, Collect, EndOfStream, Abandon, Typed
  <2>2. /\ UNCHANGED <<shape, taken, rejected, given, collected, never>>
        /\ dispositions' \subseteq dispositions
    BY <1>8 DEF Connect10, Open10, Receiver, endSession, disconnect10, Hold, Break,
       detachReceiver, Collect, EndOfStream, Abandon
  <2>3. QED
    BY <2>1, <2>2, WordsKept
<1>9. CASE UNCHANGED consignVars
  BY <1>9, WordsKept DEF consignVars
<1>10. QED
  BY <1>1, <1>2, <1>3, <1>4, <1>5, <1>6, <1>7, <1>8, <1>9 DEF ConsignNext

(* Sending adds only what nobody has had.                                  *)
LEMMA SentOnce ==
  ASSUME ConsignInv, NEW s \in Shipments, Hand(s) \/ HandOther(s)
  PROVE  OneFlight' /\ OneDisposition' /\ Unlinked' /\ BooksAgree'
<1> USE DEF ConsignInv, Typed, handVars, nodeVars, linkVars, workerVars, carrierVars,
            Hand, HandOther, Send
<1>1. OneFlight'
  BY DEF OneFlight
<1>2. OneDisposition' /\ Unlinked'
  BY DEF OneDisposition, Unlinked
<1>3. BooksAgree'
  BY DEF BooksAgree
<1>4. QED
  BY <1>1, <1>2, <1>3

(* The broker's step on a disposition takes one shipment out of flight.    *)
LEMMA AppliedOnce ==
  ASSUME ConsignInv, NEW d \in dispositions, ApplyDisposition(d)
  PROVE  OneFlight' /\ OneDisposition' /\ Unlinked' /\ BooksAgree'
<1> USE DEF ConsignInv, Typed, handVars, nodeVars, linkVars, workerVars, carrierVars
<1>1. /\ d.link \in Collectors /\ d.shipment \in flight[d.link]
      /\ link[d.link] = "attached"
  BY DEF OneDisposition
<1>2. /\ flight'[d.link] = flight[d.link] \ {d.shipment}
      /\ \A w \in Collectors \ {d.link} : flight'[w] = flight[w]
  BY <1>1 DEF ApplyDisposition
<1>3. /\ UNCHANGED <<handed, link, buffer, unsettled, stage, parcel>>
      /\ dispositions' = dispositions \ {d} /\ node' \subseteq node \cup {d.shipment}
  BY DEF ApplyDisposition
<1>4. OneFlight'
  BY <1>1, <1>2, <1>3 DEF OneFlight
<1>5. OneDisposition'
  BY <1>2, <1>3 DEF OneDisposition
<1>6. Unlinked'
  BY <1>2, <1>3 DEF Unlinked
<1>7. BooksAgree'
  <2> SUFFICES ASSUME NEW w \in Collectors, stage[w] # "failed"
               PROVE  /\ link[w] = "attached" =>
                           flight'[w] = buffer[w] \cup unsettled[w] \cup Underway(w)'
                      /\ unsettled[w] = IF stage[w] \in {"received", "settling"}
                                        THEN {parcel[w]} ELSE {}
    BY <1>3 DEF BooksAgree, Underway
  <2>1. unsettled[w] = IF stage[w] \in {"received", "settling"} THEN {parcel[w]} ELSE {}
    BY DEF BooksAgree
  <2>2. CASE w # d.link
    <3>1. Underway(w)' = Underway(w)
      BY <1>3, <2>2 DEF Underway
    <3>2. QED
      BY <1>2, <2>1, <2>2, <3>1 DEF BooksAgree, Underway
  <2>3. CASE w = d.link
    <3>1. flight[w] = buffer[w] \cup unsettled[w] \cup Underway(w)
      BY <1>1, <2>3 DEF BooksAgree, Underway
    <3>2. d.shipment \notin buffer[w] /\ d.shipment \notin unsettled[w]
      BY <1>1, <2>3 DEF OneDisposition
    <3>3. Underway(w)' = Underway(w) \ {d.shipment}
      BY <1>3, <2>3 DEF Underway, OneDisposition
    <3>4. QED
      BY <1>2, <2>1, <2>3, <3>1, <3>2, <3>3
  <2>4. QED
    BY <2>2, <2>3
<1>8. QED
  BY <1>4, <1>5, <1>6, <1>7

(* A transfer takes a shipment from the node to one link's buffer.         *)
LEMMA TransferredOnce ==
  ASSUME ConsignInv, NEW w \in Collectors, NEW s \in Shipments, Transfer(w, s)
  PROVE  OneFlight' /\ OneDisposition' /\ Unlinked' /\ BooksAgree'
<1> USE DEF ConsignInv, Typed, handVars, nodeVars, linkVars, workerVars, carrierVars
<1>1. /\ flight'[w] = flight[w] \cup {s} /\ buffer'[w] = buffer[w] \cup {s}
      /\ \A v \in Collectors \ {w} : flight'[v] = flight[v] /\ buffer'[v] = buffer[v]
  BY DEF Transfer
<1>2. /\ UNCHANGED <<handed, dispositions, link, unsettled, stage, parcel>>
      /\ node' = node \ {s} /\ s \in node /\ link[w] = "attached"
  BY DEF Transfer
<1>3. \A v \in Collectors : s \notin flight[v]
  BY <1>2 DEF OneFlight
<1>4. OneFlight'
  BY <1>1, <1>2, <1>3 DEF OneFlight
<1>5. stage[w] # "failed" => s \notin unsettled[w]
  BY <1>2, <1>3 DEF BooksAgree
<1>6. \A d \in dispositions : d.link = w => d.shipment # s
  BY <1>3 DEF OneDisposition
<1>7. OneDisposition'
  BY <1>1, <1>2, <1>5, <1>6 DEF OneDisposition
<1>8. Unlinked'
  BY <1>1, <1>2 DEF Unlinked
<1>9. BooksAgree'
  <2> SUFFICES ASSUME NEW v \in Collectors, stage[v] # "failed"
               PROVE  /\ link[v] = "attached" =>
                           flight'[v] = buffer'[v] \cup unsettled[v] \cup Underway(v)
                      /\ unsettled[v] = IF stage[v] \in {"received", "settling"}
                                        THEN {parcel[v]} ELSE {}
    BY <1>2 DEF BooksAgree, Underway
  <2>1. /\ link[v] = "attached" => flight[v] = buffer[v] \cup unsettled[v] \cup Underway(v)
        /\ unsettled[v] = IF stage[v] \in {"received", "settling"} THEN {parcel[v]} ELSE {}
    BY DEF BooksAgree, Underway
  <2>2. QED
    BY <1>1, <2>1
<1>10. QED
  BY <1>4, <1>7, <1>8, <1>9

(* A receive moves a shipment from the link's buffer into its table; one   *)
(* that fails fails the stream.                                            *)
LEMMA ReceivedOnce ==
  ASSUME ConsignInv, NEW w \in Collectors, NEW s \in Shipments,
         Receive(w, s) \/ ReceiveFails(w, s)
  PROVE  OneFlight' /\ OneDisposition' /\ Unlinked' /\ BooksAgree'
<1> USE DEF ConsignInv, Typed, handVars, nodeVars, linkVars, workerVars, carrierVars
<1>1. /\ UNCHANGED <<handed, node, flight, dispositions, link>>
      /\ \A v \in Collectors \ {w} : /\ buffer'[v] = buffer[v] /\ stage'[v] = stage[v]
                                      /\ unsettled'[v] = unsettled[v] /\ parcel'[v] = parcel[v]
  BY DEF Receive, ReceiveFails
<1>2. stage[w] = "waiting" /\ s \in buffer[w] /\ unsettled[w] = {}
  BY DEF Receive, ReceiveFails, BooksAgree
<1>3. \/ stage'[w] = "failed"
      \/ /\ stage'[w] = "received" /\ parcel'[w] = s
         /\ unsettled'[w] = {s} /\ buffer'[w] = buffer[w] \ {s}
  BY <1>2 DEF Receive, ReceiveFails
<1>4. OneFlight'
  BY <1>1 DEF OneFlight
<1>5. OneDisposition'
  BY <1>1, <1>2, <1>3 DEF OneDisposition
<1>6. link[w] \in {"attached", "broken"}
  BY <1>2 DEF Unlinked
<1>7. Unlinked'
  BY <1>1, <1>6 DEF Unlinked
<1>8. BooksAgree'
  <2>1. ASSUME NEW v \in Collectors, stage[v] # "failed"
        PROVE  /\ link[v] = "attached" =>
                    flight[v] = buffer[v] \cup unsettled[v] \cup Underway(v)
               /\ unsettled[v] = IF stage[v] \in {"received", "settling"}
                                 THEN {parcel[v]} ELSE {}
    BY <2>1 DEF BooksAgree, Underway
  <2>2. ASSUME NEW v \in Collectors, stage'[v] # "failed"
        PROVE  /\ link[v] = "attached" =>
                    flight[v] = buffer'[v] \cup unsettled'[v] \cup Underway(v)
               /\ unsettled'[v] = IF stage'[v] \in {"received", "settling"}
                                  THEN {parcel'[v]} ELSE {}
    <3>1. CASE v = w
      <4>1. /\ unsettled'[w] = {s} /\ buffer'[w] = buffer[w] \ {s}
            /\ stage'[w] = "received" /\ parcel'[w] = s
        BY <1>3, <2>2, <3>1
      <4>2. link[w] = "attached" => flight[w] = buffer[w] \cup Underway(w)
        BY <1>2, <2>1
      <4>3. QED
        BY <1>2, <3>1, <4>1, <4>2
    <3>2. CASE v # w
      BY <1>1, <2>1, <2>2, <3>2
    <3>3. QED
      BY <3>1, <3>2
  <2>3. QED
    BY <1>1, <2>2 DEF BooksAgree, Underway
<1>9. QED
  BY <1>4, <1>5, <1>7, <1>8

(* A settlement puts the delivery in hand on its way, once.                *)
LEMMA SettlesOnce ==
  ASSUME ConsignInv, NEW w \in Collectors, Settled(w) \/ SettleFails(w)
  PROVE  OneFlight' /\ OneDisposition' /\ Unlinked' /\ BooksAgree'
<1> USE DEF ConsignInv, Typed, handVars, nodeVars, linkVars, workerVars, carrierVars
<1> DEFINE said == [link |-> w, shipment |-> parcel[w], disposition |-> decision[w]]
<1>1. /\ UNCHANGED <<handed, node, flight, link, buffer, parcel>>
      /\ stage[w] = "settling"
      /\ \A v \in Collectors \ {w} : stage'[v] = stage[v] /\ unsettled'[v] = unsettled[v]
  BY DEF Settled, SettleFails, settle
<1>2. unsettled'[w] = unsettled[w] \ {parcel[w]}
  BY DEF Settled, SettleFails, settle
<1>3. \/ /\ stage'[w] = "waiting" \/ stage'[w] = "failed"
         /\ dispositions' = dispositions \cup {said}
         /\ link[w] = "attached" /\ parcel[w] \in unsettled[w]
      \/ stage'[w] = "failed" /\ dispositions' = dispositions
  BY DEF Settled, SettleFails, settle
<1>4. unsettled[w] = {parcel[w]}
  BY <1>1 DEF BooksAgree
<1>5. said.link = w /\ said.shipment = parcel[w]
  OBVIOUS
<1> HIDE DEF said
<1>6. OneFlight'
  BY <1>1 DEF OneFlight
<1>7. link[w] = "attached" =>
        /\ parcel[w] \in flight[w] /\ parcel[w] \notin buffer[w]
        /\ \A d \in dispositions : d.link = w => d.shipment # parcel[w]
  BY <1>1, <1>4 DEF BooksAgree, OneDisposition
<1>8. OneDisposition'
  BY <1>1, <1>2, <1>3, <1>4, <1>5, <1>7 DEF OneDisposition
<1>9. Unlinked'
  BY <1>1, <1>3 DEF Unlinked
<1>10. BooksAgree'
  <2>1. ASSUME NEW v \in Collectors \ {w}, stage[v] # "failed"
        PROVE  /\ link[v] = "attached" =>
                    flight[v] = buffer[v] \cup unsettled'[v] \cup Underway(v)'
               /\ unsettled'[v] = IF stage[v] \in {"received", "settling"}
                                  THEN {parcel[v]} ELSE {}
    <3>1. Underway(v)' = Underway(v)
      BY <1>3, <1>5 DEF Underway
    <3>2. QED
      BY <1>1, <2>1, <3>1 DEF BooksAgree, Underway
  <2>2. ASSUME stage'[w] # "failed"
        PROVE  /\ flight[w] = buffer[w] \cup unsettled'[w] \cup Underway(w)'
               /\ unsettled'[w] = {} /\ stage'[w] = "waiting"
    <3>1. Underway(w)' = Underway(w) \cup {parcel[w]}
      BY <1>3, <1>5, <2>2 DEF Underway
    <3>2. flight[w] = buffer[w] \cup unsettled[w] \cup Underway(w)
      BY <1>1, <1>3, <2>2 DEF BooksAgree, Underway
    <3>3. QED
      BY <1>2, <1>3, <1>4, <2>2, <3>1, <3>2
  <2>3. ASSUME NEW v \in Collectors, stage'[v] # "failed"
        PROVE  /\ link[v] = "attached" =>
                    flight[v] = buffer[v] \cup unsettled'[v] \cup Underway(v)'
               /\ unsettled'[v] = IF stage'[v] \in {"received", "settling"}
                                  THEN {parcel[v]} ELSE {}
    BY <1>1, <2>1, <2>2, <2>3
  <2>4. QED
    BY <1>1, <2>3 DEF BooksAgree, Underway
<1>11. QED
  BY <1>6, <1>8, <1>9, <1>10

(* A link that breaks or is detached returns what was in flight, and takes *)
(* its dispositions with it.                                               *)
LEMMA ReturnedOnce ==
  ASSUME ConsignInv, NEW w \in Collectors, Break(w) \/ detachReceiver(w)
  PROVE  OneFlight' /\ OneDisposition' /\ Unlinked' /\ BooksAgree'
<1> USE DEF ConsignInv, Typed, handVars, nodeVars, linkVars, workerVars, carrierVars
<1>1. /\ UNCHANGED <<handed, parcel>>
      /\ node' = node \cup flight[w] /\ flight'[w] = {} /\ link'[w] # "attached"
      /\ dispositions' = {d \in dispositions : d.link # w}
  BY DEF Break, detachReceiver
<1>2. \A v \in Collectors \ {w} :
        /\ flight'[v] = flight[v] /\ link'[v] = link[v] /\ buffer'[v] = buffer[v]
        /\ unsettled'[v] = unsettled[v] /\ stage'[v] = stage[v]
  BY DEF Break, detachReceiver
<1>3. \/ /\ link'[w] = "broken" /\ stage'[w] = stage[w] /\ unsettled'[w] = unsettled[w]
      \/ stage'[w] = "idle" /\ buffer'[w] = {} /\ unsettled'[w] = {}
  BY DEF Break, detachReceiver
<1>4. OneFlight'
  BY <1>1, <1>2 DEF OneFlight
<1>5. OneDisposition'
  BY <1>1, <1>2 DEF OneDisposition
<1>6. Unlinked'
  BY <1>1, <1>2, <1>3 DEF Unlinked
<1>7. BooksAgree'
  <2>1. ASSUME NEW v \in Collectors \ {w}, stage[v] # "failed"
        PROVE  /\ link[v] = "attached" =>
                    flight[v] = buffer[v] \cup unsettled[v] \cup Underway(v)'
               /\ unsettled[v] = IF stage[v] \in {"received", "settling"}
                                 THEN {parcel[v]} ELSE {}
    <3>1. Underway(v)' = Underway(v)
      BY <1>1 DEF Underway
    <3>2. QED
      BY <2>1, <3>1 DEF BooksAgree, Underway
  <2>2. stage'[w] # "failed" =>
          unsettled'[w] = IF stage'[w] \in {"received", "settling"} THEN {parcel[w]} ELSE {}
    BY <1>3 DEF BooksAgree
  <2>3. QED
    BY <1>1, <1>2, <2>1, <2>2, ZenonT(40) DEF BooksAgree, Underway
<1>8. QED
  BY <1>4, <1>5, <1>6, <1>7

(* A step of a collector that leaves the broker and the link alone.        *)
LEMMA BooksAlone ==
  ASSUME ConsignInv, NEW w \in Collectors,
         UNCHANGED <<handed, node, flight, dispositions, buffer, unsettled, parcel>>,
         \A v \in Collectors \ {w} : link'[v] = link[v] /\ stage'[v] = stage[v],
         link'[w] \in {"attached", "broken"} \/ stage'[w] = "idle",
         \/ link'[w] = link[w]
         \/ link[w] \notin {"attached", "broken"},
         \/ stage'[w] = "failed"
         \/ stage[w] = stage'[w]
         \/ {stage[w], stage'[w]} \subseteq {"idle", "waiting"}
         \/ {stage[w], stage'[w]} \subseteq {"received", "settling"}
  PROVE  OneFlight' /\ OneDisposition' /\ Unlinked' /\ BooksAgree'
<1>1. OneFlight'
  BY DEF ConsignInv, OneFlight
<1>2. \A d \in dispositions : link[d.link] = "attached" /\ d.link \in Collectors
  BY DEF ConsignInv, OneDisposition, Typed
<1>3. link'[w] # link[w] =>
        /\ flight[w] = {} /\ buffer[w] = {} /\ unsettled[w] = {} /\ Underway(w) = {}
        /\ stage[w] = "idle"
  BY <1>2 DEF ConsignInv, Unlinked, Underway
<1>4. OneDisposition'
  BY <1>2, <1>3 DEF ConsignInv, OneDisposition
<1>5. Unlinked'
  BY DEF ConsignInv, Unlinked
<1>6. BooksAgree'
  BY <1>3, ZenonT(40) DEF ConsignInv, BooksAgree, Underway
<1>7. QED
  BY <1>1, <1>4, <1>5, <1>6

(* Every step keeps the broker's and the links' books together.            *)
LEMMA BooksKept ==
  ConsignInv /\ [ConsignNext]_consignVars =>
    OneFlight' /\ OneDisposition' /\ Unlinked' /\ BooksAgree'
<1> SUFFICES ASSUME ConsignInv, [ConsignNext]_consignVars
             PROVE  OneFlight' /\ OneDisposition' /\ Unlinked' /\ BooksAgree'
  OBVIOUS
<1> USE DEF handVars, nodeVars, linkVars, workerVars, carrierVars
<1>1. ASSUME NEW w \in Collectors,
             Connect10(w) \/ Open10(w) \/ Receiver(w) \/ endSession(w) \/ disconnect10(w)
      PROVE  OneFlight' /\ OneDisposition' /\ Unlinked' /\ BooksAgree'
  <2>1. /\ UNCHANGED <<handed, node, flight, dispositions, buffer, unsettled, parcel, stage>>
        /\ link[w] \notin {"attached", "broken"}
        /\ \A v \in Collectors \ {w} : link'[v] = link[v]
    BY <1>1 DEF Connect10, Open10, Receiver, endSession, disconnect10, Hold, ConsignInv, Typed
  <2>2. stage[w] = "idle"
    BY <2>1 DEF ConsignInv, Unlinked
  <2>3. QED
    BY <2>1, <2>2, BooksAlone
<1>2. ASSUME NEW w \in Collectors, Collect(w) \/ EndOfStream(w) \/ Unread(w) \/ Abandon(w)
      PROVE  OneFlight' /\ OneDisposition' /\ Unlinked' /\ BooksAgree'
  <2>1. /\ UNCHANGED <<handed, node, flight, dispositions, link, buffer, unsettled, parcel>>
        /\ \A v \in Collectors \ {w} : stage'[v] = stage[v]
    BY <1>2 DEF Collect, EndOfStream, Unread, Abandon, ConsignInv, Typed
  <2>2. \/ stage'[w] = "failed" /\ stage[w] # "idle"
        \/ stage[w] = "idle" /\ stage'[w] = "waiting" /\ link[w] \in {"attached", "broken"}
        \/ stage[w] = "waiting" /\ stage'[w] = "idle"
        \/ stage[w] = "received" /\ stage'[w] = "settling"
    BY <1>2 DEF Collect, EndOfStream, Unread, Abandon, ConsignInv, Typed
  <2>3. stage[w] # "idle" => link[w] \in {"attached", "broken"}
    BY DEF ConsignInv, Unlinked
  <2>4. QED
    BY <2>1, <2>2, <2>3, BooksAlone
<1>3. ASSUME NEW w \in Collectors, NEW outcome \in Outcomes, Offer(w, outcome)
      PROVE  OneFlight' /\ OneDisposition' /\ Unlinked' /\ BooksAgree'
  <2>1. /\ UNCHANGED <<handed, node, flight, dispositions, link, buffer, unsettled, parcel>>
        /\ \A v \in Collectors \ {w} : stage'[v] = stage[v]
        /\ stage[w] = "received" /\ stage'[w] = "settling"
    BY <1>3 DEF Offer, ConsignInv, Typed
  <2>2. link[w] \in {"attached", "broken"}
    BY <2>1 DEF ConsignInv, Unlinked
  <2>3. QED
    BY <2>1, <2>2, BooksAlone
<1>4. CASE UNCHANGED consignVars
  BY <1>4 DEF consignVars, ConsignInv, OneFlight, OneDisposition, Unlinked, BooksAgree
<1>5. QED
  BY <1>1, <1>2, <1>3, <1>4, SentOnce, AppliedOnce, TransferredOnce, ReceivedOnce,
     SettlesOnce, ReturnedOnce DEF ConsignNext

(* The invariant holds in every state of the collectors and their broker.  *)
LEMMA ConsignInvariant == ConsignSpec => []ConsignInv
<1>1. ConsignInv /\ [ConsignNext]_consignVars => ConsignInv'
  BY TypesKept, WordsSpoken, BooksKept DEF ConsignInv
<1>2. QED
  BY <1>1, ConsignInitial, PTL DEF ConsignSpec

(* However links break, nothing is said of a shipment that no carrier said *)
(* (consign.go, settleConsignment).                                        *)
THEOREM WordsCorrect == ConsignSpec => []NothingInvented
BY ConsignInvariant, PTL DEF ConsignInv

(* While a stream runs, the link's table of unsettled deliveries and the   *)
(* broker's account of what is in flight agree (receive.go, links.go).     *)
THEOREM BooksCorrect == ConsignSpec => []BooksAgree
BY ConsignInvariant, PTL DEF ConsignInv

-----------------------------------------------------------------------------
(* What the broker counts.  A disposition says a delivery failed when it   *)
(* was one of settleConsignment's for a carrier that said NotNow.          *)
Failed == Modify(TRUE, FALSE)

(* A failure that is decided, or on its way, has been said and is not yet  *)
(* counted.                                                                *)
Uncounted ==
  /\ count \in [Shipments -> Nat] /\ notNow \in [Shipments -> Nat]
  /\ \A d \in dispositions : d.disposition = Failed => count[d.shipment] < notNow[d.shipment]
  /\ \A w \in Collectors : stage[w] = "settling" /\ link[w] = "attached" /\ decision[w] = Failed =>
       count[parcel[w]] < notNow[parcel[w]]

CountInv == Uncounted /\ CountsOnlyFailures

(* Only one of the dispositions counts as a failure.                       *)
LEMMA OneFails ==
  /\ Failed # Accept /\ Failed # Reject
  /\ \A d \in Decisions : d.kind = "modify" /\ d.failed => d = Failed
  /\ \A outcome \in Outcomes : settleConsignment(outcome) = Failed => outcome = "notNow"
<1>1. Failed # Accept /\ Failed # Reject
  BY Kinds DEF Failed
<1>2. Modify(FALSE, TRUE) # Failed /\ ~Modify(FALSE, TRUE).failed
  BY DEF Failed, Modify
<1>3. \A d \in Decisions : d.kind = "modify" /\ d.failed => d = Failed
  BY <1>2, Kinds DEF Decisions, Failed
<1>4. \A outcome \in Outcomes : settleConsignment(outcome) = Failed => outcome = "notNow"
  BY <1>1, <1>2 DEF Outcomes, settleConsignment
<1>5. QED
  BY <1>1, <1>3, <1>4

(* A delivery being settled is in flight to the link it is settled on.     *)
LEMMA InHand ==
  ASSUME ConsignInv, NEW w \in Collectors, stage[w] \in {"received", "settling"}
  PROVE  /\ parcel[w] \in Shipments /\ unsettled[w] = {parcel[w]}
         /\ link[w] = "attached" => parcel[w] \in flight[w]
<1>1. unsettled[w] = {parcel[w]}
  BY DEF ConsignInv, BooksAgree
<1>2. parcel[w] \in Shipments
  BY <1>1 DEF ConsignInv, Typed
<1>3. link[w] = "attached" => parcel[w] \in flight[w]
  BY <1>1 DEF ConsignInv, BooksAgree
<1>4. QED
  BY <1>1, <1>2, <1>3

(* What is on its way is the only word under way of its shipment.          *)
LEMMA OnlyWord ==
  ASSUME ConsignInv, NEW d \in dispositions
  PROVE  /\ \A e \in dispositions : e.shipment = d.shipment => e = d
         /\ \A w \in Collectors : stage[w] = "settling" /\ link[w] = "attached" =>
              parcel[w] # d.shipment
<1>1. d.link \in Collectors /\ d.shipment \in flight[d.link] /\ link[d.link] = "attached"
  BY DEF ConsignInv, OneDisposition, Typed
<1>2. \A w \in Collectors \ {d.link} : d.shipment \notin flight[w]
  BY <1>1 DEF ConsignInv, OneFlight
<1>3. \A e \in dispositions : e.shipment = d.shipment => e = d
  <2> SUFFICES ASSUME NEW e \in dispositions, e.shipment = d.shipment PROVE e = d
    OBVIOUS
  <2>1. e.link \in Collectors /\ e.shipment \in flight[e.link]
    BY DEF ConsignInv, OneDisposition, Typed
  <2>2. e.link = d.link
    BY <1>2, <2>1
  <2>3. QED
    BY <2>2 DEF ConsignInv, OneDisposition
<1>4. ASSUME NEW w \in Collectors, stage[w] = "settling", link[w] = "attached"
      PROVE  parcel[w] # d.shipment
  <2>1. parcel[w] \in flight[w] /\ unsettled[w] = {parcel[w]}
    BY <1>4, InHand
  <2>2. CASE w = d.link
    BY <1>4, <2>1, <2>2 DEF ConsignInv, OneDisposition
  <2>3. CASE w # d.link
    BY <1>2, <2>1, <2>3
  <2>4. QED
    BY <2>2, <2>3
<1>5. QED
  BY <1>3, <1>4

(* Nothing is counted by a step that decides, sends and counts nothing.    *)
LEMMA NothingCounted ==
  ASSUME CountInv, UNCHANGED <<count, notNow>>, dispositions' \subseteq dispositions,
         \A w \in Collectors : stage'[w] = "settling" /\ link'[w] = "attached" =>
           \/ decision'[w] # Failed
           \/ /\ stage[w] = "settling" /\ link[w] = "attached"
              /\ parcel'[w] = parcel[w] /\ decision'[w] = decision[w]
  PROVE  CountInv'
BY DEF CountInv, Uncounted, CountsOnlyFailures

(* Every step keeps the broker's count behind the carriers' words.         *)
LEMMA CountKept == ConsignInv /\ CountInv /\ [ConsignNext]_consignVars => CountInv'
<1> SUFFICES ASSUME ConsignInv, CountInv, [ConsignNext]_consignVars PROVE CountInv'
  OBVIOUS
<1> USE DEF handVars, nodeVars, linkVars, workerVars, carrierVars
<1>1. ASSUME NEW s \in Shipments, Hand(s) \/ HandOther(s) PROVE CountInv'
  BY <1>1, NothingCounted DEF Hand, HandOther
<1>2. ASSUME NEW d \in dispositions, ApplyDisposition(d) PROVE CountInv'
  <2>1. /\ UNCHANGED <<notNow, stage, link, parcel, decision>>
        /\ dispositions' = dispositions \ {d}
    BY <1>2 DEF ApplyDisposition
  <2>2. d.shipment \in Shipments /\ d.disposition \in Decisions
    BY DEF ConsignInv, Typed
  <2>3. /\ count' \in [Shipments -> Nat]
        /\ \A s \in Shipments \ {d.shipment} : count'[s] = count[s]
        /\ count'[d.shipment] <= notNow[d.shipment]
    <3>1. CASE d.disposition.kind = "modify" /\ d.disposition.failed
      <4>1. d.disposition = Failed
        BY <2>2, <3>1, OneFails
      <4>2. count[d.shipment] < notNow[d.shipment]
        BY <4>1 DEF CountInv, Uncounted
      <4>3. count' = [count EXCEPT ![d.shipment] = @ + 1]
        BY <1>2, <3>1 DEF ApplyDisposition
      <4>4. QED
        BY <2>2, <4>2, <4>3 DEF CountInv, Uncounted
    <3>2. CASE ~(d.disposition.kind = "modify" /\ d.disposition.failed)
      <4>1. count' = [count EXCEPT ![d.shipment] = @]
        BY <1>2, <3>2 DEF ApplyDisposition
      <4>2. QED
        BY <2>2, <4>1 DEF CountInv, Uncounted, CountsOnlyFailures
    <3>3. QED
      BY <3>1, <3>2
  <2>4. \A e \in dispositions' : e.shipment # d.shipment /\ e.shipment \in Shipments
    BY <2>1, OnlyWord DEF ConsignInv, Typed
  <2>5. \A w \in Collectors : stage[w] = "settling" /\ link[w] = "attached" =>
          parcel[w] # d.shipment /\ parcel[w] \in Shipments
    BY OnlyWord, InHand
  <2>6. QED
    BY <2>1, <2>2, <2>3, <2>4, <2>5 DEF CountInv, Uncounted, CountsOnlyFailures
<1>3. ASSUME NEW w \in Collectors, NEW s \in Shipments,
             Transfer(w, s) \/ Receive(w, s) \/ ReceiveFails(w, s)
      PROVE  CountInv'
  <2>1. \A v \in Collectors : stage'[v] = "settling" =>
          stage[v] = "settling" /\ parcel'[v] = parcel[v] /\ decision'[v] = decision[v]
    BY <1>3 DEF Transfer, Receive, ReceiveFails, ConsignInv, Typed
  <2>2. UNCHANGED <<count, notNow, link, dispositions>>
    BY <1>3 DEF Transfer, Receive, ReceiveFails
  <2>3. QED
    BY <2>1, <2>2, NothingCounted
<1>4. ASSUME NEW w \in Collectors, NEW outcome \in Outcomes, Offer(w, outcome)
      PROVE  CountInv'
  <2>1. parcel[w] \in Shipments
    BY <1>4, InHand DEF Offer
  <2>2. /\ UNCHANGED <<count, link, dispositions, parcel>>
        /\ \A v \in Collectors \ {w} : stage'[v] = stage[v] /\ decision'[v] = decision[v]
        /\ decision'[w] = settleConsignment(outcome)
    BY <1>4 DEF Offer, ConsignInv, Typed
  <2>3. /\ notNow' \in [Shipments -> Nat]
        /\ \A s \in Shipments : notNow'[s] >= notNow[s]
        /\ outcome = "notNow" => notNow'[parcel[w]] = notNow[parcel[w]] + 1
    BY <1>4, <2>1 DEF Offer, CountInv, Uncounted
  <2>4. decision'[w] = Failed => count[parcel[w]] < notNow'[parcel[w]]
    <3>1. decision'[w] = Failed => outcome = "notNow"
      BY <2>2, OneFails
    <3>2. count[parcel[w]] < notNow[parcel[w]] + 1
      BY <2>1 DEF CountInv, Uncounted, CountsOnlyFailures
    <3>3. QED
      BY <2>3, <3>1, <3>2
  <2>5. \A d \in dispositions : d.disposition = Failed => count[d.shipment] < notNow'[d.shipment]
    BY <2>3 DEF CountInv, Uncounted, ConsignInv, Typed
  <2>6. \A v \in Collectors \ {w} :
          stage[v] = "settling" /\ link[v] = "attached" /\ decision[v] = Failed =>
            count[parcel[v]] < notNow'[parcel[v]]
    BY <2>3, InHand DEF CountInv, Uncounted
  <2>7. Uncounted'
    BY <2>2, <2>3, <2>4, <2>5, <2>6 DEF CountInv, Uncounted
  <2>8. CountsOnlyFailures'
    BY <2>2, <2>3 DEF CountInv, Uncounted, CountsOnlyFailures
  <2>9. QED
    BY <2>7, <2>8 DEF CountInv
<1>5. ASSUME NEW w \in Collectors, Unread(w) PROVE CountInv'
  <2>1. /\ UNCHANGED <<count, notNow, link, dispositions, parcel>>
        /\ \A v \in Collectors \ {w} : stage'[v] = stage[v] /\ decision'[v] = decision[v]
        /\ decision'[w] = Reject
    BY <1>5 DEF Unread, ConsignInv, Typed
  <2>2. QED
    BY <2>1, OneFails, NothingCounted
<1>6. ASSUME NEW w \in Collectors, Settled(w) \/ SettleFails(w) PROVE CountInv'
  <2> DEFINE said == [link |-> w, shipment |-> parcel[w], disposition |-> decision[w]]
  <2>1. /\ UNCHANGED <<count, notNow, link, parcel, decision>>
        /\ stage[w] = "settling"
        /\ \A v \in Collectors : stage'[v] = "settling" => stage[v] = "settling"
    BY <1>6 DEF Settled, SettleFails, settle, ConsignInv, Typed
  <2>2. \/ dispositions' = dispositions \cup {said} /\ link[w] = "attached"
        \/ dispositions' = dispositions
    BY <1>6 DEF Settled, SettleFails, settle
  <2>3. said.shipment = parcel[w] /\ said.disposition = decision[w]
    OBVIOUS
  <2> HIDE DEF said
  <2>4. \A d \in dispositions' : d.disposition = Failed => count[d.shipment] < notNow[d.shipment]
    BY <2>1, <2>2, <2>3 DEF CountInv, Uncounted
  <2>5. QED
    BY <2>1, <2>4 DEF CountInv, Uncounted, CountsOnlyFailures
<1>7. ASSUME NEW w \in Collectors,
             Connect10(w) \/ Open10(w) \/ Receiver(w) \/ endSession(w) \/ disconnect10(w)
      PROVE  CountInv'
  <2>1. /\ UNCHANGED <<count, notNow, dispositions, stage, parcel, decision>>
        /\ link[w] \notin {"attached", "broken"}
        /\ \A v \in Collectors \ {w} : link'[v] = link[v]
    BY <1>7 DEF Connect10, Open10, Receiver, endSession, disconnect10, Hold, ConsignInv, Typed
  <2>2. stage[w] = "idle"
    BY <2>1 DEF ConsignInv, Unlinked
  <2>3. QED
    BY <2>1, <2>2, NothingCounted
<1>8. ASSUME NEW w \in Collectors,
             Break(w) \/ detachReceiver(w) \/ Collect(w) \/ EndOfStream(w) \/ Abandon(w)
      PROVE  CountInv'
  <2>1. /\ UNCHANGED <<count, notNow, parcel, decision>> /\ dispositions' \subseteq dispositions
        /\ \A v \in Collectors : /\ stage'[v] = "settling" => stage[v] = "settling"
                                 /\ link'[v] = "attached" => link[v] = "attached"
    BY <1>8 DEF Break, detachReceiver, Collect, EndOfStream, Abandon, ConsignInv, Typed
  <2>2. QED
    BY <2>1, NothingCounted
<1>9. CASE UNCHANGED consignVars
  BY <1>9, NothingCounted DEF consignVars
<1>10. QED
  BY <1>1, <1>2, <1>3, <1>4, <1>5, <1>6, <1>7, <1>8, <1>9 DEF ConsignNext

(* The broker never counts more failures of a shipment than its carriers   *)
(* reported (consign.go, settleConsignment; links.go, settle).             *)
THEOREM CountCorrect == ConsignSpec => []CountsOnlyFailures
<1>1. ConsignInit => CountInv
  BY DEF ConsignInit, CountInv, Uncounted, CountsOnlyFailures
<1>2. QED
  BY <1>1, CountKept, ConsignInvariant, PTL DEF ConsignSpec, CountInv
=============================================================================
