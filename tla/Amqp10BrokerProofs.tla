------------------------- MODULE Amqp10BrokerProofs ------------------------
(***************************************************************************)
(* The order in which messages first reach receivers, for any links, nodes *)
(* and changes.                                                            *)
(***************************************************************************)
EXTENDS Amqp10Broker, SequenceTheorems, FiniteSetTheorems, TLAPS

Typed ==
  /\ tag \in Nat
  /\ backlog \in [Addresses -> Seq(Delivery)]
  /\ address \in [Links -> SUBSET Addresses]
  /\ \A l \in Links : \A a, b \in address[l] : a = b
  /\ taken \in [Receivers -> SUBSET Delivery]
  /\ unsettled \in [Receivers -> SUBSET Delivery]
  /\ \A e \in deciding : e.delivery \in Delivery /\ e.disposition \in Dispositions

(* Among what waits at a node and was never given back, the older message  *)
(* is in front, and none is newer than the last tag.                       *)
InOrder(q) ==
  /\ \A i \in 1 .. Len(q) : q[i].tag \notin returned => q[i].tag <= tag
  /\ \A i, j \in 1 .. Len(q) :
       i < j /\ {q[i].tag, q[j].tag} \cap returned = {} => q[i].tag < q[j].tag

(* Invariant by induction.                                                 *)
OrderInv == Typed /\ \A a \in Addresses : InOrder(backlog[a])

-----------------------------------------------------------------------------
(* Tags are numbers.                                                       *)
LEMMA TagIsNat == ASSUME NEW d \in Delivery PROVE d.tag \in Nat
BY Amqp10Assumption DEF Delivery, Tags

(* So are the tags of everything that waits.                               *)
LEMMA TagsAreNat ==
  ASSUME NEW q \in Seq(Delivery)
  PROVE  Len(q) \in Nat /\ \A i \in 1 .. Len(q) : q[i].tag \in Nat
<1>1. Len(q) \in Nat /\ \A i \in 1 .. Len(q) : q[i] \in Delivery
  BY LenProperties, ElementOfSeq
<1>2. QED
  BY <1>1, TagIsNat

(* What is left when the oldest is taken is in order, and nothing in it    *)
(* that was never given back is older.                                     *)
LEMMA TailInOrder ==
  ASSUME NEW q \in Seq(Delivery), q # <<>>, InOrder(q), tag \in Nat
  PROVE  /\ InOrder(Tail(q)) /\ Tail(q) \in Seq(Delivery)
         /\ \A i \in 1 .. Len(q) :
              {q[1].tag, q[i].tag} \cap returned = {} => q[i].tag >= q[1].tag
<1>1. /\ Len(q) \in Nat /\ Len(q) > 0 /\ \A i \in 1 .. Len(q) : q[i].tag \in Nat
  BY EmptySeq, TagsAreNat
<1>2. /\ Tail(q) \in Seq(Delivery) /\ Len(Tail(q)) = Len(q) - 1
      /\ \A i \in 1 .. Len(Tail(q)) : Tail(q)[i] = q[i + 1]
  BY HeadTailProperties
<1>3. InOrder(Tail(q))
  BY <1>1, <1>2 DEF InOrder
<1>4. QED
  BY <1>1, <1>2, <1>3 DEF InOrder

(* A message newer than every untouched one, or one that was given back,   *)
(* may join at the end.                                                    *)
LEMMA AppendInOrder ==
  ASSUME NEW q \in Seq(Delivery), NEW d \in Delivery, tag \in Nat,
         NEW given, NEW last \in Nat,
         \A i \in 1 .. Len(q) : q[i].tag \notin given => q[i].tag <= last,
         \A i, j \in 1 .. Len(q) :
           i < j /\ {q[i].tag, q[j].tag} \cap given = {} => q[i].tag < q[j].tag,
         \/ d.tag \in given
         \/ d.tag = last + 1
  PROVE  LET whole == Append(q, d) IN
         /\ whole \in Seq(Delivery)
         /\ \A i \in 1 .. Len(whole) : whole[i].tag \notin given => whole[i].tag <= last + 1
         /\ d.tag \in given =>
              \A i \in 1 .. Len(whole) : whole[i].tag \notin given => whole[i].tag <= last
         /\ \A i, j \in 1 .. Len(whole) :
              i < j /\ {whole[i].tag, whole[j].tag} \cap given = {}
                => whole[i].tag < whole[j].tag
<1> DEFINE whole == Append(q, d)
<1>1. /\ Len(q) \in Nat /\ d.tag \in Nat
      /\ \A i \in 1 .. Len(q) : q[i].tag \in Nat
  BY TagIsNat, TagsAreNat
<1>2. /\ whole \in Seq(Delivery) /\ Len(whole) = Len(q) + 1
      /\ \A i \in 1 .. Len(q) : whole[i] = q[i]
      /\ whole[Len(q) + 1] = d
  BY AppendProperties
<1> HIDE DEF whole
<1>3. \A i \in 1 .. Len(whole) : whole[i].tag \notin given => whole[i].tag <= last + 1
  <2> SUFFICES ASSUME NEW i \in 1 .. Len(whole), whole[i].tag \notin given
               PROVE  whole[i].tag <= last + 1
    OBVIOUS
  <2>1. CASE i \in 1 .. Len(q)
    <3>1. q[i].tag \in Nat /\ q[i].tag <= last /\ whole[i] = q[i]
      BY <1>1, <1>2, <2>1
    <3>2. QED
      BY <3>1
  <2>2. CASE i = Len(q) + 1
    BY <1>1, <1>2, <2>2
  <2>3. QED
    BY <1>1, <1>2, <2>1, <2>2
<1>4. d.tag \in given =>
        \A i \in 1 .. Len(whole) : whole[i].tag \notin given => whole[i].tag <= last
  BY <1>1, <1>2
<1>5. \A i, j \in 1 .. Len(whole) :
        i < j /\ {whole[i].tag, whole[j].tag} \cap given = {}
          => whole[i].tag < whole[j].tag
  <2> SUFFICES ASSUME NEW i \in 1 .. Len(whole), NEW j \in 1 .. Len(whole), i < j,
                      {whole[i].tag, whole[j].tag} \cap given = {}
               PROVE  whole[i].tag < whole[j].tag
    OBVIOUS
  <2>1. i \in 1 .. Len(q) /\ whole[i] = q[i]
    BY <1>1, <1>2
  <2>2. CASE j \in 1 .. Len(q)
    BY <1>2, <2>1, <2>2
  <2>3. CASE j = Len(q) + 1
    BY <1>1, <1>2, <2>1, <2>3
  <2>4. QED
    BY <1>1, <1>2, <2>2, <2>3
<1>6. QED
  BY <1>2, <1>3, <1>4, <1>5 DEF whole

(* Nodes are empty at first.                                               *)
LEMMA OrderInitial == Init => OrderInv
<1> SUFFICES ASSUME Init PROVE OrderInv
  OBVIOUS
<1>1. Typed
  BY DEF Init, Typed
<1>2. \A a \in Addresses : InOrder(backlog[a])
  BY DEF Init, InOrder
<1>3. QED
  BY <1>1, <1>2 DEF OrderInv

(* Every step preserves the invariant.                                     *)
LEMMA OrderStep == OrderInv /\ [Next]_vars => OrderInv'
<1> SUFFICES ASSUME OrderInv, [Next]_vars PROVE OrderInv'
  OBVIOUS
<1> USE DEF OrderInv, nodeVars, linkVars
<1>1. ASSUME NEW a \in Addresses, Declare(a) PROVE OrderInv'
  BY <1>1 DEF Declare, Typed, InOrder
<1>2. ASSUME NEW l \in Links, NEW a \in Addresses, Attach(l, a) PROVE OrderInv'
  <2>1. Typed'
    BY <1>2 DEF Attach, Typed
  <2>2. QED
    BY <1>2, <2>1 DEF Attach, InOrder
<1>3. ASSUME NEW l \in Links, Detach(l) \/ CheckAttached(l) PROVE OrderInv'
  BY <1>3 DEF Detach, CheckAttached, Typed, InOrder
<1>4. ASSUME NEW s \in Senders, Send(s) PROVE OrderInv'
  <2>1. PICK a \in address[s] :
          backlog' = [backlog EXCEPT ![a] = Append(@, [tag |-> tag + 1, attempts |-> 0])]
    BY <1>4 DEF Send
  <2>2. a \in Addresses /\ backlog[a] \in Seq(Delivery)
    BY DEF Typed, Links
  <2>3. [tag |-> tag + 1, attempts |-> 0] \in Delivery
    BY <1>4, Amqp10Assumption DEF Send, Typed, Delivery, Tags
  <2>4. tag' = tag + 1 /\ UNCHANGED <<returned, address, taken, unsettled, deciding>>
    BY <1>4 DEF Send
  <2>5. backlog'[a] \in Seq(Delivery) /\ InOrder(backlog[a])'
    <3> DEFINE d == [tag |-> tag + 1, attempts |-> 0]
    <3>1. backlog'[a] = Append(backlog[a], d)
      BY <2>1, <2>2 DEF Typed
    <3>2. d \in Delivery /\ d.tag = tag + 1 /\ tag \in Nat
      BY <2>3 DEF Typed
    <3>3. InOrder(backlog[a])
      BY <2>2
    <3> HIDE DEF d
    <3>4. /\ Append(backlog[a], d) \in Seq(Delivery)
          /\ \A i \in 1 .. Len(Append(backlog[a], d)) :
               Append(backlog[a], d)[i].tag \notin returned
                 => Append(backlog[a], d)[i].tag <= tag + 1
          /\ \A i, j \in 1 .. Len(Append(backlog[a], d)) :
               /\ i < j
               /\ {Append(backlog[a], d)[i].tag, Append(backlog[a], d)[j].tag}
                    \cap returned = {}
               => Append(backlog[a], d)[i].tag < Append(backlog[a], d)[j].tag
      BY <2>2, <3>2, <3>3, AppendInOrder DEF InOrder
    <3>5. QED
      BY <2>4, <3>1, <3>4 DEF InOrder
  <2>6. \A b \in Addresses \ {a} : backlog'[b] = backlog[b]
    BY <2>1, <2>2 DEF Typed
  <2>7. \A b \in Addresses \ {a} : InOrder(backlog[b])'
    <3> SUFFICES ASSUME NEW b \in Addresses \ {a} PROVE InOrder(backlog[b])'
      OBVIOUS
    <3>1. \A i \in 1 .. Len(backlog[b]) : backlog[b][i].tag \in Nat
      BY TagsAreNat DEF Typed
    <3>2. InOrder(backlog[b])
      OBVIOUS
    <3>3. \A i \in 1 .. Len(backlog[b]) :
            backlog[b][i].tag \notin returned => backlog[b][i].tag <= tag + 1
      <4> SUFFICES ASSUME NEW i \in 1 .. Len(backlog[b]), backlog[b][i].tag \notin returned
                   PROVE  backlog[b][i].tag <= tag + 1
        OBVIOUS
      <4>1. backlog[b][i].tag \in Nat /\ backlog[b][i].tag <= tag /\ tag \in Nat
        BY <3>1, <3>2 DEF InOrder, Typed
      <4>2. QED
        BY <4>1
    <3>4. QED
      BY <2>4, <2>6, <3>2, <3>3 DEF InOrder
  <2>8. Typed'
    <3>1. tag' \in Nat
      BY <2>4 DEF Typed
    <3>2. backlog' \in [Addresses -> Seq(Delivery)]
      BY <2>1, <2>2, <2>5, <2>6 DEF Typed
    <3>3. QED
      BY <2>4, <3>1, <3>2 DEF Typed
  <2>9. QED
    BY <2>5, <2>7, <2>8
<1>5. ASSUME NEW r \in Receivers, Take(r) PROVE OrderInv'
  <2>1. PICK a \in address[r] :
          /\ backlog[a] # <<>>
          /\ taken' = [taken EXCEPT ![r] = {Head(backlog[a])}]
          /\ backlog' = [backlog EXCEPT ![a] = Tail(@)]
    BY <1>5 DEF Take
  <2>2. a \in Addresses /\ backlog[a] \in Seq(Delivery)
    BY DEF Typed, Links
  <2>3. Head(backlog[a]) \in Delivery /\ Tail(backlog[a]) \in Seq(Delivery)
    BY <2>1, <2>2, HeadTailProperties
  <2>4. UNCHANGED <<tag, returned, address, unsettled, deciding>>
    BY <1>5 DEF Take
  <2>5. InOrder(Tail(backlog[a]))
    BY <2>1, <2>2, TailInOrder DEF Typed
  <2>6. \A b \in Addresses : InOrder(backlog[b])'
    BY <2>1, <2>2, <2>4, <2>5 DEF InOrder, Typed
  <2>7. Typed'
    BY <2>1, <2>2, <2>3, <2>4 DEF Typed
  <2>8. QED
    BY <2>6, <2>7
<1>6. ASSUME NEW r \in Receivers, EndOfMessages(r) \/ HandOut(r) PROVE OrderInv'
  <2>1. UNCHANGED <<tag, backlog, returned, address, deciding>>
    BY <1>6 DEF EndOfMessages, HandOut
  <2>2. taken' \in [Receivers -> SUBSET Delivery] /\ unsettled' \in [Receivers -> SUBSET Delivery]
    BY <1>6 DEF EndOfMessages, HandOut, Typed
  <2>3. QED
    BY <2>1, <2>2 DEF Typed, InOrder
<1>7. ASSUME NEW r \in Receivers, NEW d \in unsettled[r], NEW x \in Dispositions,
             settle(r, d, x)
      PROVE  OrderInv'
  <2>1. d \in Delivery
    BY DEF Typed
  <2>2. Typed'
    BY <1>7, <2>1 DEF settle, Typed
  <2>3. QED
    BY <1>7, <2>2 DEF settle, InOrder
<1>8. ASSUME NEW e \in deciding, decide(e) PROVE OrderInv'
  <2>1. /\ UNCHANGED <<tag, address, taken, unsettled>> /\ deciding' = deciding \ {e}
        /\ e.delivery \in Delivery
    BY <1>8 DEF decide, Typed
  <2>2. CASE UNCHANGED <<backlog, returned>>
    BY <2>1, <2>2 DEF Typed, InOrder
  <2>3. ASSUME NEW d \in Delivery, redeliver(e.link, d) PROVE OrderInv'
    <3>1. /\ returned' = returned \cup {d.tag}
          /\ backlog' = [a \in Addresses |-> IF Attached(e.link, a)
                                             THEN Append(backlog[a], d) ELSE backlog[a]]
      BY <2>3 DEF redeliver
    <3>2. ASSUME NEW a \in Addresses
          PROVE  backlog'[a] \in Seq(Delivery) /\ InOrder(backlog[a])'
      <4>1. /\ backlog[a] \in Seq(Delivery) /\ InOrder(backlog[a]) /\ tag \in Nat
        BY DEF Typed
      <4>2. /\ \A i \in 1 .. Len(backlog[a]) :
                 backlog[a][i].tag \notin returned' => backlog[a][i].tag <= tag
            /\ \A i, j \in 1 .. Len(backlog[a]) :
                 i < j /\ {backlog[a][i].tag, backlog[a][j].tag} \cap returned' = {}
                   => backlog[a][i].tag < backlog[a][j].tag
        BY <3>1, <4>1 DEF InOrder
      <4>3. CASE Attached(e.link, a)
        <5>1. backlog'[a] = Append(backlog[a], d) /\ d.tag \in returned'
          BY <3>1, <4>3
        <5>2. QED
          BY <2>1, <4>1, <4>2, <5>1, AppendInOrder DEF InOrder
      <4>4. CASE ~Attached(e.link, a)
        BY <2>1, <3>1, <4>1, <4>2, <4>4 DEF InOrder
      <4>5. QED
        BY <4>3, <4>4
    <3>3. Typed'
      BY <2>1, <3>1, <3>2 DEF Typed
    <3>4. QED
      BY <3>2, <3>3
  <2>4. CASE e.disposition.kind = "modify"
             /\ redeliver(e.link, Modified(e.delivery, e.disposition.change))
    <3>1. Modified(e.delivery, e.disposition.change) \in Delivery
      BY <2>1 DEF Modified, Delivery
    <3>2. QED
      BY <2>3, <2>4, <3>1
  <2>5. QED
    BY <1>8, <2>1, <2>2, <2>3, <2>4 DEF decide
<1>9. CASE UNCHANGED vars
  BY <1>9 DEF vars, Typed, InOrder
<1>10. QED
  BY <1>1, <1>2, <1>3, <1>4, <1>5, <1>6, <1>7, <1>8, <1>9 DEF Next

(* From the invariant, a take is of the oldest of what waits untouched.    *)
LEMMA TakesTheOldest ==
  ASSUME OrderInv, [Next]_vars
  PROVE  \A r \in Receivers : \A d \in taken'[r] \ taken[r] :
           d.tag \notin returned =>
             \A a \in address[r] : \A i \in DOMAIN backlog[a] :
               backlog[a][i].tag \in returned \/ backlog[a][i].tag >= d.tag
<1> SUFFICES ASSUME NEW r \in Receivers, NEW d \in taken'[r] \ taken[r],
                    d.tag \notin returned, NEW a \in address[r],
                    NEW i \in DOMAIN backlog[a], backlog[a][i].tag \notin returned
             PROVE  backlog[a][i].tag >= d.tag
  OBVIOUS
<1>1. Take(r)
  <2>1. taken'[r] # taken[r]
    OBVIOUS
  <2>2. ~UNCHANGED taken
    BY <2>1
  <2>3. \E x \in Receivers : Take(x) \/ HandOut(x)
    BY <2>2 DEF Next, vars, nodeVars, linkVars, Declare, Attach, Detach, CheckAttached,
                Send, EndOfMessages, settle, decide
  <2>4. PICK x \in Receivers : Take(x) \/ HandOut(x)
    BY <2>3
  <2>5. ~HandOut(x)
    BY DEF HandOut, OrderInv, Typed
  <2>6. x = r
    BY <2>1, <2>4, <2>5 DEF Take, OrderInv, Typed
  <2>7. QED
    BY <2>4, <2>5, <2>6
<1>2. PICK b \in address[r] :
        backlog[b] # <<>> /\ taken' = [taken EXCEPT ![r] = {Head(backlog[b])}]
  BY <1>1 DEF Take
<1>3. a = b /\ d = Head(backlog[b]) /\ a \in Addresses
  BY <1>2 DEF OrderInv, Typed, Links
<1>4. /\ backlog[a] \in Seq(Delivery) /\ backlog[a] # <<>>
      /\ InOrder(backlog[a]) /\ tag \in Nat
  BY <1>2, <1>3 DEF OrderInv, Typed
<1>5. i \in 1 .. Len(backlog[a]) /\ d = backlog[a][1]
  BY <1>3, <1>4
<1>6. QED
  BY <1>4, <1>5, TailInOrder

(* A message first reaches a receiver in the order it was sent, whatever   *)
(* links, settlements and gaps between the two kinds of lock come between  *)
(* (links.go, settlement.go).                                              *)
THEOREM OrderCorrect == Spec => FirstComeFirstTaken
<1>1. OrderInv /\ [Next]_vars =>
        [\A r \in Receivers : \A d \in taken'[r] \ taken[r] :
           d.tag \notin returned =>
             \A a \in address[r] : \A i \in DOMAIN backlog[a] :
               backlog[a][i].tag \in returned \/ backlog[a][i].tag >= d.tag]_vars
  BY TakesTheOldest
<1>2. QED
  BY <1>1, OrderInitial, OrderStep, PTL DEF Spec, FirstComeFirstTaken

-----------------------------------------------------------------------------
(* Where the copies of a message are: the parts of Copies.                 *)

Waiting(t) == {at \in UNION {{a} \X DOMAIN backlog[a] : a \in Addresses} :
                 backlog[at[1]][at[2]].tag = t}
Taking(t) == {r \in Receivers : \E d \in taken[r] : d.tag = t}
Held(t) == {held \in Unsettled : held[2].tag = t}
Deciding(t) == {e \in deciding : e.delivery.tag = t}
Answers(t) == {i \in DOMAIN records : records[i].tag = t}

Lone(S) == \E x : S = {x}

(* One copy, in one of five places.                                        *)
Somewhere(W, K, H, D, F) ==
  \/ Lone(W) /\ K = {} /\ H = {} /\ D = {} /\ F = {}
  \/ W = {} /\ Lone(K) /\ H = {} /\ D = {} /\ F = {}
  \/ W = {} /\ K = {} /\ Lone(H) /\ D = {} /\ F = {}
  \/ W = {} /\ K = {} /\ H = {} /\ Lone(D) /\ F = {}
  \/ W = {} /\ K = {} /\ H = {} /\ D = {} /\ Lone(F)

Nowhere(W, K, H, D, F) == W = {} /\ K = {} /\ H = {} /\ D = {} /\ F = {}

Placed(t, sent) ==
  IF t <= sent THEN Somewhere(Waiting(t), Taking(t), Held(t), Deciding(t), Final(t))
  ELSE Nowhere(Waiting(t), Taking(t), Held(t), Deciding(t), Final(t))

(* A link that has something, or is about to, is attached to one node, and *)
(* a receiver takes only when it has nothing it took before.               *)
Linked ==
  /\ \A l \in checked : \E a \in Addresses : address[l] = {a}
  /\ \A r \in Receivers : taken[r] # {} \/ unsettled[r] # {} =>
       \E a \in Addresses : address[r] = {a}
  /\ \A e \in deciding : \E a \in Addresses : address[e.link] = {a}
  /\ \A r \in Receivers : r \in checked => taken[r] = {}
  /\ \A r \in Receivers : \A d, e \in taken[r] : d = e
  /\ \A e \in deciding : e.link \in Receivers
  /\ checked \subseteq Links

Recorded ==
  /\ tag <= MaxTag
  /\ records \in Seq([tag : Tags, disposition : Dispositions])
  /\ handed \in [Tags -> Nat]

(* Invariant by induction, beside OrderInv.                                *)
CopyInv == Linked /\ Recorded /\ \A t \in Tags : Placed(t, tag)

-----------------------------------------------------------------------------
(* What belongs to each place.                                             *)
LEMMA Belongs ==
  ASSUME Typed, NEW t
  PROVE  /\ \A x : x \in Waiting(t) <=>
              \E a \in Addresses : \E i \in 1 .. Len(backlog[a]) :
                x = <<a, i>> /\ backlog[a][i].tag = t
         /\ \A x : x \in Held(t) <=>
              \E r \in Receivers : \E d \in unsettled[r] : x = <<r, d>> /\ d.tag = t
<1>1. \A a \in Addresses : DOMAIN backlog[a] = 1 .. Len(backlog[a])
  BY LenProperties DEF Typed
<1>2. \A x : x \in Waiting(t) <=>
        \E a \in Addresses : \E i \in 1 .. Len(backlog[a]) :
          x = <<a, i>> /\ backlog[a][i].tag = t
  BY <1>1 DEF Waiting
<1>3. \A x : x \in Held(t) <=>
        \E r \in Receivers : \E d \in unsettled[r] : x = <<r, d>> /\ d.tag = t
  BY DEF Held, Unsettled
<1>4. QED
  BY <1>2, <1>3

(* A message that joins a node waits there, and nothing else moves.        *)
LEMMA Joins ==
  ASSUME Typed, Typed', NEW a \in Addresses, NEW d \in Delivery,
         backlog' = [backlog EXCEPT ![a] = Append(@, d)]
  PROVE  \A t : Waiting(t)' = IF t = d.tag THEN Waiting(t) \cup {<<a, Len(backlog[a]) + 1>>}
                              ELSE Waiting(t)
<1> SUFFICES ASSUME NEW t
             PROVE  Waiting(t)' = IF t = d.tag THEN Waiting(t) \cup {<<a, Len(backlog[a]) + 1>>}
                                  ELSE Waiting(t)
  OBVIOUS
<1>1. /\ backlog[a] \in Seq(Delivery) /\ Len(backlog[a]) \in Nat
      /\ backlog'[a] = Append(backlog[a], d)
      /\ \A b \in Addresses \ {a} : backlog'[b] = backlog[b]
  BY LenProperties DEF Typed
<1>2. /\ Len(backlog'[a]) = Len(backlog[a]) + 1
      /\ \A i \in 1 .. Len(backlog[a]) : backlog'[a][i] = backlog[a][i]
      /\ backlog'[a][Len(backlog[a]) + 1] = d
  BY <1>1, AppendProperties
<1>3. \A x : x \in Waiting(t)' <=>
        \E b \in Addresses : \E i \in 1 .. Len(backlog'[b]) :
          x = <<b, i>> /\ backlog'[b][i].tag = t
  <2>1. \A b \in Addresses : DOMAIN backlog'[b] = 1 .. Len(backlog'[b])
    BY LenProperties DEF Typed
  <2>2. QED
    BY <2>1 DEF Waiting
<1>4. \A x : x \in Waiting(t)' <=> x \in Waiting(t) \/ (t = d.tag /\ x = <<a, Len(backlog[a]) + 1>>)
  BY <1>1, <1>2, <1>3, Belongs
<1>5. QED
  BY <1>4

(* The message in front leaves; the others of its node move up.            *)
LEMMA Leaves ==
  ASSUME Typed, Typed', NEW a \in Addresses, backlog[a] # <<>>,
         backlog' = [backlog EXCEPT ![a] = Tail(@)]
  PROVE  \A t : /\ t # Head(backlog[a]).tag =>
                     /\ Waiting(t) = {} => Waiting(t)' = {}
                     /\ Lone(Waiting(t)) => Lone(Waiting(t)')
                /\ t = Head(backlog[a]).tag =>
                     /\ Waiting(t) # {}
                     /\ Lone(Waiting(t)) => Waiting(t)' = {}
<1> DEFINE q == backlog[a]
<1>1. /\ q \in Seq(Delivery) /\ Len(q) \in Nat /\ Len(q) > 0 /\ Head(q) = q[1] /\ q # <<>>
      /\ backlog'[a] = Tail(q)
      /\ \A b \in Addresses \ {a} : backlog'[b] = backlog[b]
  BY LenProperties, EmptySeq DEF Typed
<1>2. /\ Len(backlog'[a]) = Len(q) - 1
      /\ \A i \in 1 .. Len(backlog'[a]) : backlog'[a][i] = q[i + 1]
  <2> HIDE DEF q
  <2>1. q \in Seq(Delivery) /\ q # <<>>
    BY <1>1
  <2>2. Len(Tail(q)) = Len(q) - 1 /\ \A i \in 1 .. Len(Tail(q)) : Tail(q)[i] = q[i + 1]
    BY <2>1, HeadTailProperties
  <2>3. QED
    BY <1>1, <2>2
<1> HIDE DEF q
<1> SUFFICES ASSUME NEW t
             PROVE  /\ t # q[1].tag =>
                         /\ Waiting(t) = {} => Waiting(t)' = {}
                         /\ Lone(Waiting(t)) => Lone(Waiting(t)')
                    /\ t = q[1].tag =>
                         /\ Waiting(t) # {}
                         /\ Lone(Waiting(t)) => Waiting(t)' = {}
  BY <1>1 DEF q
<1>3. \A b, i : <<b, i>> \in Waiting(t)' <=>
        b \in Addresses /\ i \in 1 .. Len(backlog'[b]) /\ backlog'[b][i].tag = t
  <2>1. \A b \in Addresses : DOMAIN backlog'[b] = 1 .. Len(backlog'[b])
    BY LenProperties DEF Typed
  <2>2. QED
    BY <2>1 DEF Waiting
<1>4. \A b, i : <<b, i>> \in Waiting(t) <=>
        b \in Addresses /\ i \in 1 .. Len(backlog[b]) /\ backlog[b][i].tag = t
  BY Belongs
<1>5. /\ \A x \in Waiting(t) : \E b \in Addresses : \E i \in Nat : x = <<b, i>>
      /\ \A x \in Waiting(t)' : \E b \in Addresses : \E i \in Nat : x = <<b, i>>
  <2>1. \A b \in Addresses : /\ DOMAIN backlog'[b] = 1 .. Len(backlog'[b]) /\ Len(backlog'[b]) \in Nat
                             /\ DOMAIN backlog[b] = 1 .. Len(backlog[b]) /\ Len(backlog[b]) \in Nat
    BY LenProperties DEF Typed
  <2>2. QED
    BY <2>1 DEF Waiting
<1>6. \A b \in Addresses, i \in Nat : <<b, i>> \in Waiting(t)' <=>
        IF b = a THEN i # 0 /\ <<a, i + 1>> \in Waiting(t) ELSE <<b, i>> \in Waiting(t)
  <2> SUFFICES ASSUME NEW b \in Addresses, NEW i \in Nat
               PROVE  <<b, i>> \in Waiting(t)' <=>
                        IF b = a THEN i # 0 /\ <<a, i + 1>> \in Waiting(t)
                        ELSE <<b, i>> \in Waiting(t)
    OBVIOUS
  <2>1. CASE b = a
    <3>1. i \in 1 .. Len(backlog'[a]) <=> i # 0 /\ i + 1 \in 1 .. Len(q)
      BY <1>1, <1>2
    <3>2. i \in 1 .. Len(backlog'[a]) => backlog'[a][i] = q[i + 1]
      BY <1>2
    <3>3. QED
      BY <1>3, <1>4, <2>1, <3>1, <3>2 DEF q
  <2>2. CASE b # a
    BY <1>1, <1>3, <1>4, <2>2
  <2>3. QED
    BY <2>1, <2>2
<1>7. Waiting(t) = {} => Waiting(t)' = {}
  BY <1>5, <1>6
<1>8. ASSUME t # q[1].tag, NEW b \in Addresses, NEW i \in Nat, Waiting(t) = {<<b, i>>}
      PROVE  Lone(Waiting(t)')
  <2>1. b = a => i > 1 /\ i - 1 \in Nat
    BY <1>1, <1>4, <1>8 DEF q
  <2> DEFINE there == IF b = a THEN <<a, i - 1>> ELSE <<b, i>>
  <2>2. there \in Waiting(t)'
    BY <1>6, <1>8, <2>1
  <2>3. \A c \in Addresses, j \in Nat : <<c, j>> \in Waiting(t)' => <<c, j>> = there
    BY <1>6, <1>8, <2>1
  <2> HIDE DEF there
  <2>4. Waiting(t)' = {there}
    BY <1>5, <2>2, <2>3
  <2>5. QED
    BY <2>4 DEF Lone
<1>9. ASSUME t = q[1].tag
      PROVE  Waiting(t) # {} /\ (Lone(Waiting(t)) => Waiting(t)' = {})
  <2>1. <<a, 1>> \in Waiting(t)
    BY <1>1, <1>4, <1>9 DEF q
  <2>2. ASSUME Waiting(t) = {<<a, 1>>} PROVE Waiting(t)' = {}
    <3>1. \A b \in Addresses, i \in Nat : <<b, i>> \notin Waiting(t)'
      <4> SUFFICES ASSUME NEW b \in Addresses, NEW i \in Nat, <<b, i>> \in Waiting(t)'
                   PROVE  FALSE
        OBVIOUS
      <4>1. CASE b = a
        <5>1. i # 0 /\ <<a, i + 1>> = <<a, 1>>
          BY <1>6, <2>2, <4>1
        <5>2. QED
          BY <5>1
      <4>2. CASE b # a
        <5>1. <<b, i>> = <<a, 1>>
          BY <1>6, <2>2, <4>2
        <5>2. QED
          BY <4>2, <5>1
      <4>3. QED
        BY <4>1, <4>2
    <3>2. QED
      BY <1>5, <3>1
  <2>3. Lone(Waiting(t)) => Waiting(t) = {<<a, 1>>}
    BY <2>1 DEF Lone
  <2>4. QED
    BY <2>1, <2>2, <2>3
<1>10. t # q[1].tag /\ Lone(Waiting(t)) => Lone(Waiting(t)')
  <2> SUFFICES ASSUME t # q[1].tag, NEW x, Waiting(t) = {x} PROVE Lone(Waiting(t)')
    BY DEF Lone
  <2>1. PICK b \in Addresses, i \in Nat : x = <<b, i>>
    BY <1>5
  <2>2. QED
    BY <1>8, <2>1
<1>11. QED
  BY <1>7, <1>9, <1>10

(* No message has been sent.                                               *)
LEMMA CopyInitial == Init => CopyInv
<1> SUFFICES ASSUME Init PROVE CopyInv
  OBVIOUS
<1>1. Linked
  BY DEF Init, Linked
<1>2. Recorded
  BY Amqp10Assumption DEF Init, Recorded
<1>3. ASSUME NEW t \in Tags PROVE Placed(t, tag)
  <2>1. t \in Nat /\ ~(t <= tag)
    BY Amqp10Assumption DEF Tags, Init
  <2>2. Waiting(t) = {} /\ Taking(t) = {} /\ Held(t) = {}
    BY DEF Init, Waiting, Taking, Held, Unsettled
  <2>3. Deciding(t) = {} /\ Final(t) = {}
    BY DEF Init, Deciding, Final
  <2>4. QED
    BY <2>1, <2>2, <2>3 DEF Placed, Nowhere
<1>4. QED
  BY <1>1, <1>2, <1>3 DEF CopyInv

(* A step that moves no message and records nothing.                       *)
LEMMA NothingMoves ==
  ASSUME CopyInv, UNCHANGED <<tag, backlog, taken, unsettled, deciding, records, handed>>,
         Linked'
  PROVE  CopyInv'
<1>1. Recorded'
  BY DEF CopyInv, Recorded
<1>2. ASSUME NEW t \in Tags PROVE Placed(t, tag)'
  <2>1. /\ Waiting(t)' = Waiting(t) /\ Taking(t)' = Taking(t) /\ Held(t)' = Held(t)
        /\ Deciding(t)' = Deciding(t) /\ Final(t)' = Final(t)
    BY DEF Waiting, Taking, Held, Unsettled, Deciding, Final
  <2>2. QED
    BY <2>1 DEF CopyInv, Placed
<1>3. QED
  BY <1>1, <1>2 DEF CopyInv

(* A message that is sent waits at one node.                               *)
LEMMA SentOnce ==
  ASSUME OrderInv, OrderInv', CopyInv, NEW s \in Senders, Send(s)
  PROVE  CopyInv'
<1> USE DEF OrderInv
<1> DEFINE d == [tag |-> tag + 1, attempts |-> 0]
<1>1. PICK a \in address[s] : backlog' = [backlog EXCEPT ![a] = Append(@, d)]
  BY DEF Send
<1>2. a \in Addresses /\ tag \in Nat /\ tag < MaxTag
  BY DEF Typed, Links, Send
<1>3. d \in Delivery /\ d.tag = tag + 1 /\ tag + 1 \in Tags
  BY <1>2, Amqp10Assumption DEF Delivery, Tags
<1>4. /\ tag' = tag + 1 /\ checked' \subseteq checked
      /\ UNCHANGED <<address, taken, unsettled, deciding, records, handed>>
  BY DEF Send, linkVars
<1> HIDE DEF d
<1>5. \A t : Waiting(t)' = IF t = tag + 1 THEN Waiting(t) \cup {<<a, Len(backlog[a]) + 1>>}
                           ELSE Waiting(t)
  BY <1>1, <1>2, <1>3, Joins
<1>6. \A t : /\ Taking(t)' = Taking(t) /\ Held(t)' = Held(t)
             /\ Deciding(t)' = Deciding(t) /\ Final(t)' = Final(t)
  BY <1>4 DEF Taking, Held, Unsettled, Deciding, Final
<1>7. ASSUME NEW t \in Tags PROVE Placed(t, tag)'
  <2>1. t \in Nat /\ Placed(t, tag)
    BY Amqp10Assumption DEF Tags, CopyInv
  <2>2. CASE t = tag + 1
    <3>1. Nowhere(Waiting(t), Taking(t), Held(t), Deciding(t), Final(t))
      BY <1>2, <2>1, <2>2 DEF Placed
    <3>2. Lone(Waiting(t)')
      BY <1>5, <2>2, <3>1 DEF Nowhere, Lone
    <3>3. Somewhere(Waiting(t)', Taking(t)', Held(t)', Deciding(t)', Final(t)')
      BY <1>6, <3>1, <3>2 DEF Nowhere, Somewhere
    <3>4. QED
      BY <1>2, <1>4, <2>2, <3>3 DEF Placed
  <2>3. CASE t # tag + 1
    <3>1. t <= tag' <=> t <= tag
      BY <1>2, <1>4, <2>1, <2>3
    <3>2. QED
      BY <1>5, <1>6, <2>1, <2>3, <3>1 DEF Placed
  <2>4. QED
    BY <2>2, <2>3
<1>8. Linked'
  BY <1>4 DEF CopyInv, Linked
<1>9. Recorded'
  BY <1>2, <1>4, Amqp10Assumption DEF CopyInv, Recorded
<1>10. QED
  BY <1>7, <1>8, <1>9 DEF CopyInv

(* A message that is taken has left its node.                              *)
LEMMA TakenOnce ==
  ASSUME OrderInv, OrderInv', CopyInv, NEW r \in Receivers, Take(r)
  PROVE  CopyInv'
<1> USE DEF OrderInv
<1>1. PICK a \in address[r] :
        /\ backlog[a] # <<>>
        /\ taken' = [taken EXCEPT ![r] = {Head(backlog[a])}]
        /\ backlog' = [backlog EXCEPT ![a] = Tail(@)]
  BY DEF Take
<1> DEFINE d == Head(backlog[a])
<1>2. a \in Addresses /\ d \in Delivery
  BY <1>1, HeadTailProperties DEF Typed, Links
<1>3. /\ checked' = checked \ {r} /\ r \in checked /\ taken[r] = {}
      /\ UNCHANGED <<tag, address, unsettled, deciding, records, handed>>
  BY DEF Take, CopyInv, Linked
<1>4. taken'[r] = {d} /\ \A x \in Receivers \ {r} : taken'[x] = taken[x]
  BY <1>1 DEF Typed
<1>5. \A t : /\ t # d.tag => /\ Waiting(t) = {} => Waiting(t)' = {}
                             /\ Lone(Waiting(t)) => Lone(Waiting(t)')
             /\ t = d.tag => /\ Waiting(t) # {}
                             /\ Lone(Waiting(t)) => Waiting(t)' = {}
  BY <1>1, <1>2, Leaves
<1> HIDE DEF d
<1>6. \A t : Taking(t)' = IF t = d.tag THEN Taking(t) \cup {r} ELSE Taking(t)
  BY <1>3, <1>4 DEF Taking
<1>7. \A t : /\ Held(t)' = Held(t)
             /\ Deciding(t)' = Deciding(t) /\ Final(t)' = Final(t)
  BY <1>3 DEF Held, Unsettled, Deciding, Final
<1>8. ASSUME NEW t \in Tags PROVE Placed(t, tag)'
  <2>1. Placed(t, tag)
    BY DEF CopyInv
  <2>2. CASE t = d.tag
    <3>1. /\ t <= tag /\ Lone(Waiting(t)) /\ Taking(t) = {}
          /\ Held(t) = {} /\ Deciding(t) = {} /\ Final(t) = {}
      BY <1>5, <2>1, <2>2 DEF Placed, Nowhere, Somewhere
    <3>2. Waiting(t)' = {} /\ Lone(Taking(t)')
      BY <1>5, <1>6, <2>2, <3>1 DEF Lone
    <3>3. QED
      BY <1>3, <1>7, <3>1, <3>2 DEF Placed, Somewhere
  <2>3. CASE t # d.tag
    BY <1>3, <1>5, <1>6, <1>7, <2>1, <2>3 DEF Placed, Nowhere, Somewhere
  <2>4. QED
    BY <2>2, <2>3
<1>9. Linked'
  <2>1. \E b \in Addresses : address[r] = {b}
    BY <1>3 DEF CopyInv, Linked
  <2>2. QED
    BY <1>3, <1>4, <2>1 DEF CopyInv, Linked
<1>10. Recorded'
  BY <1>3 DEF CopyInv, Recorded
<1>11. QED
  BY <1>8, <1>9, <1>10 DEF CopyInv

(* A message that is handed out is in its receiver's table.                *)
LEMMA HandedOnce ==
  ASSUME OrderInv, OrderInv', CopyInv, NEW r \in Receivers, HandOut(r)
  PROVE  /\ CopyInv'
         /\ \E d \in Delivery :
              /\ taken[r] = {d} /\ Held(d.tag) = {} /\ Deciding(d.tag) = {}
              /\ Lone(Held(d.tag)') /\ Deciding(d.tag)' = {}
              /\ \A t \in Tags \ {d.tag} : Held(t)' = Held(t) /\ Deciding(t)' = Deciding(t)
<1> USE DEF OrderInv
<1>1. PICK d : taken[r] = {d}
  <2>1. PICK d \in taken[r] : TRUE
    BY DEF HandOut
  <2>2. taken[r] = {d}
    BY DEF CopyInv, Linked
  <2>3. QED
    BY <2>2
<1>2. d \in Delivery /\ d.tag \in Tags
  BY <1>1 DEF Typed, Delivery
<1>3. /\ UNCHANGED <<tag, backlog, address, checked, deciding, records>>
      /\ taken'[r] = {} /\ unsettled'[r] = unsettled[r] \cup {d}
      /\ \A x \in Receivers \ {r} : taken'[x] = taken[x] /\ unsettled'[x] = unsettled[x]
  BY <1>1 DEF HandOut, nodeVars, Typed
<1>4. \A t : /\ Waiting(t)' = Waiting(t)
             /\ Deciding(t)' = Deciding(t) /\ Final(t)' = Final(t)
  BY <1>3 DEF Waiting, Deciding, Final
<1>5. \A t : Taking(t)' = IF t = d.tag THEN Taking(t) \ {r} ELSE Taking(t)
  BY <1>1, <1>3 DEF Taking
<1>6. r \in Taking(d.tag)
  BY <1>1 DEF Taking
<1>7. \A t : Held(t)' = IF t = d.tag THEN Held(t) \cup {<<r, d>>} ELSE Held(t)
  <2> SUFFICES ASSUME NEW t
               PROVE  Held(t)' = IF t = d.tag THEN Held(t) \cup {<<r, d>>} ELSE Held(t)
    OBVIOUS
  <2>1. \A x : x \in Held(t)' <=>
          \E y \in Receivers : \E e \in unsettled'[y] : x = <<y, e>> /\ e.tag = t
    BY DEF Held, Unsettled
  <2>2. \A x : x \in Held(t)' <=> x \in Held(t) \/ (t = d.tag /\ x = <<r, d>>)
    BY <1>3, <2>1, Belongs
  <2>3. QED
    BY <2>2
<1>8. /\ d.tag <= tag /\ Waiting(d.tag) = {} /\ Lone(Taking(d.tag))
      /\ Held(d.tag) = {} /\ Deciding(d.tag) = {} /\ Final(d.tag) = {}
  <2>1. Placed(d.tag, tag)
    BY <1>2 DEF CopyInv
  <2>2. QED
    BY <1>6, <2>1 DEF Placed, Nowhere, Somewhere
<1>9. Taking(d.tag)' = {} /\ Lone(Held(d.tag)')
  BY <1>5, <1>6, <1>7, <1>8 DEF Lone
<1>10. ASSUME NEW t \in Tags PROVE Placed(t, tag)'
  <2>1. Placed(t, tag)
    BY DEF CopyInv
  <2>2. CASE t = d.tag
    BY <1>3, <1>4, <1>8, <1>9, <2>2 DEF Placed, Somewhere
  <2>3. CASE t # d.tag
    BY <1>3, <1>4, <1>5, <1>7, <2>1, <2>3 DEF Placed
  <2>4. QED
    BY <2>2, <2>3
<1>11. Linked'
  <2>1. \E b \in Addresses : address[r] = {b}
    BY <1>1 DEF CopyInv, Linked
  <2>2. QED
    BY <1>3, <2>1 DEF CopyInv, Linked
<1>12. Recorded'
  <2>1. handed' \in [Tags -> Nat]
    BY DEF HandOut, CopyInv, Recorded
  <2>2. QED
    BY <1>3, <2>1 DEF CopyInv, Recorded
<1>13. CopyInv'
  BY <1>10, <1>11, <1>12 DEF CopyInv
<1>14. QED
  BY <1>1, <1>2, <1>4, <1>7, <1>8, <1>9, <1>13

(* A message being settled has left its receiver's table.                  *)
LEMMA SettledOnce ==
  ASSUME OrderInv, OrderInv', CopyInv, NEW r \in Receivers, NEW d \in unsettled[r],
         NEW disposition \in Dispositions, settle(r, d, disposition)
  PROVE  /\ CopyInv'
         /\ d.tag \in Tags /\ Lone(Held(d.tag)) /\ Deciding(d.tag) = {}
         /\ Held(d.tag)' = {} /\ Lone(Deciding(d.tag)')
         /\ \A t \in Tags \ {d.tag} : Held(t)' = Held(t) /\ Deciding(t)' = Deciding(t)
<1> USE DEF OrderInv
<1> DEFINE e == [link |-> r, delivery |-> d, disposition |-> disposition]
<1>1. d \in Delivery /\ d.tag \in Tags
  BY DEF Typed, Delivery
<1>2. /\ UNCHANGED <<tag, backlog, address, checked, taken, records, handed>>
      /\ deciding' = deciding \cup {e} /\ unsettled'[r] = unsettled[r] \ {d}
      /\ \A x \in Receivers \ {r} : unsettled'[x] = unsettled[x]
  BY DEF settle, nodeVars, Typed
<1>3. e.delivery = d /\ e.link = r
  OBVIOUS
<1> HIDE DEF e
<1>4. \A t : /\ Waiting(t)' = Waiting(t) /\ Taking(t)' = Taking(t) /\ Final(t)' = Final(t)
  BY <1>2 DEF Waiting, Taking, Final
<1>5. \A t : Deciding(t)' = IF t = d.tag THEN Deciding(t) \cup {e} ELSE Deciding(t)
  BY <1>2, <1>3 DEF Deciding
<1>6. \A t : Held(t)' = IF t = d.tag THEN Held(t) \ {<<r, d>>} ELSE Held(t)
  <2> SUFFICES ASSUME NEW t
               PROVE  Held(t)' = IF t = d.tag THEN Held(t) \ {<<r, d>>} ELSE Held(t)
    OBVIOUS
  <2>1. \A x : x \in Held(t)' <=>
          \E y \in Receivers : \E c \in unsettled'[y] : x = <<y, c>> /\ c.tag = t
    BY DEF Held, Unsettled
  <2>2. \A x : x \in Held(t)' <=> x \in Held(t) /\ x # <<r, d>>
    BY <1>2, <2>1, Belongs
  <2>3. t # d.tag => <<r, d>> \notin Held(t)
    BY Belongs
  <2>4. QED
    BY <2>2, <2>3
<1>7. <<r, d>> \in Held(d.tag)
  BY Belongs
<1>8. /\ d.tag <= tag /\ Waiting(d.tag) = {} /\ Taking(d.tag) = {}
      /\ Lone(Held(d.tag)) /\ Deciding(d.tag) = {} /\ Final(d.tag) = {}
  <2>1. Placed(d.tag, tag)
    BY <1>1 DEF CopyInv
  <2>2. QED
    BY <1>7, <2>1 DEF Placed, Nowhere, Somewhere
<1>9. Held(d.tag)' = {} /\ Lone(Deciding(d.tag)')
  BY <1>5, <1>6, <1>7, <1>8 DEF Lone
<1>10. ASSUME NEW t \in Tags PROVE Placed(t, tag)'
  <2>1. Placed(t, tag)
    BY DEF CopyInv
  <2>2. CASE t = d.tag
    BY <1>2, <1>4, <1>8, <1>9, <2>2 DEF Placed, Somewhere
  <2>3. CASE t # d.tag
    BY <1>2, <1>4, <1>5, <1>6, <2>1, <2>3 DEF Placed
  <2>4. QED
    BY <2>2, <2>3
<1>11. Linked'
  <2>1. \E b \in Addresses : address[r] = {b}
    BY DEF CopyInv, Linked
  <2>2. QED
    BY <1>2, <1>3, <2>1 DEF CopyInv, Linked
<1>12. Recorded'
  BY <1>2 DEF CopyInv, Recorded
<1>13. CopyInv'
  BY <1>10, <1>11, <1>12 DEF CopyInv
<1>14. QED
  BY <1>1, <1>5, <1>6, <1>8, <1>9, <1>13

(* A message that is decided on is recorded, and is done with or waits     *)
(* again.                                                                  *)
LEMMA DecidedOnce ==
  ASSUME OrderInv, OrderInv', CopyInv, NEW e \in deciding, decide(e)
  PROVE  /\ CopyInv'
         /\ e.delivery.tag \in Tags
         /\ Lone(Deciding(e.delivery.tag)) /\ Deciding(e.delivery.tag)' = {}
         /\ \A t \in Tags : Held(t)' = Held(t)
         /\ \A t \in Tags \ {e.delivery.tag} : Deciding(t)' = Deciding(t)
<1> USE DEF OrderInv
<1> DEFINE u == e.delivery.tag
           entry == [tag |-> u, disposition |-> e.disposition]
<1>1. e.delivery \in Delivery /\ u \in Tags /\ e.disposition \in Dispositions
  BY DEF Typed, Delivery
<1>2. /\ UNCHANGED <<tag, address, checked, taken, unsettled, handed>>
      /\ deciding' = deciding \ {e} /\ records' = Append(records, entry)
  BY DEF decide, linkVars
<1>3. entry \in [tag : Tags, disposition : Dispositions] /\ entry.tag = u
      /\ entry.disposition = e.disposition
  BY <1>1
<1>4. PICK a \in Addresses : address[e.link] = {a}
  BY DEF CopyInv, Linked
<1>5. /\ records \in Seq([tag : Tags, disposition : Dispositions])
      /\ Len(records) \in Nat /\ DOMAIN records = 1 .. Len(records)
  BY LenProperties DEF CopyInv, Recorded
<1> HIDE DEF u, entry
<1>6. /\ records' \in Seq([tag : Tags, disposition : Dispositions])
      /\ DOMAIN records' = 1 .. Len(records) + 1
      /\ records'[Len(records) + 1] = entry
      /\ \A i \in 1 .. Len(records) : records'[i] = records[i]
  BY <1>2, <1>3, <1>5, AppendProperties, LenProperties
<1>7. \A t : Taking(t)' = Taking(t) /\ Held(t)' = Held(t)
  BY <1>2 DEF Taking, Held, Unsettled
<1>8. \A t : Deciding(t)' = IF t = u THEN Deciding(t) \ {e} ELSE Deciding(t)
  BY <1>2 DEF Deciding, u
<1>9. e \in Deciding(u)
  BY DEF Deciding, u
<1>10. \A t : Final(t)' = IF t = u /\ e.disposition.kind \in {"accept", "reject"}
                          THEN Final(t) \cup {Len(records) + 1} ELSE Final(t)
  BY <1>3, <1>5, <1>6 DEF Final
<1>11. \A t : Waiting(t)' = IF t = u /\ e.disposition.kind \notin {"accept", "reject"}
                            THEN Waiting(t) \cup {<<a, Len(backlog[a]) + 1>>} ELSE Waiting(t)
  <2>1. CASE e.disposition.kind \in {"accept", "reject"} /\ UNCHANGED backlog
    BY <2>1 DEF Waiting
  <2>2. ASSUME NEW d \in Delivery, d.tag = u, redeliver(e.link, d),
               e.disposition.kind \notin {"accept", "reject"}
        PROVE  \A t : Waiting(t)' = IF t = u THEN Waiting(t) \cup {<<a, Len(backlog[a]) + 1>>}
                                    ELSE Waiting(t)
    <3>1. \A b \in Addresses : Attached(e.link, b) <=> b = a
      BY <1>4 DEF Attached
    <3>2. backlog' = [backlog EXCEPT ![a] = Append(@, d)]
      BY <2>2, <3>1 DEF redeliver, Typed
    <3>3. QED
      BY <2>2, <3>2, Joins
  <2>3. CASE e.disposition.kind = "release" /\ redeliver(e.link, e.delivery)
    BY <1>1, <2>2, <2>3 DEF u
  <2>4. CASE /\ e.disposition.kind = "modify"
             /\ redeliver(e.link, Modified(e.delivery, e.disposition.change))
    <3>1. /\ Modified(e.delivery, e.disposition.change) \in Delivery
          /\ Modified(e.delivery, e.disposition.change).tag = u
      BY <1>1 DEF Modified, Delivery, u
    <3>2. QED
      BY <2>2, <2>4, <3>1
  <2>5. QED
    BY <2>1, <2>3, <2>4 DEF decide
<1>12. /\ u <= tag /\ Waiting(u) = {} /\ Taking(u) = {} /\ Held(u) = {}
       /\ Lone(Deciding(u)) /\ Final(u) = {}
  <2>1. Placed(u, tag)
    BY <1>1 DEF CopyInv
  <2>2. QED
    BY <1>9, <2>1 DEF Placed, Nowhere, Somewhere
<1>13. Deciding(u)' = {}
  BY <1>8, <1>9, <1>12 DEF Lone
<1>14. ASSUME NEW t \in Tags PROVE Placed(t, tag)'
  <2>1. Placed(t, tag)
    BY DEF CopyInv
  <2>2. CASE t = u /\ e.disposition.kind \in {"accept", "reject"}
    <3>1. Lone(Final(t)') /\ Waiting(t)' = {}
      BY <1>10, <1>11, <1>12, <2>2 DEF Lone
    <3>2. QED
      BY <1>2, <1>7, <1>12, <1>13, <2>2, <3>1 DEF Placed, Somewhere
  <2>3. CASE t = u /\ e.disposition.kind \notin {"accept", "reject"}
    <3>1. Lone(Waiting(t)') /\ Final(t)' = {}
      BY <1>10, <1>11, <1>12, <2>3 DEF Lone
    <3>2. QED
      BY <1>2, <1>7, <1>12, <1>13, <2>3, <3>1 DEF Placed, Somewhere
  <2>4. CASE t # u
    BY <1>2, <1>7, <1>8, <1>10, <1>11, <2>1, <2>4 DEF Placed
  <2>5. QED
    BY <2>2, <2>3, <2>4
<1>15. Linked'
  BY <1>2 DEF CopyInv, Linked
<1>16. Recorded'
  BY <1>2, <1>6 DEF CopyInv, Recorded
<1>17. CopyInv'
  BY <1>14, <1>15, <1>16 DEF CopyInv
<1>18. QED
  BY <1>1, <1>7, <1>8, <1>12, <1>13, <1>17 DEF u

(* Every step preserves it.                                                *)
LEMMA CopyStep == OrderInv /\ OrderInv' /\ CopyInv /\ [Next]_vars => CopyInv'
<1> SUFFICES ASSUME OrderInv, OrderInv', CopyInv, [Next]_vars PROVE CopyInv'
  OBVIOUS
<1> USE DEF nodeVars, linkVars
<1>1. ASSUME NEW a \in Addresses, Declare(a) PROVE CopyInv'
  BY <1>1, NothingMoves DEF Declare, CopyInv, Linked
<1>2. ASSUME NEW l \in Links, NEW a \in Addresses, Attach(l, a) PROVE CopyInv'
  <2>1. /\ address'[l] = {a} /\ \A x \in Links \ {l} : address'[x] = address[x]
        /\ UNCHANGED <<tag, backlog, checked, taken, unsettled, deciding, records, handed>>
    BY <1>2 DEF Attach, OrderInv, Typed
  <2>2. Linked'
    BY <2>1 DEF CopyInv, Linked, Links
  <2>3. QED
    BY <2>1, <2>2, NothingMoves
<1>3. ASSUME NEW l \in Links, Detach(l) PROVE CopyInv'
  BY <1>3, NothingMoves DEF Detach, CopyInv, Linked
<1>4. ASSUME NEW l \in Links, CheckAttached(l) PROVE CopyInv'
  <2>1. /\ checked' = checked \cup {l} /\ (l \in Receivers => taken[l] = {})
        /\ UNCHANGED <<address, tag, backlog, taken, unsettled, deciding, records, handed>>
    BY <1>4 DEF CheckAttached
  <2>2. \E a \in Addresses : address[l] = {a}
    BY <1>4 DEF CheckAttached, OrderInv, Typed
  <2>3. /\ \A k \in checked' : \E a \in Addresses : address'[k] = {a}
        /\ \A r \in Receivers : r \in checked' => taken'[r] = {}
        /\ checked' \subseteq Links
    BY <2>1, <2>2 DEF CopyInv, Linked
  <2>4. Linked'
    BY <2>1, <2>3 DEF CopyInv, Linked
  <2>5. QED
    BY <2>1, <2>4, NothingMoves
<1>5. ASSUME NEW r \in Receivers, EndOfMessages(r) PROVE CopyInv'
  BY <1>5, NothingMoves DEF EndOfMessages, CopyInv, Linked
<1>6. CASE UNCHANGED vars
  BY <1>6, NothingMoves DEF vars, CopyInv, Linked
<1>7. QED
  BY <1>1, <1>2, <1>3, <1>4, <1>5, <1>6, SentOnce, TakenOnce, HandedOnce, SettledOnce,
     DecidedOnce DEF Next

(* The sizes of the places.                                                *)
LEMMA Sizes ==
  ASSUME NEW S
  PROVE  /\ Lone(S) => Cardinality(S) = 1
         /\ S = {} => Cardinality(S) = 0
BY FS_EmptySet, FS_Singleton DEF Lone

(* No message is lost or doubled, whatever links, settlements and          *)
(* detachments come between the broker's lock and the links' (links.go,    *)
(* settlement.go).                                                         *)
THEOREM CopyCorrect == Spec => []OneCopy
<1>1. CopyInv => OneCopy
  <2> SUFFICES ASSUME CopyInv, NEW t \in Tags
               PROVE  Copies(t) + Cardinality(Final(t)) = IF t <= tag THEN 1 ELSE 0
    BY DEF OneCopy
  <2>1. Copies(t) = Cardinality(Waiting(t)) + Cardinality(Taking(t))
                      + Cardinality(Held(t)) + Cardinality(Deciding(t))
    BY DEF Copies, Waiting, Taking, Held, Deciding
  <2>2. Placed(t, tag)
    BY DEF CopyInv
  <2>3. CASE t <= tag
    <3>1. Somewhere(Waiting(t), Taking(t), Held(t), Deciding(t), Final(t))
      BY <2>2, <2>3 DEF Placed
    <3>2. QED
      BY <2>1, <2>3, <3>1, Sizes DEF Somewhere
  <2>4. CASE ~(t <= tag)
    <3>1. Nowhere(Waiting(t), Taking(t), Held(t), Deciding(t), Final(t))
      BY <2>2, <2>4 DEF Placed
    <3>2. QED
      BY <2>1, <2>4, <3>1, Sizes DEF Nowhere
  <2>5. QED
    BY <2>3, <2>4
<1>2. QED
  BY <1>1, OrderInitial, OrderStep, CopyInitial, CopyStep, PTL DEF Spec

-----------------------------------------------------------------------------
(* Every time a message was handed out, it was answered, is being answered *)
(* or is still in its receiver's table.                                    *)
Owed(t) == Cardinality(Answers(t)) + Cardinality(Held(t)) + Cardinality(Deciding(t))
AnswersInv == \A t \in Tags : IsFiniteSet(Answers(t)) /\ Owed(t) = handed[t]

(* Nothing was handed out at first.                                        *)
LEMMA AnswersInitial == Init => AnswersInv
<1> SUFFICES ASSUME Init, NEW t \in Tags
             PROVE  IsFiniteSet(Answers(t)) /\ Owed(t) = handed[t]
  BY DEF AnswersInv
<1>1. Answers(t) = {} /\ Held(t) = {} /\ Deciding(t) = {} /\ handed[t] = 0
  BY DEF Init, Answers, Held, Unsettled, Deciding
<1>2. QED
  BY <1>1, FS_EmptySet DEF Owed

(* Only handing out, settling and deciding touch what is owed.             *)
LEMMA AnswersStep ==
  OrderInv /\ OrderInv' /\ CopyInv /\ AnswersInv /\ [Next]_vars => AnswersInv'
<1> SUFFICES ASSUME OrderInv, OrderInv', CopyInv, AnswersInv, [Next]_vars PROVE AnswersInv'
  OBVIOUS
<1>1. ASSUME NEW t \in Tags, UNCHANGED records PROVE Answers(t)' = Answers(t)
  BY <1>1 DEF Answers
<1>2. ASSUME UNCHANGED <<unsettled, deciding, records, handed>> PROVE AnswersInv'
  <2>1. \A t \in Tags : Held(t)' = Held(t) /\ Deciding(t)' = Deciding(t)
    BY <1>2 DEF Held, Unsettled, Deciding
  <2>2. QED
    BY <1>1, <1>2, <2>1 DEF AnswersInv, Owed
<1>3. ASSUME NEW r \in Receivers, HandOut(r) PROVE AnswersInv'
  <2>1. PICK d \in Delivery :
          /\ taken[r] = {d} /\ Held(d.tag) = {} /\ Deciding(d.tag) = {}
          /\ Lone(Held(d.tag)') /\ Deciding(d.tag)' = {}
          /\ \A t \in Tags \ {d.tag} : Held(t)' = Held(t) /\ Deciding(t)' = Deciding(t)
    BY <1>3, HandedOnce
  <2>2. /\ UNCHANGED records
        /\ \A t \in Tags : handed'[t] = IF t = d.tag THEN handed[t] + 1 ELSE handed[t]
    BY <1>3, <2>1 DEF HandOut
  <2>3. ASSUME NEW t \in Tags PROVE IsFiniteSet(Answers(t)') /\ Owed(t)' = handed'[t]
    <3>1. Answers(t)' = Answers(t) /\ IsFiniteSet(Answers(t)) /\ Owed(t) = handed[t]
      BY <1>1, <2>2 DEF AnswersInv
    <3>2. CASE t = d.tag
      <4>1. /\ Cardinality(Held(t)) = 0 /\ Cardinality(Deciding(t)) = 0
            /\ Cardinality(Held(t)') = 1 /\ Cardinality(Deciding(t)') = 0
        BY <2>1, <3>2, Sizes
      <4>2. Cardinality(Answers(t)) \in Nat
        BY <3>1, FS_CardinalityType
      <4>3. QED
        BY <2>2, <3>1, <3>2, <4>1, <4>2 DEF Owed
    <3>3. CASE t # d.tag
      BY <2>1, <2>2, <3>1, <3>3 DEF Owed
    <3>4. QED
      BY <3>2, <3>3
  <2>4. QED
    BY <2>3 DEF AnswersInv
<1>4. ASSUME NEW r \in Receivers, NEW d \in unsettled[r], NEW x \in Dispositions,
             settle(r, d, x)
      PROVE  AnswersInv'
  <2>1. /\ Lone(Held(d.tag)) /\ Deciding(d.tag) = {}
        /\ Held(d.tag)' = {} /\ Lone(Deciding(d.tag)')
        /\ \A t \in Tags \ {d.tag} : Held(t)' = Held(t) /\ Deciding(t)' = Deciding(t)
    BY <1>4, SettledOnce
  <2>2. UNCHANGED <<records, handed>>
    BY <1>4 DEF settle
  <2>3. ASSUME NEW t \in Tags PROVE IsFiniteSet(Answers(t)') /\ Owed(t)' = handed'[t]
    <3>1. Answers(t)' = Answers(t) /\ IsFiniteSet(Answers(t)) /\ Owed(t) = handed[t]
      BY <1>1, <2>2 DEF AnswersInv
    <3>2. CASE t = d.tag
      <4>1. /\ Cardinality(Held(t)) = 1 /\ Cardinality(Deciding(t)) = 0
            /\ Cardinality(Held(t)') = 0 /\ Cardinality(Deciding(t)') = 1
        BY <2>1, <3>2, Sizes
      <4>2. Cardinality(Answers(t)) \in Nat
        BY <3>1, FS_CardinalityType
      <4>3. QED
        BY <2>2, <3>1, <4>1, <4>2 DEF Owed
    <3>3. CASE t # d.tag
      BY <2>1, <2>2, <3>1, <3>3 DEF Owed
    <3>4. QED
      BY <3>2, <3>3
  <2>4. QED
    BY <2>3 DEF AnswersInv
<1>5. ASSUME NEW e \in deciding, decide(e) PROVE AnswersInv'
  <2> DEFINE u == e.delivery.tag
             n == Len(records) + 1
             entry == [tag |-> u, disposition |-> e.disposition]
  <2>1. /\ Lone(Deciding(u)) /\ Deciding(u)' = {} /\ u \in Tags
        /\ \A t \in Tags : Held(t)' = Held(t)
        /\ \A t \in Tags \ {u} : Deciding(t)' = Deciding(t)
    BY <1>5, DecidedOnce
  <2>2. UNCHANGED handed /\ records' = Append(records, entry)
    BY <1>5 DEF decide
  <2>3. /\ records \in Seq([tag : Tags, disposition : Dispositions])
        /\ Len(records) \in Nat /\ DOMAIN records = 1 .. Len(records)
    BY LenProperties DEF CopyInv, Recorded
  <2>4. entry \in [tag : Tags, disposition : Dispositions] /\ entry.tag = u
    BY <2>1 DEF OrderInv, Typed
  <2> HIDE DEF entry, u
  <2>5. /\ DOMAIN records' = 1 .. n /\ records'[n] = entry
        /\ \A i \in 1 .. Len(records) : records'[i] = records[i]
    BY <2>2, <2>3, <2>4, AppendProperties, LenProperties
  <2>6. \A t \in Tags : Answers(t)' = IF t = u THEN Answers(t) \cup {n} ELSE Answers(t)
    BY <2>3, <2>4, <2>5 DEF Answers
  <2>7. n \notin Answers(u)
    BY <2>3 DEF Answers
  <2> HIDE DEF n
  <2>8. ASSUME NEW t \in Tags PROVE IsFiniteSet(Answers(t)') /\ Owed(t)' = handed'[t]
    <3>1. IsFiniteSet(Answers(t)) /\ Owed(t) = handed[t] /\ Cardinality(Answers(t)) \in Nat
      BY FS_CardinalityType DEF AnswersInv
    <3>2. CASE t = u
      <4>1. IsFiniteSet(Answers(t)') /\ Cardinality(Answers(t)') = Cardinality(Answers(t)) + 1
        BY <2>6, <2>7, <3>1, <3>2, FS_AddElement
      <4>2. Cardinality(Deciding(t)) = 1 /\ Cardinality(Deciding(t)') = 0
        BY <2>1, <3>2, Sizes
      <4>3. Cardinality(Held(t)') = Cardinality(Held(t)) /\ Cardinality(Held(t)) \in Nat
        <5>1. Held(t) = {} \/ Lone(Held(t))
          BY DEF CopyInv, Placed, Somewhere, Nowhere
        <5>2. QED
          BY <2>1, <5>1, Sizes
      <4>4. QED
        BY <2>2, <3>1, <4>1, <4>2, <4>3 DEF Owed
    <3>3. CASE t # u
      BY <2>1, <2>2, <2>6, <3>1, <3>3 DEF Owed
    <3>4. QED
      BY <3>2, <3>3
  <2>9. QED
    BY <2>8 DEF AnswersInv
<1>6. QED
  BY <1>2, <1>3, <1>4, <1>5 DEF Next, vars, nodeVars, linkVars, Declare, Attach, Detach,
     CheckAttached, Send, Take, EndOfMessages

(* The outcomes a test reads are one per time a message was handed out, so *)
(* no delivery is answered twice and none is recorded as answered that is  *)
(* still in a receiver's hands (settlement.go).                            *)
THEOREM AnswersCorrect == Spec => []AnsweredOnce
<1>1. AnswersInv => AnsweredOnce
  BY DEF AnswersInv, AnsweredOnce, Owed, Answers, Held, Deciding
<1>2. QED
  BY <1>1, OrderInitial, OrderStep, CopyInitial, CopyStep, AnswersInitial, AnswersStep, PTL
     DEF Spec
=============================================================================
